---------------------------- MODULE TransfersProofs ----------------------------
(* Transfers, proved for any number of commands, connections, documents, files and  *)
(* failures: what a command that answers has done, and that an incremental export   *)
(* leaves out no document.  Then of JsonStore, the file such an export's watermark  *)
(* is kept in, that it implements one log which changes by whole changes, for any   *)
(* commands, stores, limits and failures, whatever a change makes of a log.         *)
EXTENDS Transfers, JsonStore, TLAPS, WellFoundedInduction, SequenceTheorems

-----------------------------------------------------------------------------
(* The inductive invariant. *)

\* What has answered, or was never asked for anything.
BriefJob ==
    [kind : {"idle", "export nothing", "copy here", "gone", "import", "duplicate", "copy", "export"},
     at : {"start", "end"}, answer : {"none", "ok", "failed"}, parser : {"end", "failed"}]

ImportJob ==
    [kind : {"import"}, at : {"run", "end"}, answer : {"none", "ok", "failed"}, to : Stored,
     file : File, next : Nat \ {0}, batch : Seq(Id), inserted : Seq(Id),
     parser : {"parse", "send", "end", "failed"}, channel : Seq(Seq(Id)), receiving : BOOLEAN, hand : Seq(Id)]

DuplicateJob == [kind : {"duplicate"}, at : {"out"}, answer : {"none"}, from : Stored, to : Stored]

CopyJob ==
    [kind : {"copy"}, at : {"drop", "read"}, answer : {"none"}, from : Stored, to : Stored,
     last : Nat, batch : Seq(Id), copied : SUBSET Id, present : SUBSET Id]

ExportJob ==
    [kind : {"export"}, at : {"window", "headers", "rows", "flush", "mark"}, answer : {"none"}, from : Place,
     format : {"csv", "json"}, incremental : BOOLEAN, boundary : Id, window : SUBSET Id, left : SUBSET Id,
     last : Nat, rows : SUBSET Id, present : SUBSET Id]

\* The types.
TypeOK ==
    /\ data \in [Stored -> (SUBSET Id) \cup {Missing}]
    /\ watermark \in [Place -> {0} \cup Id]
    /\ job \in [Job -> BriefJob \cup ImportJob \cup DuplicateJob \cup CopyJob \cup ExportJob]
    /\ \A j \in Job : job[j].at = "start" => job[j].kind = "idle"
    /\ events \in Nat
    /\ exported \in [Place -> SUBSET Id] /\ passed \in [Place -> SUBSET Id]

\* The documents of its window that an export has written, or is still to come to.
Due(r) ==
    CASE r.at = "headers" -> r.window
      [] r.at = "rows" -> r.rows \cup {d \in r.window : d > r.last}
      [] OTHER -> r.rows

\* A cursor is at the beginning before it is opened; only incremental exports have a watermark.
InPlace(r) == r.kind = "export" => (r.at = "window" => r.last = 0) /\ (r.at = "mark" => r.incremental)

\* What an export's filter let through and what it left out make up all that there was, up to
\* the boundary, that is not behind the watermark.
Covers(r) ==
    OneType /\ r.kind = "export" /\ r.at \notin {"window", "end"} /\ r.incremental =>
        /\ \A d \in Docs(Where(r.from)) : d <= r.boundary =>
               d \in exported[r.from] \cup passed[r.from] \cup r.left \cup Due(r)
        /\ r.at = "mark" => r.rows \subseteq exported[r.from]

\* What was there all along, and matched, is written or due.
Exporting(r) ==
    r.kind = "export" /\ r.at \notin {"window", "end"} =>
        r.present \subseteq Due(r)

\* Documents that were there all along are ahead of the cursor, or copied.
Copying(r) ==
    r.kind = "copy" /\ r.at # "end" =>
        /\ r.present \subseteq r.copied \cup ToSet(r.batch) \cup {d \in Id : d > r.last}
        /\ r.at = "drop" => r.last = 0

\* What was there all along is there.
Present(r) == r.kind \in {"copy", "export"} /\ r.at # "end" => r.present \subseteq Docs(Reads(r))

\* What the parser has taken from the file, on its way.
Sent(channel) == IF channel = <<>> THEN <<>> ELSE channel[1]
Taken(r) == r.inserted \o r.hand \o Sent(r.channel) \o r.batch

\* Sequence s is the beginning of file f.
Begins(s, f) == Len(s) <= Len(f) /\ \A i \in 1..Len(s) : s[i] = f[i]

\* The parts an import is in are the file's beginning, in its order.
InOrder(r) ==
    r.kind = "import" /\ r.at = "run" =>
        /\ Len(r.channel) <= 1 /\ r.receiving /\ Begins(Taken(r), r.file)
        /\ r.parser # "failed" => r.next = Len(Taken(r)) + 1
        /\ r.parser = "end" => r.next > Len(r.file)
        /\ r.parser \in {"end", "failed"} => r.batch = <<>>

\* Nothing is skipped, and nothing will be.
SkippedInv == NothingSkipped /\ \A j \in Job : InPlace(job[j]) /\ Covers(job[j])

\* What a command has is what it must have by then.
Work(r) == Exporting(r) /\ Copying(r) /\ Present(r) /\ InOrder(r)
WorkInv == \A j \in Job : Work(job[j])
-----------------------------------------------------------------------------
(* Least and greatest documents. *)

\* The order of numbers is well-founded.
LEMMA NatWellFounded == IsWellFoundedOn({x \in Nat \X Nat : x[1] < x[2]}, Nat)
BY NatLessThanWellFounded DEF OpToRel

\* Documents have a least one.
LEMMA MinOf ==
    ASSUME NEW S, S \subseteq Nat, S # {}
    PROVE  Min(S) \in S /\ \A x \in S : Min(S) <= x
<1> DEFINE R == {x \in Nat \X Nat : x[1] < x[2]}
<1>1. \E x \in S : \A y \in S : ~ (<<y, x>> \in R)
  <2> HIDE DEF R
  <2> QED BY NatWellFounded, WFMin DEF R
<1>2. PICK x \in S : \A y \in S : ~ (<<y, x>> \in R)
  BY <1>1
<1>3. ASSUME NEW y \in S
      PROVE  x <= y
  <2>1. <<y, x>> \in Nat \X Nat /\ <<y, x>>[1] = y /\ <<y, x>>[2] = x
    OBVIOUS
  <2>2. ~(y < x)
    BY <1>2, <2>1
  <2> QED BY <2>2
<1> QED BY <1>3 DEF Min

\* And, at most MaxId, a greatest one.
LEMMA MaxOf ==
    ASSUME NEW S, S \subseteq Id, S # {}
    PROVE  Max(S) \in S /\ \A x \in S : x <= Max(S)
<1> DEFINE T == {MaxId - x : x \in S}
<1>1. MaxId \in Nat /\ \A x \in S : x \in Nat /\ x <= MaxId
  BY TransfersAssumption DEF Id
<1>2. T \subseteq Nat /\ T # {}
  BY <1>1
<1>3. Min(T) \in T /\ \A y \in T : Min(T) <= y
  <2> HIDE DEF T
  <2> QED BY <1>2, MinOf
<1>4. PICK m \in S : \A y \in T : MaxId - m <= y
  BY <1>3
<1>5. \A x \in S : MaxId - m <= MaxId - x
  BY <1>4
<1>6. \A x \in S : m >= x
  BY <1>1, <1>5
<1> QED BY <1>1, <1>6 DEF Max

-----------------------------------------------------------------------------
(* Types. *)

AnyJob == BriefJob \cup ImportJob \cup DuplicateJob \cup CopyJob \cup ExportJob

\* A command in the middle of its work has what its kind needs.
LEMMA Kinds ==
    ASSUME TypeOK, NEW j \in Job
    PROVE  /\ job[j] \in AnyJob /\ job[j].at \in {"start", "end", "run", "out", "drop", "read", "window", "headers",
                                                  "rows", "flush", "mark"}
           /\ job[j].kind = "import" /\ (job[j].at = "run" \/ job[j].parser \in {"parse", "send"}) => job[j] \in ImportJob
           /\ job[j].kind = "duplicate" /\ job[j].at # "end" => job[j] \in DuplicateJob
           /\ job[j].kind = "copy" /\ job[j].at # "end" => job[j] \in CopyJob
           /\ job[j].kind = "export" /\ job[j].at # "end" => job[j] \in ExportJob
<1>1. job[j] \in AnyJob /\ (job[j].at = "start" => job[j].kind = "idle")
  BY DEF TypeOK, AnyJob
<1> QED
  BY <1>1 DEF AnyJob, BriefJob, ImportJob, DuplicateJob, CopyJob, ExportJob

\* What is stored somewhere are documents.
LEMMA DocsType ==
    ASSUME TypeOK, NEW w \in Stored
    PROVE  Docs(w) \subseteq Id
<1>1. data[w] \in (SUBSET Id) \cup {Missing}
  BY DEF TypeOK
<1>2. data[w] # Missing => data[w] \in SUBSET Id
  BY <1>1
<1> QED BY <1>2 DEF Docs

\* A place is stored somewhere.
LEMMA WhereType == \A p \in Place : Where(p) \in Stored
BY DEF Stored

\* What has ended is known by its answer.
LEMMA EndedType ==
    ASSUME TypeOK, NEW j \in Job, NEW answer \in {"none", "ok", "failed"},
           job[j].kind = "import" => job[j].parser \in {"end", "failed"}
    PROVE  Ended(j, answer) \in BriefJob /\ Ended(j, answer).at = "end" /\ Ended(j, answer).kind = job[j].kind
           /\ Ended(j, answer).answer = answer
<1>1. job[j].kind \in {"idle", "export nothing", "copy here", "gone", "import", "duplicate", "copy", "export"}
  BY Kinds DEF AnyJob, BriefJob, ImportJob, DuplicateJob, CopyJob, ExportJob
<1> QED BY <1>1 DEF Ended, BriefJob

\* A job that becomes one of the types, the rest as it was.
LEMMA BecomesType ==
    ASSUME TypeOK, NEW j \in Job, NEW r \in AnyJob, Becomes(j, r), r.at # "start"
    PROVE  /\ job' \in [Job -> AnyJob] /\ (\A k \in Job : job'[k].at = "start" => job'[k].kind = "idle")
           /\ job'[j] = r /\ \A k \in Job : k # j => job'[k] = job[k]
BY DEF Becomes, TypeOK, AnyJob

\* Documents gone from a collection are gone from what its readers must read.
LEMMA GoneIs ==
    ASSUME TypeOK, NEW w, NEW D
    PROVE  /\ Gone(w, D) \in [Job -> AnyJob]
           /\ \A j \in Job :
                 Gone(w, D)[j] = IF job[j].kind \in {"copy", "export"} /\ job[j].at # "end" /\ Reads(job[j]) = w
                                 THEN [job[j] EXCEPT !.present = @ \ D] ELSE job[j]
           /\ \A j \in Job : Gone(w, D)[j].at = job[j].at /\ Gone(w, D)[j].kind = job[j].kind
<1>1. ASSUME NEW j \in Job, job[j].kind \in {"copy", "export"}, job[j].at # "end"
      PROVE  /\ [job[j] EXCEPT !.present = @ \ D] \in AnyJob
             /\ [job[j] EXCEPT !.present = @ \ D].at = job[j].at /\ [job[j] EXCEPT !.present = @ \ D].kind = job[j].kind
  <2>1. job[j] \in CopyJob \cup ExportJob
    BY <1>1, Kinds
  <2> QED BY <2>1 DEF CopyJob, ExportJob, AnyJob
<1>2. \A j \in Job : job[j] \in AnyJob
  BY Kinds
<1> QED BY <1>1, <1>2 DEF Gone

\* What is stored, and noted as too late, are documents.
LEMMA StoreType ==
    ASSUME TypeOK, NEW w \in Stored, NEW D \in SUBSET Id, Store(w, D)
    PROVE  data' \in [Stored -> (SUBSET Id) \cup {Missing}] /\ passed' \in [Place -> SUBSET Id]
<1>1. Docs(w) \cup D \in SUBSET Id
  BY DocsType
<1>2. data' \in [Stored -> (SUBSET Id) \cup {Missing}]
  BY <1>1 DEF Store, TypeOK
<1>3. passed' \in [Place -> SUBSET Id]
  BY DEF Store, TypeOK
<1> QED BY <1>2, <1>3

\* The same of a collection replaced.
LEMMA OutType ==
    ASSUME TypeOK, NEW from \in Stored, NEW to \in Stored, NEW j \in Job, NEW r \in AnyJob, r.at # "start",
           Out(from, to, j, r)
    PROVE  /\ data' \in [Stored -> (SUBSET Id) \cup {Missing}] /\ passed' \in [Place -> SUBSET Id]
           /\ job' \in [Job -> AnyJob] /\ (\A k \in Job : job'[k].at = "start" => job'[k].kind = "idle")
<1>1. Docs(from) \subseteq Id
  BY DocsType
<1>2. data' \in [Stored -> (SUBSET Id) \cup {Missing}] /\ passed' \in [Place -> SUBSET Id]
  BY <1>1 DEF Out, TypeOK
<1> DEFINE G == Gone(to, Docs(to) \ Docs(from))
<1>3. G \in [Job -> AnyJob] /\ \A k \in Job : G[k].at = job[k].at /\ G[k].kind = job[k].kind
  BY GoneIs
<1>4. job' = [G EXCEPT ![j] = r]
  BY DEF Out
<1> HIDE DEF G
<1> QED BY <1>2, <1>3, <1>4 DEF TypeOK

\* The elements of a sequence of documents, or of a beginning of one, are documents.
LEMMA BatchType ==
    ASSUME NEW batch \in Seq(Id), NEW k \in 0..Len(batch)
    PROVE  /\ ToSet(batch) \in SUBSET Id /\ ToSet(SubSeq(batch, 1, k)) \in SUBSET Id
           /\ SubSeq(batch, 1, k) \in Seq(Id)
<1>1. SubSeq(batch, 1, k) \in Seq(Id)
  BY SubSeqProperties
<1>2. ASSUME NEW s \in Seq(Id)
      PROVE  ToSet(s) \in SUBSET Id
  BY DEF ToSet
<1> QED BY <1>1, <1>2

\* At the start nothing runs.
LEMMA TypeInit == Init => TypeOK
<1> SUFFICES ASSUME Init PROVE TypeOK
  OBVIOUS
<1>1. Idle \in BriefJob /\ Idle.at = "start" /\ Idle.kind = "idle"
  BY DEF Idle, BriefJob
<1>2. data \in [Stored -> (SUBSET Id) \cup {Missing}]
  <2>1. {1} \in SUBSET Id
    BY TransfersAssumption DEF Id
  <2> QED BY <2>1 DEF Init
<1> QED BY <1>1, <1>2 DEF Init, TypeOK

\* A command that becomes one of the types, with nothing stored, keeps the types.
LEMMA TypeBecomes ==
    ASSUME TypeOK, NEW j \in Job, NEW r \in AnyJob, Becomes(j, r), r.at # "start",
           data' \in [Stored -> (SUBSET Id) \cup {Missing}], passed' \in [Place -> SUBSET Id],
           UNCHANGED <<watermark, exported>>, NoEvent \/ Event
    PROVE  TypeOK'
<1>1. events' \in Nat
  BY DEF NoEvent, Event, TypeOK
<1>2. /\ job' \in [Job -> AnyJob] /\ (\A k \in Job : job'[k].at = "start" => job'[k].kind = "idle")
  BY BecomesType
<1> QED BY <1>1, <1>2 DEF TypeOK, AnyJob

\* The parser's next element is a document, or does not parse.
LEMMA NextElement ==
    ASSUME TypeOK, NEW j \in Job, job[j] \in ImportJob
    PROVE  /\ job[j].file \in Seq(Id \cup {Bad}) /\ job[j].next \in Nat \ {0}
           /\ job[j].next <= Len(job[j].file) /\ job[j].file[job[j].next] # Bad => job[j].file[job[j].next] \in Id
<1>1. job[j].file \in Seq(Id \cup {Bad}) /\ job[j].next \in Nat \ {0}
  BY TransfersAssumption DEF ImportJob
<1>2. job[j].next <= Len(job[j].file) => job[j].next \in 1..Len(job[j].file)
  BY <1>1
<1>3. job[j].next <= Len(job[j].file) => job[j].file[job[j].next] \in Id \cup {Bad}
  BY <1>1, <1>2, ElementOfSeq
<1> QED BY <1>1, <1>3

\* The types of an import's parts.
LEMMA ImportFields ==
    ASSUME TypeOK, NEW j \in Job, job[j] \in ImportJob
    PROVE  /\ job[j].batch \in Seq(Id) /\ job[j].hand \in Seq(Id) /\ job[j].inserted \in Seq(Id)
           /\ job[j].channel \in Seq(Seq(Id)) /\ job[j].to \in Stored /\ job[j].at \in {"run", "end"}
           /\ job[j].receiving \in BOOLEAN /\ job[j].kind = "import"
           /\ job[j].parser \in {"parse", "send", "end", "failed"}
BY DEF ImportJob

\* The next element, or the end of the file.
LEMMA ParseSteps ==
    ASSUME TypeOK, NEW j \in Job, Parse(j)
    PROVE  /\ job[j] \in ImportJob /\ job[j].parser = "parse"
           /\ LET r == job[j] IN
              \/ /\ r.next > Len(r.file)
                 /\ \/ r.batch = <<>> /\ Becomes(j, [r EXCEPT !.parser = "end"])
                    \/ Becomes(j, [r EXCEPT !.parser = "send"])
              \/ r.next <= Len(r.file) /\ Becomes(j, [r EXCEPT !.parser = "failed", !.batch = <<>>])
              \/ /\ r.next <= Len(r.file) /\ r.file[r.next] # Bad
                 /\ Becomes(j, [r EXCEPT !.next = r.next + 1, !.batch = Append(r.batch, r.file[r.next]),
                                         !.parser = IF Len(Append(r.batch, r.file[r.next])) >= BatchSize
                                                    THEN "send" ELSE "parse"])
<1> DEFINE r == job[j]
           batch == Append(r.batch, r.file[r.next])
<1>1. r \in ImportJob /\ r.parser = "parse"
  BY Kinds DEF Parse, Parser
<1>2. r.next \in Nat /\ Len(r.file) \in Nat
  BY <1>1, NextElement, LenProperties
<1>3. Becomes(j,
              CASE r.next > Len(r.file) /\ r.batch = <<>> -> [r EXCEPT !.parser = "end"]
                [] r.next > Len(r.file) /\ r.batch # <<>> -> [r EXCEPT !.parser = "send"]
                [] r.next <= Len(r.file) /\ r.file[r.next] = Bad -> [r EXCEPT !.parser = "failed", !.batch = <<>>]
                [] OTHER -> [r EXCEPT !.next = r.next + 1, !.batch = batch,
                                      !.parser = IF Len(batch) >= BatchSize THEN "send" ELSE "parse"])
  BY DEF Parse
<1> HIDE DEF r, batch
<1>4. CASE r.next > Len(r.file)
  <2>1. ~(r.next <= Len(r.file))
    BY <1>2, <1>4
  <2>2. CASE r.batch = <<>>
    <3>1. Becomes(j, [r EXCEPT !.parser = "end"])
      BY <1>3, <1>4, <2>1, <2>2
    <3> QED BY <1>1, <1>4, <2>2, <3>1 DEF r
  <2>3. CASE r.batch # <<>>
    <3>1. Becomes(j, [r EXCEPT !.parser = "send"])
      BY <1>3, <1>4, <2>1, <2>3
    <3> QED BY <1>1, <1>4, <3>1 DEF r
  <2> QED BY <2>2, <2>3
<1>5. CASE r.next <= Len(r.file)
  <2>1. ~(r.next > Len(r.file))
    BY <1>2, <1>5
  <2>2. CASE r.file[r.next] = Bad
    <3>1. Becomes(j, [r EXCEPT !.parser = "failed", !.batch = <<>>])
      BY <1>3, <1>5, <2>1, <2>2
    <3> QED BY <1>1, <1>5, <3>1 DEF r
  <2>3. CASE r.file[r.next] # Bad
    <3>1. Becomes(j, [r EXCEPT !.next = r.next + 1, !.batch = batch,
                               !.parser = IF Len(batch) >= BatchSize THEN "send" ELSE "parse"])
      BY <1>3, <1>5, <2>1, <2>3
    <3> QED BY <1>1, <1>5, <2>3, <3>1 DEF r, batch
  <2> QED BY <2>2, <2>3
<1> QED BY <1>2, <1>4, <1>5

\* A step of an import keeps the types.
LEMMA TypeImport ==
    ASSUME TypeOK, NEW j \in Job,
           StartImport(j) \/ ImportStep(j) \/ ImportFails(j) \/ ParseFails(j)
    PROVE  TypeOK'
<1>0. data \in [Stored -> (SUBSET Id) \cup {Missing}] /\ passed \in [Place -> SUBSET Id]
  BY DEF TypeOK
<1>1. CASE StartImport(j)
  <2>1. PICK p \in Place, f \in File :
           Becomes(j, [kind |-> "import", answer |-> IF f = <<>> THEN "ok" ELSE "none",
                       at |-> IF f = <<>> THEN "end" ELSE "run",
                       to |-> Where(p), file |-> f, next |-> 1, batch |-> <<>>, inserted |-> <<>>,
                       parser |-> IF f = <<>> THEN "end" ELSE "parse",
                       channel |-> <<>>, receiving |-> TRUE, hand |-> <<>>])
    BY <1>1 DEF StartImport
  <2> DEFINE r == [kind |-> "import", answer |-> IF f = <<>> THEN "ok" ELSE "none",
                       at |-> IF f = <<>> THEN "end" ELSE "run",
                       to |-> Where(p), file |-> f, next |-> 1, batch |-> <<>>, inserted |-> <<>>,
                       parser |-> IF f = <<>> THEN "end" ELSE "parse",
                       channel |-> <<>>, receiving |-> TRUE, hand |-> <<>>]
  <2>2. r \in ImportJob /\ r.at # "start"
    BY WhereType, EmptySeq DEF ImportJob
  <2>3. r \in AnyJob
    BY <2>2 DEF AnyJob
  <2> HIDE DEF r
  <2>4. Becomes(j, r) /\ UNCHANGED <<data, watermark, events, watched>>
    BY <1>1, <2>1 DEF StartImport, r
  <2> QED BY <1>0, <2>2, <2>3, <2>4, TypeBecomes DEF NoEvent, watched
<1>2. ASSUME NEW r \in ImportJob, Becomes(j, r), UNCHANGED <<watermark, exported>>, NoEvent \/ Event,
             data' \in [Stored -> (SUBSET Id) \cup {Missing}], passed' \in [Place -> SUBSET Id]
      PROVE  TypeOK'
  <2>1. r \in AnyJob /\ r.at # "start"
    BY <1>2 DEF AnyJob, ImportJob
  <2> QED BY <1>2, <2>1, TypeBecomes
<1>3. CASE Parse(j) \/ Send(j) \/ Receive(j) \/ ParseFails(j)
  <2>1. job[j] \in ImportJob
    BY <1>3, Kinds DEF Parse, Send, Receive, ParseFails, Parser, Is
  <2>2. \E r \in ImportJob : Becomes(j, r)
    <3>1. CASE Parse(j)
      <4> DEFINE r == job[j]
                 batch == Append(r.batch, r.file[r.next])
      <4>1. <<>> \in Seq(Id) /\ r.next + 1 \in Nat \ {0}
            /\ (r.next <= Len(r.file) /\ r.file[r.next] # Bad => batch \in Seq(Id))
        BY <2>1, NextElement, ImportFields, EmptySeq, AppendProperties
      <4>2. /\ [r EXCEPT !.parser = "end"] \in ImportJob /\ [r EXCEPT !.parser = "send"] \in ImportJob
            /\ [r EXCEPT !.parser = "failed", !.batch = <<>>] \in ImportJob
        BY <2>1, <4>1 DEF ImportJob
      <4>3. ASSUME r.next <= Len(r.file) /\ r.file[r.next] # Bad
            PROVE  [r EXCEPT !.next = r.next + 1, !.batch = batch,
                             !.parser = IF Len(batch) >= BatchSize THEN "send" ELSE "parse"] \in ImportJob
        <5>1. batch \in Seq(Id) /\ r.next + 1 \in Nat \ {0} /\ r \in ImportJob
          BY <2>1, <4>1, <4>3
        <5> HIDE DEF batch, r
        <5> QED BY <5>1 DEF ImportJob
      <4> QED BY <3>1, <4>2, <4>3, ParseSteps
    <3>2. CASE Send(j)
      <4>1. Append(job[j].channel, job[j].batch) \in Seq(Seq(Id)) /\ <<>> \in Seq(Id)
        BY <2>1, ImportFields, EmptySeq
      <4>2. \/ Becomes(j, [job[j] EXCEPT !.channel = Append(job[j].channel, job[j].batch), !.batch = <<>>,
                                         !.parser = "parse"])
            \/ Becomes(j, [job[j] EXCEPT !.batch = <<>>, !.parser = "failed"])
        BY <3>2 DEF Send
      <4>3. /\ [job[j] EXCEPT !.channel = Append(job[j].channel, job[j].batch), !.batch = <<>>,
                              !.parser = "parse"] \in ImportJob
            /\ [job[j] EXCEPT !.batch = <<>>, !.parser = "failed"] \in ImportJob
        BY <2>1, <4>1 DEF ImportJob
      <4> QED BY <4>2, <4>3
    <3>3. CASE Receive(j)
      <4>1. Head(job[j].channel) \in Seq(Id) /\ Tail(job[j].channel) \in Seq(Seq(Id))
        BY <2>1, <3>3, ImportFields, HeadTailProperties DEF Receive
      <4>2. Becomes(j, [job[j] EXCEPT !.hand = Head(job[j].channel), !.channel = Tail(job[j].channel)])
        BY <3>3 DEF Receive
      <4>3. [job[j] EXCEPT !.hand = Head(job[j].channel), !.channel = Tail(job[j].channel)] \in ImportJob
        BY <2>1, <4>1 DEF ImportJob
      <4> QED BY <4>2, <4>3
    <3>4. CASE ParseFails(j)
      <4>1. Becomes(j, [job[j] EXCEPT !.parser = "failed", !.batch = <<>>])
        BY <3>4 DEF ParseFails
      <4>2. [job[j] EXCEPT !.parser = "failed", !.batch = <<>>] \in ImportJob
        BY <2>1, EmptySeq DEF ImportJob
      <4> QED BY <4>1, <4>2
    <3> QED BY <1>3, <3>1, <3>2, <3>3, <3>4
  <2>3. UNCHANGED <<data, watermark, exported, passed>> /\ (NoEvent \/ Event)
    BY <1>3 DEF Parse, Send, Receive, ParseFails, watched, NoEvent
  <2> QED BY <1>0, <1>2, <2>2, <2>3
<1>4. CASE Insert(j) \/ ImportFails(j)
  <2>1. job[j] \in ImportJob
    BY <1>4, Kinds DEF Insert, ImportFails, Is
  <2>2. \E r \in ImportJob, D \in SUBSET Id : Becomes(j, r) /\ Store(job[j].to, D) /\ (NoEvent \/ Event)
    <3>1. CASE Insert(j)
      <4>1. job[j].inserted \o job[j].hand \in Seq(Id) /\ <<>> \in Seq(Id) /\ Len(job[j].hand) \in 0..Len(job[j].hand)
        BY <2>1, ImportFields, ConcatProperties, EmptySeq, LenProperties
      <4>2. /\ Store(job[j].to, ToSet(job[j].hand)) /\ NoEvent
            /\ Becomes(j, [job[j] EXCEPT !.inserted = job[j].inserted \o job[j].hand, !.hand = <<>>])
        BY <3>1 DEF Insert, InsertMany
      <4>3. [job[j] EXCEPT !.inserted = job[j].inserted \o job[j].hand, !.hand = <<>>] \in ImportJob
        BY <2>1, <4>1 DEF ImportJob
      <4>4. ToSet(job[j].hand) \in SUBSET Id
        BY <2>1, <4>1, ImportFields, BatchType
      <4> QED BY <4>2, <4>3, <4>4
    <3>2. CASE ImportFails(j)
      <4>1. PICK k \in 0..Len(job[j].hand) :
               /\ InsertFails(job[j].to, job[j].hand, k)
               /\ Becomes(j, Failed([job[j] EXCEPT !.inserted = job[j].inserted \o SubSeq(job[j].hand, 1, k),
                                                 !.hand = <<>>]))
        BY <3>2 DEF ImportFails
      <4>2. SubSeq(job[j].hand, 1, k) \in Seq(Id) /\ <<>> \in Seq(Id) /\ ToSet(SubSeq(job[j].hand, 1, k)) \in SUBSET Id
        BY <2>1, ImportFields, BatchType, EmptySeq
      <4>3. job[j].inserted \o SubSeq(job[j].hand, 1, k) \in Seq(Id)
        BY <2>1, <4>2, ImportFields, ConcatProperties
      <4>4. Store(job[j].to, ToSet(SubSeq(job[j].hand, 1, k))) /\ (NoEvent \/ Event)
        BY <4>1 DEF InsertFails
      <4> DEFINE inserted == job[j].inserted \o SubSeq(job[j].hand, 1, k)
      <4> HIDE DEF inserted
      <4>5. Failed([job[j] EXCEPT !.inserted = inserted, !.hand = <<>>]) \in ImportJob
        BY <2>1, <4>2, <4>3, EmptySeq DEF ImportJob, Failed, inserted
      <4> QED BY <4>1, <4>2, <4>4, <4>5 DEF inserted
    <3> QED BY <1>4, <3>1, <3>2
  <2>3. job[j].to \in Stored /\ UNCHANGED <<watermark, exported>>
    BY <1>4, <2>1, ImportFields DEF Insert, ImportFails
  <2> QED BY <1>2, <2>2, <2>3, StoreType
<1>5. CASE ImportEnds(j)
  <2>1. Becomes(j, Ended(j, ParserAnswer(job[j]))) /\ UNCHANGED <<data, watermark, events, watched>>
        /\ job[j].parser \in {"end", "failed"} /\ ParserAnswer(job[j]) \in {"none", "ok", "failed"}
    BY <1>5 DEF ImportEnds, ParserAnswer
  <2>2. Ended(j, ParserAnswer(job[j])) \in AnyJob /\ Ended(j, ParserAnswer(job[j])).at # "start"
    BY <2>1, EndedType DEF AnyJob
  <2> QED BY <1>0, <2>1, <2>2, TypeBecomes DEF NoEvent, watched
<1> QED BY <1>1, <1>3, <1>4, <1>5 DEF ImportStep

\* A copy's next document is one of its source.
LEMMA AheadType ==
    ASSUME TypeOK, NEW w \in Stored, NEW last, NEW D
    PROVE  /\ Ahead(w, last, D) \subseteq Id /\ Ahead(w, last, D) \subseteq Docs(w)
           /\ Ahead(w, last, D) # {} =>
                 /\ Min(Ahead(w, last, D)) \in Ahead(w, last, D)
                 /\ \A d \in Ahead(w, last, D) : Min(Ahead(w, last, D)) <= d
<1>1. Ahead(w, last, D) \subseteq Id /\ Ahead(w, last, D) \subseteq Docs(w)
  BY DocsType DEF Ahead
<1>2. Id \subseteq Nat
  BY TransfersAssumption DEF Id
<1> QED BY <1>1, <1>2, MinOf

\* A command that answers keeps the types.
LEMMA TypeEnds ==
    ASSUME TypeOK, NEW j \in Job, NEW answer \in {"ok", "failed"}, job[j].kind # "import",
           Becomes(j, Ended(j, answer)),
           data' \in [Stored -> (SUBSET Id) \cup {Missing}], passed' \in [Place -> SUBSET Id],
           UNCHANGED <<watermark, exported>>, NoEvent \/ Event
    PROVE  TypeOK'
<1>1. Ended(j, answer) \in AnyJob /\ Ended(j, answer).at # "start"
  BY EndedType DEF AnyJob
<1> QED BY <1>1, TypeBecomes

\* A step of a copy keeps the types.
LEMMA TypeCopy ==
    ASSUME TypeOK, NEW j \in Job,
           CopyHere(j) \/ StartDuplicate(j) \/ StartCopy(j) \/ CopyStep(j) \/ CopyFails(j)
    PROVE  TypeOK'
<1>0. /\ data \in [Stored -> (SUBSET Id) \cup {Missing}] /\ passed \in [Place -> SUBSET Id]
      /\ watermark \in [Place -> {0} \cup Id] /\ exported \in [Place -> SUBSET Id] /\ events \in Nat
  BY DEF TypeOK
<1>1. CASE CopyHere(j)
  <2>1. PICK p, q \in Place : Out(Where(p), Where(q), j, [Idle EXCEPT !.kind = "copy here", !.at = "end", !.answer = "ok"])
    BY <1>1 DEF CopyHere
  <2> DEFINE r == [Idle EXCEPT !.kind = "copy here", !.at = "end", !.answer = "ok"]
  <2>2. r \in BriefJob /\ r.at # "start"
    BY DEF BriefJob, Idle
  <2>3. r \in AnyJob /\ Where(p) \in Stored /\ Where(q) \in Stored
    BY <2>2, WhereType DEF AnyJob
  <2> HIDE DEF r
  <2>4. Out(Where(p), Where(q), j, r)
    BY <2>1 DEF r
  <2>5. /\ data' \in [Stored -> (SUBSET Id) \cup {Missing}] /\ passed' \in [Place -> SUBSET Id]
        /\ job' \in [Job -> AnyJob] /\ (\A k \in Job : job'[k].at = "start" => job'[k].kind = "idle")
    BY <2>2, <2>3, <2>4, OutType
  <2>6. UNCHANGED <<watermark, events, exported>>
    BY <1>1 DEF CopyHere
  <2> QED BY <1>0, <2>5, <2>6 DEF TypeOK, AnyJob
<1>2. CASE StartDuplicate(j)
  <2>1. PICK p, q \in Place :
           Becomes(j, [kind |-> "duplicate", at |-> "out", answer |-> "none", from |-> Where(p), to |-> Where(q)])
    BY <1>2 DEF StartDuplicate
  <2> DEFINE r == [kind |-> "duplicate", at |-> "out", answer |-> "none", from |-> Where(p), to |-> Where(q)]
  <2>2. r \in AnyJob /\ r.at # "start"
    BY WhereType DEF AnyJob, DuplicateJob
  <2> HIDE DEF r
  <2>3. Becomes(j, r) /\ UNCHANGED <<data, watermark, events, watched>>
    BY <1>2, <2>1 DEF StartDuplicate, r
  <2> QED BY <1>0, <2>2, <2>3, TypeBecomes DEF NoEvent, watched
<1>3. CASE Duplicate(j)
  <2>1. job[j] \in DuplicateJob /\ job[j].kind = "duplicate"
    BY <1>3, Kinds DEF Duplicate, Is
  <2>2. job[j].from \in Stored /\ job[j].to \in Stored
    BY <2>1 DEF DuplicateJob
  <2>3. Ended(j, "ok") \in AnyJob /\ Ended(j, "ok").at # "start"
    BY <2>1, EndedType DEF AnyJob
  <2>4. Out(job[j].from, job[j].to, j, Ended(j, "ok")) /\ UNCHANGED <<watermark, events, exported>>
    BY <1>3 DEF Duplicate
  <2>5. /\ data' \in [Stored -> (SUBSET Id) \cup {Missing}] /\ passed' \in [Place -> SUBSET Id]
        /\ job' \in [Job -> AnyJob] /\ (\A k \in Job : job'[k].at = "start" => job'[k].kind = "idle")
    BY <2>2, <2>3, <2>4, OutType
  <2> QED BY <1>0, <2>4, <2>5 DEF TypeOK, AnyJob
<1>4. CASE StartCopy(j)
  <2>1. PICK p, q \in Place :
           Becomes(j, [kind |-> "copy", at |-> "drop", answer |-> "none", from |-> Where(p), to |-> Where(q),
                       last |-> 0, batch |-> <<>>, copied |-> {}, present |-> Docs(Where(p))])
    BY <1>4 DEF StartCopy
  <2> DEFINE r == [kind |-> "copy", at |-> "drop", answer |-> "none", from |-> Where(p), to |-> Where(q),
                   last |-> 0, batch |-> <<>>, copied |-> {}, present |-> Docs(Where(p))]
  <2>2. Where(p) \in Stored /\ Where(q) \in Stored /\ Docs(Where(p)) \subseteq Id /\ <<>> \in Seq(Id)
    BY WhereType, DocsType, EmptySeq
  <2>3. r \in AnyJob /\ r.at # "start"
    BY <2>2 DEF AnyJob, CopyJob
  <2> HIDE DEF r
  <2>4. Becomes(j, r) /\ UNCHANGED <<data, watermark, events, watched>>
    BY <1>4, <2>1 DEF StartCopy, r
  <2> QED BY <1>0, <2>3, <2>4, TypeBecomes DEF NoEvent, watched
<1>5. CASE DropTarget(j)
  <2>1. job[j] \in CopyJob
    BY <1>5, Kinds DEF DropTarget, Is
  <2> DEFINE w == job[j].to
             G == Gone(w, Docs(w))
  <2>2. /\ G \in [Job -> AnyJob]
        /\ G[j] = IF job[j].kind \in {"copy", "export"} /\ job[j].at # "end" /\ Reads(job[j]) = w
                  THEN [job[j] EXCEPT !.present = @ \ Docs(w)] ELSE job[j]
        /\ \A k \in Job : G[k].at = job[k].at /\ G[k].kind = job[k].kind
    BY GoneIs
  <2>3. G[j] \in CopyJob
    BY <2>1, <2>2 DEF CopyJob
  <2> DEFINE r == [G[j] EXCEPT !.at = "read"]
  <2>4. r \in CopyJob /\ r.at = "read"
    BY <2>3 DEF CopyJob
  <2>5. job' = [G EXCEPT ![j] = r] /\ data' = [data EXCEPT ![w] = Missing]
        /\ UNCHANGED <<watermark, events, exported, passed>>
    BY <1>5 DEF DropTarget, watched
  <2> HIDE DEF G, r
  <2>6. job' \in [Job -> AnyJob] /\ (\A k \in Job : job'[k].at = "start" => job'[k].kind = "idle")
    BY <2>2, <2>4, <2>5 DEF AnyJob, TypeOK
  <2> QED BY <1>0, <2>5, <2>6 DEF TypeOK, AnyJob
<1>6. CASE ReadToCopy(j)
  <2>1. job[j] \in CopyJob /\ job[j].kind = "copy" /\ UNCHANGED <<data, watermark, events, watched>>
    BY <1>6, Kinds DEF ReadToCopy, Is
  <2> DEFINE ahead == Ahead(job[j].from, job[j].last, Id)
  <2>2. job[j].from \in Stored /\ job[j].batch \in Seq(Id)
    BY <2>1 DEF CopyJob
  <2>3. ahead # {} => Min(ahead) \in Id
    BY <2>2, AheadType
  <2>4. \/ ahead # {} /\ Becomes(j, [job[j] EXCEPT !.batch = Append(job[j].batch, Min(ahead)), !.last = Min(ahead)])
        \/ Becomes(j, Ended(j, "ok"))
    BY <1>6 DEF ReadToCopy
  <2> HIDE DEF ahead
  <2>5. CASE ahead # {} /\ Becomes(j, [job[j] EXCEPT !.batch = Append(job[j].batch, Min(ahead)), !.last = Min(ahead)])
    <3>1. Append(job[j].batch, Min(ahead)) \in Seq(Id) /\ Min(ahead) \in Nat
      BY <2>2, <2>3, <2>5, AppendProperties, TransfersAssumption DEF Id
    <3> DEFINE r == [job[j] EXCEPT !.batch = Append(job[j].batch, Min(ahead)), !.last = Min(ahead)]
    <3>2. r \in CopyJob
      BY <2>1, <3>1 DEF CopyJob
    <3>3. r \in AnyJob /\ r.at # "start"
      BY <3>2 DEF AnyJob, CopyJob
    <3> HIDE DEF r
    <3>4. Becomes(j, r)
      BY <2>5 DEF r
    <3> QED BY <1>0, <2>1, <3>3, <3>4, TypeBecomes DEF NoEvent, watched
  <2>6. CASE Becomes(j, Ended(j, "ok"))
    BY <1>0, <2>1, <2>6, TypeEnds DEF NoEvent, watched
  <2> QED BY <2>4, <2>5, <2>6
<1>7. CASE InsertCopy(j)
  <2>1. job[j] \in CopyJob /\ job[j].kind = "copy" /\ UNCHANGED <<watermark, exported>>
    BY <1>7, Kinds DEF InsertCopy, Is
  <2>2. job[j].to \in Stored /\ job[j].batch \in Seq(Id) /\ job[j].copied \in SUBSET Id
    BY <2>1 DEF CopyJob
  <2>3. \A k \in 0..Len(job[j].batch) :
           ToSet(SubSeq(job[j].batch, 1, k)) \in SUBSET Id /\ ToSet(job[j].batch) \in SUBSET Id
    BY <2>2, BatchType
  <2>4. ToSet(job[j].batch) \in SUBSET Id
    <3>1. 0 \in 0..Len(job[j].batch)
      BY <2>2, LenProperties
    <3> QED BY <2>3, <3>1
  <2>5. CASE /\ InsertMany(job[j].to, job[j].batch)
             /\ Becomes(j, [job[j] EXCEPT !.batch = <<>>, !.copied = job[j].copied \cup ToSet(job[j].batch)])
    <3> DEFINE r == [job[j] EXCEPT !.batch = <<>>, !.copied = job[j].copied \cup ToSet(job[j].batch)]
    <3>1. r \in CopyJob
      BY <2>1, <2>2, <2>4, EmptySeq DEF CopyJob
    <3>2. r \in AnyJob /\ r.at # "start"
      BY <3>1 DEF AnyJob, CopyJob
    <3> HIDE DEF r
    <3>3. Becomes(j, r) /\ Store(job[j].to, ToSet(job[j].batch)) /\ NoEvent
      BY <2>5 DEF r, InsertMany
    <3>4. data' \in [Stored -> (SUBSET Id) \cup {Missing}] /\ passed' \in [Place -> SUBSET Id]
      BY <2>2, <2>4, <3>3, StoreType
    <3> QED BY <2>1, <3>2, <3>3, <3>4, TypeBecomes
  <2>6. ASSUME NEW k \in 0..Len(job[j].batch), InsertFails(job[j].to, job[j].batch, k), Becomes(j, Ended(j, "failed"))
        PROVE  TypeOK'
    <3>1. Store(job[j].to, ToSet(SubSeq(job[j].batch, 1, k))) /\ (NoEvent \/ Event)
      BY <2>6 DEF InsertFails
    <3>2. data' \in [Stored -> (SUBSET Id) \cup {Missing}] /\ passed' \in [Place -> SUBSET Id]
      BY <2>2, <2>3, <3>1, StoreType
    <3> QED BY <2>1, <2>6, <3>1, <3>2, TypeEnds
  <2> QED BY <1>7, <2>5, <2>6 DEF InsertCopy
<1>8. CASE CopyFails(j)
  <2>1. job[j].kind # "import" /\ Becomes(j, Ended(j, "failed")) /\ UNCHANGED <<data, watermark, exported, passed>> /\ Event
    BY <1>8 DEF CopyFails, watched
  <2> QED BY <1>0, <2>1, TypeEnds
<1> QED BY <1>1, <1>2, <1>3, <1>4, <1>5, <1>6, <1>7, <1>8 DEF CopyStep

\* The types of an export's parts.
LEMMA ExportFields ==
    ASSUME TypeOK, NEW j \in Job, job[j].kind = "export", job[j].at # "end"
    PROVE  /\ job[j] \in ExportJob /\ job[j].from \in Place /\ Where(job[j].from) \in Stored
           /\ job[j].window \in SUBSET Id /\ job[j].rows \in SUBSET Id /\ job[j].left \in SUBSET Id
           /\ job[j].present \in SUBSET Id /\ job[j].boundary \in Id /\ job[j].last \in Nat
           /\ job[j].incremental \in BOOLEAN
BY Kinds, WhereType DEF ExportJob

\* A cursor that goes on: at its end, or at the least document ahead of it.
LEMMA ReadOnIs ==
    ASSUME TypeOK, NEW j \in Job, job[j].kind = "export", job[j].at \in {"headers", "rows"}, NEW at \in {"rows", "flush"}
    PROVE  LET r == job[j]
               ahead == Ahead(Where(r.from), r.last, r.window)
               m == Min(ahead)
           IN  /\ ReadOn(j, at) \in ExportJob
               /\ ReadOn(j, at).from = r.from /\ ReadOn(j, at).incremental = r.incremental
               /\ ReadOn(j, at).boundary = r.boundary /\ ReadOn(j, at).window = r.window
               /\ ReadOn(j, at).left = r.left /\ ReadOn(j, at).present = r.present
               /\ \/ ahead = {} /\ ReadOn(j, at).at = at /\ ReadOn(j, at).last = 0 /\ ReadOn(j, at).rows = r.rows
                  \/ /\ ahead # {} /\ m \in ahead /\ m \in Id /\ (\A d \in ahead : m <= d)
                     /\ ReadOn(j, at).at = r.at /\ ReadOn(j, at).last = m
                     /\ ReadOn(j, at).rows = (IF r.at = "rows" THEN r.rows \cup {m} ELSE r.rows)
<1> DEFINE r == job[j]
           ahead == Ahead(Where(r.from), r.last, r.window)
           m == Min(ahead)
<1>1. r \in ExportJob /\ Where(r.from) \in Stored /\ r.rows \in SUBSET Id
  BY ExportFields
<1>2. ahead # {} => m \in ahead /\ m \in Id /\ \A d \in ahead : m <= d
  BY <1>1, AheadType
<1>3. ReadOn(j, at) = IF ahead = {} THEN [r EXCEPT !.at = at, !.last = 0]
                      ELSE [r EXCEPT !.last = m, !.rows = IF r.at = "rows" THEN r.rows \cup {m} ELSE r.rows]
  BY <1>1 DEF ReadOn, ExportJob
<1> HIDE DEF r, ahead
<1>4. m \in Id => m \in Nat
  BY TransfersAssumption DEF Id
<1>5. CASE ahead = {}
  <2>1. ReadOn(j, at) = [r EXCEPT !.at = at, !.last = 0]
    BY <1>3, <1>5
  <2>2. ReadOn(j, at) \in ExportJob
    <3>1. at \in {"window", "headers", "rows", "flush", "mark"} /\ 0 \in Nat
      OBVIOUS
    <3>2. [r EXCEPT !.at = at, !.last = 0] \in ExportJob
      BY <1>1, <3>1 DEF ExportJob
    <3> QED BY <2>1, <3>2
  <2>3. /\ ReadOn(j, at).from = r.from /\ ReadOn(j, at).incremental = r.incremental
        /\ ReadOn(j, at).boundary = r.boundary /\ ReadOn(j, at).window = r.window
        /\ ReadOn(j, at).left = r.left /\ ReadOn(j, at).present = r.present
        /\ ReadOn(j, at).at = at /\ ReadOn(j, at).last = 0 /\ ReadOn(j, at).rows = r.rows
    BY <1>1, <2>1 DEF ExportJob
  <2> QED BY <1>5, <2>2, <2>3 DEF r, ahead
<1>6. CASE ahead # {}
  <2> DEFINE rows == IF r.at = "rows" THEN r.rows \cup {m} ELSE r.rows
  <2>1. ReadOn(j, at) = [r EXCEPT !.last = m, !.rows = rows]
    BY <1>3, <1>6
  <2>2. rows \in SUBSET Id /\ m \in Nat
    BY <1>1, <1>2, <1>4, <1>6
  <2> HIDE DEF rows
  <2>3. ReadOn(j, at) \in ExportJob
    BY <1>1, <2>1, <2>2 DEF ExportJob
  <2>4. /\ ReadOn(j, at).from = r.from /\ ReadOn(j, at).incremental = r.incremental
        /\ ReadOn(j, at).boundary = r.boundary /\ ReadOn(j, at).window = r.window
        /\ ReadOn(j, at).left = r.left /\ ReadOn(j, at).present = r.present
        /\ ReadOn(j, at).at = r.at /\ ReadOn(j, at).last = m /\ ReadOn(j, at).rows = rows
    BY <1>1, <2>1 DEF ExportJob
  <2> QED BY <1>2, <1>6, <2>3, <2>4 DEF r, ahead, rows
<1> QED BY <1>5, <1>6

\* The window of an export.
LEMMA FindWindowIs ==
    ASSUME TypeOK, NEW j \in Job, FindWindow(j)
    PROVE  LET r == job[j]
               n == job'[j]
           IN  /\ r.kind = "export" /\ r.at = "window" /\ Becomes(j, n) /\ n \in ExportJob
               /\ n.at \in {"headers", "rows"} /\ n.from = r.from /\ n.incremental = r.incremental
               /\ n.boundary = r.boundary /\ n.last = r.last /\ n.rows = r.rows
               /\ n.present = r.present \cap n.window
               /\ OneType /\ r.incremental =>
                     \A d \in Id : d > watermark[r.from] /\ d <= r.boundary => d \in n.window \cup n.left
<1> DEFINE r == job[j]
           due == IF r.incremental THEN Window(watermark[r.from], r.boundary) ELSE Id
           window == due \cap r.window
           n == [r EXCEPT !.at = First(r.format), !.window = window, !.left = due \ window,
                          !.present = r.present \cap window]
<1>1. Becomes(j, n) /\ r.kind = "export" /\ r.at = "window"
  BY DEF FindWindow, Is
<1>2. r \in ExportJob /\ r.present \in SUBSET Id
  BY <1>1, ExportFields
<1>3. due \in SUBSET Id
  BY DEF Window
<1>4. ASSUME OneType, r.incremental, NEW d \in Id, d > watermark[r.from], d <= r.boundary
      PROVE  d \in due
  <2>1. r.boundary \in Id /\ r.from \in Place
    BY <1>2 DEF ExportJob
  <2>2. watermark[r.from] # 0 => watermark[r.from] \in Id
    BY <2>1 DEF TypeOK
  <2>3. Type[d] = Type[r.boundary] /\ (watermark[r.from] # 0 => Type[d] = Type[watermark[r.from]])
    BY <1>4, <2>1, <2>2 DEF OneType
  <2> HIDE DEF r
  <2> QED BY <1>4, <2>3 DEF Window
<1>5. First(r.format) \in {"headers", "rows"}
  BY DEF First
<1>6. window \in SUBSET Id /\ due \ window \in SUBSET Id /\ r.present \cap window \in SUBSET Id
  BY <1>2, <1>3
<1>7. n \in ExportJob
  <2> HIDE DEF due, window, r
  <2> QED BY <1>2, <1>5, <1>6 DEF ExportJob
<1>8. /\ n.at \in {"headers", "rows"} /\ n.from = r.from /\ n.incremental = r.incremental
      /\ n.boundary = r.boundary /\ n.last = r.last /\ n.rows = r.rows
      /\ n.present = r.present \cap n.window /\ n.window = window /\ n.left = due \ window
  <2> HIDE DEF due, window, r
  <2> QED BY <1>2, <1>5 DEF ExportJob
<1>9. job'[j] = n
  BY <1>1 DEF Becomes, TypeOK
<1> QED
  <2> HIDE DEF due, window, n
  <2> QED BY <1>1, <1>4, <1>7, <1>8, <1>9

\* The start of an export: its boundary is the largest document there is.
LEMMA StartExportIs ==
    ASSUME TypeOK, NEW j \in Job, StartExport(j)
    PROVE  /\ job'[j] \in AnyJob /\ Becomes(j, job'[j]) /\ job[j] = Idle
           /\ \/ job'[j].kind = "export nothing" /\ job'[j].at = "end"
              \/ /\ job'[j].kind = "export" /\ job'[j].at = "window" /\ job'[j].from \in Place
                 /\ job'[j].present = Docs(Where(job'[j].from)) /\ job'[j].last = 0
<1>1. PICK p \in Place, format \in {"csv", "json"}, matching \in {Id, Id \ {1}}, incremental \in BOOLEAN :
         Becomes(j, IF incremental /\ Docs(Where(p)) = {}
                    THEN [Idle EXCEPT !.kind = "export nothing", !.at = "end", !.answer = "ok"]
                    ELSE [kind |-> "export", at |-> "window", answer |-> "none", from |-> p, format |-> format,
                          incremental |-> incremental,
                          boundary |-> IF incremental THEN Max(Docs(Where(p))) ELSE MaxId,
                          window |-> matching, left |-> {}, last |-> 0, rows |-> {},
                          present |-> Docs(Where(p))])
  BY DEF StartExport
<1> DEFINE docs == Docs(Where(p))
           boundary == IF incremental THEN Max(docs) ELSE MaxId
           n == [kind |-> "export", at |-> "window", answer |-> "none", from |-> p, format |-> format,
                 incremental |-> incremental, boundary |-> boundary,
                 window |-> matching, left |-> {}, last |-> 0, rows |-> {}, present |-> docs]
           e == [Idle EXCEPT !.kind = "export nothing", !.at = "end", !.answer = "ok"]
<1>2. job \in [Job -> AnyJob] /\ job[j] = Idle
  BY DEF TypeOK, AnyJob, StartExport
<1>3. CASE incremental /\ docs = {}
  <2>1. Becomes(j, e)
    BY <1>1, <1>3
  <2>2. job'[j] = e
    BY <1>2, <2>1 DEF Becomes
  <2>3. e \in BriefJob /\ e.kind = "export nothing" /\ e.at = "end"
    BY DEF BriefJob, Idle
  <2> QED BY <1>2, <2>1, <2>2, <2>3 DEF AnyJob
<1>4. CASE ~(incremental /\ docs = {})
  <2>1. Becomes(j, n)
    BY <1>1, <1>4
  <2>2. docs \in SUBSET Id /\ MaxId \in Id /\ Id \subseteq Nat
    BY WhereType, DocsType, TransfersAssumption DEF Id
  <2>3. boundary \in Id
    BY <1>4, <2>2, MaxOf
  <2> HIDE DEF boundary, docs
  <2>4. n \in ExportJob
    BY <2>2, <2>3 DEF ExportJob
  <2>5. job'[j] = n
    BY <1>2, <2>1 DEF Becomes
  <2> QED BY <1>2, <2>1, <2>4, <2>5 DEF AnyJob, docs
<1> QED BY <1>3, <1>4

\* A step of an export keeps the types.
LEMMA TypeExport ==
    ASSUME TypeOK, NEW j \in Job, StartExport(j) \/ ExportStep(j) \/ ExportFails(j)
    PROVE  TypeOK'
<1>0. /\ data \in [Stored -> (SUBSET Id) \cup {Missing}] /\ passed \in [Place -> SUBSET Id]
      /\ watermark \in [Place -> {0} \cup Id] /\ exported \in [Place -> SUBSET Id] /\ events \in Nat
  BY DEF TypeOK
<1>1. CASE StartExport(j)
  <2>1. job'[j] \in AnyJob /\ Becomes(j, job'[j]) /\ job'[j].at # "start"
    BY <1>1, StartExportIs
  <2>2. UNCHANGED <<data, watermark, events, watched>>
    BY <1>1 DEF StartExport
  <2> QED BY <1>0, <2>1, <2>2, TypeBecomes DEF NoEvent, watched
<1>2. CASE FindWindow(j)
  <2>1. job'[j] \in AnyJob /\ Becomes(j, job'[j]) /\ job'[j].at # "start"
    BY <1>2, FindWindowIs DEF AnyJob
  <2>2. UNCHANGED <<data, watermark, events, watched>>
    BY <1>2 DEF FindWindow
  <2> QED BY <1>0, <2>1, <2>2, TypeBecomes DEF NoEvent, watched
<1>3. CASE ReadHeaders(j) \/ ReadRows(j)
  <2>1. PICK at \in {"rows", "flush"} : /\ job[j].kind = "export" /\ job[j].at \in {"headers", "rows"}
                                        /\ Becomes(j, ReadOn(j, at))
    BY <1>3 DEF ReadHeaders, ReadRows, Is
  <2>2. ReadOn(j, at) \in AnyJob /\ ReadOn(j, at).at # "start"
    BY <2>1, ReadOnIs DEF AnyJob
  <2>3. UNCHANGED <<data, watermark, events, watched>>
    BY <1>3 DEF ReadHeaders, ReadRows
  <2> QED BY <1>0, <2>1, <2>2, <2>3, TypeBecomes DEF NoEvent, watched
<1>4. CASE FlushExport(j)
  <2>1. job[j].kind = "export" /\ job[j].at = "flush" /\ UNCHANGED <<data, watermark, events, passed>>
    BY <1>4 DEF FlushExport, Is
  <2>2. /\ job[j] \in ExportJob /\ job[j].from \in Place /\ job[j].rows \in SUBSET Id
        /\ exported[job[j].from] \in SUBSET Id
    BY <1>0, <2>1, ExportFields
  <2>3. exported' \in [Place -> SUBSET Id]
    <3> DEFINE all == IF job[j].incremental THEN exported[job[j].from] \cup job[j].rows ELSE exported[job[j].from]
    <3>1. all \in SUBSET Id
      BY <2>2
    <3>2. exported' = [exported EXCEPT ![job[j].from] = all]
      BY <1>4 DEF FlushExport
    <3> HIDE DEF all
    <3> QED BY <1>0, <3>1, <3>2
  <2> DEFINE r == IF job[j].incremental THEN [job[j] EXCEPT !.at = "mark"] ELSE Ended(j, "ok")
  <2>4. [job[j] EXCEPT !.at = "mark"] \in ExportJob /\ [job[j] EXCEPT !.at = "mark"].at = "mark"
    BY <2>2 DEF ExportJob
  <2>5. Ended(j, "ok") \in BriefJob /\ Ended(j, "ok").at = "end"
    BY <2>1, EndedType
  <2>6. r \in AnyJob /\ r.at # "start"
    BY <2>4, <2>5 DEF AnyJob
  <2>7. Becomes(j, r)
    BY <1>4 DEF FlushExport
  <2> HIDE DEF r
  <2>8. job' \in [Job -> AnyJob] /\ (\A k \in Job : job'[k].at = "start" => job'[k].kind = "idle")
    BY <2>6, <2>7, BecomesType
  <2> QED BY <1>0, <2>1, <2>3, <2>8 DEF TypeOK, AnyJob
<1>5. CASE SetWatermark(j)
  <2>1. job[j].kind = "export" /\ job[j].at = "mark" /\ UNCHANGED <<data, events, exported>>
    BY <1>5 DEF SetWatermark, Is
  <2>2. job[j].from \in Place /\ job[j].left \in SUBSET Id /\ job[j].boundary \in Id /\ passed[job[j].from] \in SUBSET Id
    BY <1>0, <2>1, ExportFields
  <2>3. watermark' \in [Place -> {0} \cup Id] /\ passed' \in [Place -> SUBSET Id]
    <3>1. /\ watermark' = [watermark EXCEPT ![job[j].from] = job[j].boundary]
          /\ passed' = [passed EXCEPT ![job[j].from] = passed[job[j].from] \cup job[j].left]
      BY <1>5 DEF SetWatermark
    <3>2. passed[job[j].from] \cup job[j].left \in SUBSET Id
      BY <2>2
    <3> QED BY <1>0, <2>2, <3>1, <3>2
  <2>4. Ended(j, "ok") \in AnyJob /\ Ended(j, "ok").at # "start" /\ Becomes(j, Ended(j, "ok"))
    BY <1>5, <2>1, EndedType DEF SetWatermark, AnyJob
  <2>5. job' \in [Job -> AnyJob] /\ (\A k \in Job : job'[k].at = "start" => job'[k].kind = "idle")
    BY <2>4, BecomesType
  <2> QED BY <1>0, <2>1, <2>3, <2>5 DEF TypeOK, AnyJob
<1>6. CASE ExportFails(j)
  <2>1. job[j].kind # "import" /\ Becomes(j, Ended(j, "failed")) /\ UNCHANGED <<data, watermark, exported, passed>> /\ Event
    BY <1>6 DEF ExportFails, watched
  <2> QED BY <1>0, <2>1, TypeEnds
<1> QED BY <1>1, <1>2, <1>3, <1>4, <1>5, <1>6 DEF ExportStep

\* The end of the app, and what other clients do, keep the types.
LEMMA TypeOthers == TypeOK /\ (Quit \/ Others) => TypeOK'
<1> SUFFICES ASSUME TypeOK, Quit \/ Others PROVE TypeOK'
  OBVIOUS
<1>0. /\ data \in [Stored -> (SUBSET Id) \cup {Missing}] /\ passed \in [Place -> SUBSET Id]
      /\ watermark \in [Place -> {0} \cup Id] /\ exported \in [Place -> SUBSET Id] /\ events \in Nat
      /\ job \in [Job -> AnyJob] /\ \A k \in Job : job[k].at = "start" => job[k].kind = "idle"
  BY DEF TypeOK, AnyJob
<1>1. events' \in Nat /\ UNCHANGED <<watermark, exported>>
  BY <1>0 DEF Quit, Others, Event, watched
<1>2. CASE Quit
  <2> DEFINE gone == [Idle EXCEPT !.kind = "gone", !.at = "end"]
  <2>1. gone \in AnyJob /\ gone.at = "end"
    BY DEF AnyJob, BriefJob, Idle
  <2>2. job' = [j \in Job |-> IF job[j].at = "end" THEN job[j] ELSE gone]
    BY <1>2 DEF Quit
  <2> HIDE DEF gone
  <2>3. job' \in [Job -> AnyJob] /\ \A k \in Job : job'[k].at = "start" => job'[k].kind = "idle"
    BY <1>0, <2>1, <2>2
  <2>4. UNCHANGED <<data, passed>>
    BY <1>2 DEF Quit, watched
  <2> QED BY <1>0, <1>1, <2>3, <2>4 DEF TypeOK, AnyJob
<1>3. CASE Others
  <2>1. PICK w \in Stored, d \in Id :
           \/ Store(w, {d}) /\ UNCHANGED job
           \/ /\ d \in Docs(w) /\ data' = [data EXCEPT ![w] = data[w] \ {d}]
              /\ job' = Gone(w, {d}) /\ UNCHANGED passed
    BY <1>3 DEF Others
  <2>2. CASE Store(w, {d}) /\ UNCHANGED job
    <3>1. data' \in [Stored -> (SUBSET Id) \cup {Missing}] /\ passed' \in [Place -> SUBSET Id]
      <4>1. {d} \in SUBSET Id
        OBVIOUS
      <4> QED BY <2>2, <4>1, StoreType
    <3> QED BY <1>0, <1>1, <2>2, <3>1 DEF TypeOK, AnyJob
  <2>3. CASE d \in Docs(w) /\ data' = [data EXCEPT ![w] = data[w] \ {d}] /\ job' = Gone(w, {d}) /\ UNCHANGED passed
    <3>1. data[w] \in SUBSET Id
      BY <1>0, <2>3 DEF Docs
    <3>2. data' \in [Stored -> (SUBSET Id) \cup {Missing}]
      BY <1>0, <2>3, <3>1
    <3>3. job' \in [Job -> AnyJob] /\ \A k \in Job : job'[k].at = "start" => job'[k].kind = "idle"
      BY <1>0, <2>3, GoneIs
    <3> QED BY <1>0, <1>1, <2>3, <3>2, <3>3 DEF TypeOK, AnyJob
  <2> QED BY <2>1, <2>2, <2>3
<1> QED BY <1>2, <1>3

\* Every step keeps the types.
LEMMA TypeStep == TypeOK /\ [Next]_vars => TypeOK'
<1>1. ASSUME TypeOK, UNCHANGED vars
      PROVE  TypeOK'
  BY <1>1 DEF vars, TypeOK
<1>2. ASSUME TypeOK, NEW j \in Job, Start(j) \/ Goes(j) \/ Fails(j)
      PROVE  TypeOK'
  BY <1>2, TypeImport, TypeCopy, TypeExport DEF Start, Goes, Fails
<1> QED BY <1>1, <1>2, TypeOthers DEF Next

\* A command, an import, a copy, an export, is always a whole record of its kind, its documents
\* documents of the model, and what is stored is a set of documents, or there is no collection.
THEOREM TypeCorrect == Spec => []TypeOK
BY TypeInit, TypeStep, PTL DEF Spec

-----------------------------------------------------------------------------
(* Nothing is skipped. *)

\* Whatever comes too late for an export of its collection is noted, and nothing noted is lost.
Arrives ==
    \A p \in Place :
        /\ exported[p] \subseteq exported'[p] /\ passed[p] \subseteq passed'[p]
        /\ \A d \in Docs(Where(p))' : d \notin Docs(Where(p)) /\ Behind(p, d) => d \in passed'[p]

\* Job k goes on as it was, but for what was deleted under it.
Alike(k) ==
    /\ job'[k].kind = job[k].kind /\ job'[k].at = job[k].at
    /\ job[k].kind = "export" /\ job[k].at # "end" =>
          /\ job'[k].from = job[k].from /\ job'[k].incremental = job[k].incremental
          /\ job'[k].boundary = job[k].boundary /\ job'[k].window = job[k].window
          /\ job'[k].left = job[k].left /\ job'[k].last = job[k].last /\ job'[k].rows = job[k].rows

\* A command that nothing happens to goes on as it was.
LEMMA SameAlike == \A k : job'[k] = job[k] => Alike(k)
BY DEF Alike

\* So does one that only had documents deleted under it.
LEMMA GoneAlike ==
    ASSUME TypeOK, NEW w, NEW D, NEW k \in Job, job'[k] = Gone(w, D)[k]
    PROVE  Alike(k)
<1>1. CASE job[k].kind \in {"copy", "export"} /\ job[k].at # "end" /\ Reads(job[k]) = w
  <2>1. job'[k] = [job[k] EXCEPT !.present = job[k].present \ D]
    BY <1>1, GoneIs
  <2>2. job[k] \in CopyJob \cup ExportJob
    BY <1>1, Kinds
  <2>3. CASE job[k] \in CopyJob
    BY <2>1, <2>3 DEF Alike, CopyJob
  <2>4. CASE job[k] \in ExportJob
    BY <2>1, <2>4 DEF Alike, ExportJob
  <2> QED BY <2>2, <2>3, <2>4
<1>2. CASE ~(job[k].kind \in {"copy", "export"} /\ job[k].at # "end" /\ Reads(job[k]) = w)
  <2>1. job'[k] = job[k]
    BY <1>2 DEF Gone
  <2> QED BY <2>1, SameAlike
<1> QED BY <1>1, <1>2

\* Nothing new comes late.
LEMMA ArrivesLess ==
    ASSUME \A w \in Stored : Docs(w)' \subseteq Docs(w),
           \A p \in Place : exported[p] \subseteq exported'[p] /\ passed[p] \subseteq passed'[p]
    PROVE  Arrives
BY WhereType DEF Arrives

\* Where nothing is written and no watermark is set, nothing comes too late.
LEMMA ArrivesSame == UNCHANGED <<data, exported, passed>> => Arrives
BY ArrivesLess DEF Docs

\* Documents that an insert brings too late are noted.
LEMMA ArrivesStore ==
    ASSUME TypeOK, NEW w \in Stored, NEW D \in SUBSET Id, Store(w, D), UNCHANGED exported
    PROVE  Arrives
<1> SUFFICES ASSUME NEW p \in Place
             PROVE  /\ exported[p] \subseteq exported'[p] /\ passed[p] \subseteq passed'[p]
                    /\ \A d \in Docs(Where(p))' : d \notin Docs(Where(p)) /\ Behind(p, d) => d \in passed'[p]
  BY DEF Arrives
<1>1. passed'[p] = IF Where(p) = w THEN passed[p] \cup {d \in D : Behind(p, d)} ELSE passed[p]
  BY DEF Store
<1>2. data' = [data EXCEPT ![w] = Docs(w) \cup D] /\ data \in [Stored -> (SUBSET Id) \cup {Missing}] /\ Where(p) \in Stored
  BY WhereType DEF Store, TypeOK
<1>3. CASE Where(p) = w
  <2>1. data'[w] = Docs(w) \cup D
    BY <1>2
  <2>2. Docs(w)' \subseteq Docs(w) \cup D
    BY <2>1 DEF Docs
  <2> QED BY <1>1, <1>3, <2>2
<1>4. CASE Where(p) # w
  <2>1. Docs(Where(p))' = Docs(Where(p))
    BY <1>2, <1>4 DEF Docs
  <2> QED BY <1>1, <1>4, <2>1
<1> QED BY <1>3, <1>4

\* And those that a $out brings too late.
LEMMA ArrivesOut ==
    ASSUME TypeOK, NEW from \in Stored, NEW to \in Stored, NEW j \in Job, NEW r, Out(from, to, j, r), UNCHANGED exported
    PROVE  Arrives
<1> SUFFICES ASSUME NEW p \in Place
             PROVE  /\ exported[p] \subseteq exported'[p] /\ passed[p] \subseteq passed'[p]
                    /\ \A d \in Docs(Where(p))' : d \notin Docs(Where(p)) /\ Behind(p, d) => d \in passed'[p]
  BY DEF Arrives
<1>1. passed'[p] = IF Where(p) = to THEN passed[p] \cup {d \in Docs(from) \ Docs(to) : Behind(p, d)} ELSE passed[p]
  BY DEF Out
<1>2. data' = [data EXCEPT ![to] = Docs(from)] /\ data \in [Stored -> (SUBSET Id) \cup {Missing}] /\ Where(p) \in Stored
  BY WhereType DEF Out, TypeOK
<1>3. CASE Where(p) = to
  <2>1. data'[to] = Docs(from)
    BY <1>2
  <2>2. Docs(to)' \subseteq Docs(from)
    BY <2>1 DEF Docs
  <2> QED BY <1>1, <1>3, <2>2
<1>4. CASE Where(p) # to
  <2>1. Docs(Where(p))' = Docs(Where(p))
    BY <1>2, <1>4 DEF Docs
  <2> QED BY <1>1, <1>4, <2>1
<1> QED BY <1>3, <1>4

\* Where the watermark stays, nothing is skipped.
LEMMA KeepsNothingSkipped ==
    ASSUME TypeOK, OneType, NothingSkipped, Arrives, NEW p \in Place, watermark'[p] = watermark[p]
    PROVE  \A d \in Docs(Where(p))' : d <= watermark'[p] => d \in exported'[p] \cup passed'[p]
<1> TAKE d \in Docs(Where(p))'
<1> HAVE d <= watermark'[p]
<1>1. CASE d \in Docs(Where(p))
  <2>1. d \in exported[p] \cup passed[p]
    BY <1>1 DEF NothingSkipped
  <2> QED BY <2>1 DEF Arrives
<1>2. CASE d \notin Docs(Where(p))
  <2>1. Behind(p, d)
    BY DEF Behind
  <2> QED BY <1>2, <2>1 DEF Arrives
<1> QED BY <1>1, <1>2

\* Nor does an export that goes on as it was leave anything out.
LEMMA KeepsCovers ==
    ASSUME TypeOK, Arrives, NEW k \in Job, Covers(job[k]), Alike(k)
    PROVE  Covers(job[k])'
<1> SUFFICES ASSUME OneType, job'[k].kind = "export", job'[k].at \notin {"window", "end"}, job'[k].incremental
             PROVE  /\ \A d \in Docs(Where(job[k].from))' : d <= job'[k].boundary =>
                          d \in exported'[job'[k].from] \cup passed'[job'[k].from] \cup job'[k].left \cup Due(job[k])'
                    /\ job'[k].at = "mark" => job'[k].rows \subseteq exported'[job'[k].from]
  BY DEF Covers
<1> DEFINE r == job[k]
<1>1. /\ r.kind = "export" /\ r.at \notin {"window", "end"} /\ r.incremental
      /\ job'[k].from = r.from /\ job'[k].boundary = r.boundary /\ job'[k].window = r.window
      /\ job'[k].left = r.left /\ job'[k].last = r.last /\ job'[k].rows = r.rows /\ job'[k].at = r.at
  BY DEF Alike
<1>2. Due(job[k])' = Due(r)
  BY <1>1 DEF Due
<1>3. PICK p \in Place : p = r.from
  BY <1>1, ExportFields
<1>4. /\ \A d \in Docs(Where(p)) : d <= r.boundary => d \in exported[p] \cup passed[p] \cup r.left \cup Due(r)
      /\ r.at = "mark" => r.rows \subseteq exported[p]
  BY <1>1, <1>3 DEF Covers
<1>5. exported[p] \subseteq exported'[p] /\ passed[p] \subseteq passed'[p]
  BY <1>3 DEF Arrives
<1>6. Docs(Where(job[k].from))' = Docs(Where(p))'
  BY <1>1, <1>3
<1>7. ASSUME NEW d \in Docs(Where(p))', d <= r.boundary
      PROVE  d \in exported'[p] \cup passed'[p] \cup r.left \cup Due(r)
  <2>1. CASE d \in Docs(Where(p))
    BY <1>4, <1>5, <1>7, <2>1
  <2>2. CASE d \notin Docs(Where(p))
    <3>1. Behind(p, d)
      BY <1>1, <1>3, <1>7 DEF Behind
    <3>2. d \in passed'[p]
      BY <1>3, <2>2, <3>1 DEF Arrives
    <3> QED BY <3>2
  <2> QED BY <2>1, <2>2
<1> HIDE DEF r
<1> QED BY <1>1, <1>2, <1>3, <1>4, <1>5, <1>6, <1>7

\* One job's step, by which no watermark moves.
LEMMA KeepsSkippedInv ==
    ASSUME TypeOK, SkippedInv, Arrives, UNCHANGED watermark, NEW j \in Job,
           \A k \in Job : k # j => Alike(k), InPlace(job[j])', Covers(job[j])'
    PROVE  SkippedInv'
<1>1. NothingSkipped'
  BY KeepsNothingSkipped DEF NothingSkipped, SkippedInv
<1>2. ASSUME NEW k \in Job
      PROVE  InPlace(job[k])' /\ Covers(job[k])'
  <2>1. CASE k # j
    <3>1. InPlace(job[k])'
      BY <2>1 DEF SkippedInv, InPlace, Alike
    <3> QED BY <2>1, <3>1, KeepsCovers DEF SkippedInv
  <2> QED BY <2>1
<1> QED BY <1>1, <1>2 DEF SkippedInv

\* Only an export in the middle of its work has something to cover.
LEMMA NothingToCover ==
    ASSUME NEW j \in Job, job'[j].kind # "export" \/ job'[j].at = "end"
    PROVE  InPlace(job[j])' /\ Covers(job[j])'
BY DEF InPlace, Covers

\* At the beginning nothing is behind a watermark, and nothing is being exported.
LEMMA SkippedInit == Init => SkippedInv
<1> SUFFICES ASSUME Init PROVE SkippedInv
  OBVIOUS
<1>1. \A p \in Place : \A d \in Docs(Where(p)) : ~(d <= watermark[p])
  <2> TAKE p \in Place
  <2> TAKE d \in Docs(Where(p))
  <2>1. d \in Id /\ watermark[p] = 0
    BY TypeInit, DocsType, WhereType DEF Init
  <2> QED BY <2>1, TransfersAssumption DEF Id
<1>2. \A j \in Job : job[j].kind = "idle"
  BY DEF Init, Idle
<1> QED BY <1>1, <1>2 DEF SkippedInv, NothingSkipped, InPlace, Covers

\* A job that becomes another record, the others as they were.
LEMMA BecomesIs ==
    ASSUME TypeOK, NEW j \in Job, NEW r, Becomes(j, r)
    PROVE  job'[j] = r /\ \A k \in Job : k # j => job'[k] = job[k] /\ Alike(k)
BY SameAlike DEF Becomes, TypeOK

\* An import stays one.
LEMMA ImportStays ==
    ASSUME TypeOK, NEW j \in Job, StartImport(j) \/ ImportStep(j) \/ ImportFails(j) \/ ParseFails(j)
    PROVE  job'[j].kind = "import" /\ \A k \in Job : k # j => job'[k] = job[k] /\ Alike(k)
<1> SUFFICES \E r : Becomes(j, r) /\ r.kind = "import"
  BY BecomesIs
<1>1. CASE StartImport(j)
  BY <1>1 DEF StartImport
<1>2. CASE Parse(j)
  <2>1. job[j].kind = "import" /\ job[j] \in ImportJob
    BY <1>2, ParseSteps DEF ImportJob
  <2> DEFINE batch == Append(job[j].batch, job[j].file[job[j].next])
             n == [job[j] EXCEPT !.next = job[j].next + 1, !.batch = batch,
                                 !.parser = IF Len(batch) >= BatchSize THEN "send" ELSE "parse"]
  <2>2. [job[j] EXCEPT !.parser = "end"].kind = "import" /\ [job[j] EXCEPT !.parser = "send"].kind = "import"
        /\ [job[j] EXCEPT !.parser = "failed", !.batch = <<>>].kind = "import"
    BY <2>1 DEF ImportJob
  <2>3. n.kind = "import"
    <3> HIDE DEF batch
    <3> QED BY <2>1 DEF ImportJob
  <2>4. \/ Becomes(j, [job[j] EXCEPT !.parser = "end"]) \/ Becomes(j, [job[j] EXCEPT !.parser = "send"])
        \/ Becomes(j, [job[j] EXCEPT !.parser = "failed", !.batch = <<>>]) \/ Becomes(j, n)
    BY <1>2, ParseSteps
  <2> HIDE DEF n
  <2> QED BY <2>2, <2>3, <2>4
<1>3. CASE Send(j) \/ Receive(j) \/ ParseFails(j)
  <2>1. job[j].kind = "import" /\ job[j] \in ImportJob
    BY <1>3, Kinds DEF Send, Receive, ParseFails, Parser, Is
  <2>2. CASE Send(j)
    <3>1. \/ Becomes(j, [job[j] EXCEPT !.channel = Append(job[j].channel, job[j].batch), !.batch = <<>>, !.parser = "parse"])
          \/ Becomes(j, [job[j] EXCEPT !.batch = <<>>, !.parser = "failed"])
      BY <2>2 DEF Send
    <3>2. /\ [job[j] EXCEPT !.channel = Append(job[j].channel, job[j].batch), !.batch = <<>>,
                            !.parser = "parse"].kind = "import"
          /\ [job[j] EXCEPT !.batch = <<>>, !.parser = "failed"].kind = "import"
      BY <2>1 DEF ImportJob
    <3> QED BY <3>1, <3>2
  <2>3. CASE Receive(j)
    <3>1. Becomes(j, [job[j] EXCEPT !.hand = Head(job[j].channel), !.channel = Tail(job[j].channel)])
      BY <2>3 DEF Receive
    <3>2. [job[j] EXCEPT !.hand = Head(job[j].channel), !.channel = Tail(job[j].channel)].kind = "import"
      BY <2>1 DEF ImportJob
    <3> QED BY <3>1, <3>2
  <2>4. CASE ParseFails(j)
    <3>1. Becomes(j, [job[j] EXCEPT !.parser = "failed", !.batch = <<>>])
      BY <2>4 DEF ParseFails
    <3>2. [job[j] EXCEPT !.parser = "failed", !.batch = <<>>].kind = "import"
      BY <2>1 DEF ImportJob
    <3> QED BY <3>1, <3>2
  <2> QED BY <1>3, <2>2, <2>3, <2>4
<1>4. CASE Insert(j)
  <2>1. job[j].kind = "import" /\ job[j] \in ImportJob
    BY <1>4, Kinds DEF Insert, Is
  <2>2. Becomes(j, [job[j] EXCEPT !.inserted = job[j].inserted \o job[j].hand, !.hand = <<>>])
    BY <1>4 DEF Insert
  <2>3. [job[j] EXCEPT !.inserted = job[j].inserted \o job[j].hand, !.hand = <<>>].kind = "import"
    BY <2>1 DEF ImportJob
  <2> QED BY <2>2, <2>3
<1>5. CASE ImportFails(j)
  <2>1. job[j].kind = "import" /\ job[j] \in ImportJob
    BY <1>5, Kinds DEF ImportFails, Is
  <2>2. PICK k \in 0..Len(job[j].hand) :
           Becomes(j, Failed([job[j] EXCEPT !.inserted = job[j].inserted \o SubSeq(job[j].hand, 1, k), !.hand = <<>>]))
    BY <1>5 DEF ImportFails
  <2> DEFINE all == job[j].inserted \o SubSeq(job[j].hand, 1, k)
  <2>3. Becomes(j, Failed([job[j] EXCEPT !.inserted = all, !.hand = <<>>]))
    BY <2>2
  <2> HIDE DEF all
  <2>4. Failed([job[j] EXCEPT !.inserted = all, !.hand = <<>>]).kind = "import"
    BY <2>1 DEF ImportJob, Failed
  <2> QED BY <2>3, <2>4
<1>6. CASE ImportEnds(j)
  <2>1. Becomes(j, Ended(j, ParserAnswer(job[j]))) /\ job[j].kind = "import"
    BY <1>6 DEF ImportEnds, Is
  <2>2. Ended(j, ParserAnswer(job[j])).kind = "import"
    BY <2>1 DEF Ended
  <2> QED BY <2>1, <2>2
<1> QED BY <1>1, <1>2, <1>3, <1>4, <1>5, <1>6 DEF ImportStep

\* What an import stores is noted where it comes too late.
LEMMA ImportArrives ==
    ASSUME TypeOK, NEW j \in Job, StartImport(j) \/ ImportStep(j) \/ ImportFails(j) \/ ParseFails(j)
    PROVE  Arrives /\ UNCHANGED watermark
<1>1. CASE StartImport(j) \/ Parse(j) \/ Send(j) \/ Receive(j) \/ ImportEnds(j) \/ ParseFails(j)
  BY <1>1, ArrivesSame DEF StartImport, Parse, Send, Receive, ImportEnds, ParseFails, watched
<1>2. CASE Insert(j) \/ ImportFails(j)
  <2>1. job[j] \in ImportJob /\ UNCHANGED <<watermark, exported>>
    BY <1>2, Kinds DEF Insert, ImportFails, Is
  <2>2. job[j].hand \in Seq(Id) /\ job[j].to \in Stored /\ Len(job[j].hand) \in 0..Len(job[j].hand)
    BY <2>1, ImportFields, LenProperties
  <2>3. \E D \in SUBSET Id : Store(job[j].to, D)
    BY <1>2, <2>2, BatchType DEF Insert, ImportFails, InsertMany, InsertFails
  <2> QED BY <2>1, <2>2, <2>3, ArrivesStore
<1> QED BY <1>1, <1>2 DEF ImportStep

\* No step but of an export's watermark can skip anything.
LEMMA SkippedImport ==
    ASSUME TypeOK, SkippedInv, NEW j \in Job, StartImport(j) \/ ImportStep(j) \/ ImportFails(j) \/ ParseFails(j)
    PROVE  SkippedInv'
<1>1. InPlace(job[j])' /\ Covers(job[j])'
  BY ImportStays, NothingToCover
<1> QED BY <1>1, ImportStays, ImportArrives, KeepsSkippedInv

\* A copy's steps: what it becomes, and what it stores.
LEMMA CopyStays ==
    ASSUME TypeOK, NEW j \in Job, CopyHere(j) \/ StartDuplicate(j) \/ StartCopy(j) \/ CopyStep(j) \/ CopyFails(j)
    PROVE  job'[j].kind # "export" /\ \A k \in Job : k # j => Alike(k)
<1>1. ASSUME NEW r, r.kind # "export", Becomes(j, r)
      PROVE  job'[j].kind # "export" /\ \A k \in Job : k # j => Alike(k)
  BY <1>1, BecomesIs
<1>2. ASSUME NEW from, NEW to, NEW r, r.kind # "export", Out(from, to, j, r)
      PROVE  job'[j].kind # "export" /\ \A k \in Job : k # j => Alike(k)
  <2> DEFINE D == Docs(to) \ Docs(from)
  <2>1. job' = [Gone(to, D) EXCEPT ![j] = r]
    BY <1>2 DEF Out
  <2> HIDE DEF D
  <2>2. Gone(to, D) \in [Job -> AnyJob]
    BY GoneIs
  <2>3. job'[j] = r /\ \A k \in Job : k # j => job'[k] = Gone(to, D)[k]
    BY <2>1, <2>2
  <2> QED BY <1>2, <2>3, GoneAlike
<1>3. CASE CopyHere(j)
  <2>1. [Idle EXCEPT !.kind = "copy here", !.at = "end", !.answer = "ok"].kind # "export"
    BY DEF Idle
  <2> QED BY <1>2, <1>3, <2>1 DEF CopyHere
<1>4. CASE StartDuplicate(j)
  <2>1. \E r : r.kind = "duplicate" /\ Becomes(j, r)
    BY <1>4 DEF StartDuplicate
  <2> QED BY <1>1, <2>1
<1>5. CASE StartCopy(j)
  <2>1. \E r : r.kind = "copy" /\ Becomes(j, r)
    BY <1>5 DEF StartCopy
  <2> QED BY <1>1, <2>1
<1>6. ASSUME job[j].kind # "export", NEW answer
      PROVE  Ended(j, answer).kind # "export"
  BY <1>6 DEF Ended
<1>7. CASE Duplicate(j)
  BY <1>2, <1>6, <1>7 DEF Duplicate, Is
<1>8. CASE DropTarget(j)
  <2> DEFINE w == job[j].to
             D == Docs(w)
  <2>1. job' = [Gone(w, D) EXCEPT ![j].at = "read"] /\ job[j].kind = "copy" /\ job[j].at = "drop"
    BY <1>8 DEF DropTarget, Is
  <2> HIDE DEF w, D
  <2>2. Gone(w, D) \in [Job -> AnyJob] /\ Gone(w, D)[j].kind = "copy"
    BY <2>1, GoneIs
  <2>3. job'[j] = [Gone(w, D)[j] EXCEPT !.at = "read"] /\ \A k \in Job : k # j => job'[k] = Gone(w, D)[k]
    BY <2>1, <2>2
  <2>4. Gone(w, D)[j] \in CopyJob
    <3>1. job[j] \in CopyJob
      BY <2>1, Kinds
    <3>2. [job[j] EXCEPT !.present = job[j].present \ D] \in CopyJob
      BY <3>1 DEF CopyJob
    <3> QED BY <3>1, <3>2 DEF Gone
  <2>5. job'[j].kind = "copy"
    BY <2>2, <2>3, <2>4 DEF CopyJob
  <2> QED BY <2>3, <2>5, GoneAlike
<1>9. CASE ReadToCopy(j) \/ InsertCopy(j)
  <2>1. job[j] \in CopyJob /\ job[j].kind = "copy"
    BY <1>9, Kinds DEF ReadToCopy, InsertCopy, Is
  <2>2. ASSUME NEW batch, NEW last
        PROVE  [job[j] EXCEPT !.batch = batch, !.last = last].kind # "export"
    BY <2>1 DEF CopyJob
  <2>3. ASSUME NEW batch, NEW copied
        PROVE  [job[j] EXCEPT !.batch = batch, !.copied = copied].kind # "export"
    BY <2>1 DEF CopyJob
  <2>4. CASE ReadToCopy(j)
    <3>1. \/ \E batch, last : Becomes(j, [job[j] EXCEPT !.batch = batch, !.last = last])
          \/ Becomes(j, Ended(j, "ok"))
      BY <2>4 DEF ReadToCopy
    <3> QED BY <1>1, <1>6, <2>1, <2>2, <3>1
  <2>5. CASE InsertCopy(j)
    <3>1. \/ \E batch, copied : Becomes(j, [job[j] EXCEPT !.batch = batch, !.copied = copied])
          \/ Becomes(j, Ended(j, "failed"))
      BY <2>5 DEF InsertCopy
    <3> QED BY <1>1, <1>6, <2>1, <2>3, <3>1
  <2> QED BY <1>9, <2>4, <2>5
<1>10. CASE CopyFails(j)
  BY <1>1, <1>6, <1>10 DEF CopyFails
<1> QED BY <1>3, <1>4, <1>5, <1>7, <1>8, <1>9, <1>10 DEF CopyStep

\* Whatever a copy brings too late is noted, at every step of it.
LEMMA CopyArrives ==
    ASSUME TypeOK, NEW j \in Job, CopyHere(j) \/ StartDuplicate(j) \/ StartCopy(j) \/ CopyStep(j) \/ CopyFails(j)
    PROVE  Arrives /\ UNCHANGED watermark
<1>1. CASE StartDuplicate(j) \/ StartCopy(j) \/ ReadToCopy(j) \/ CopyFails(j)
  BY <1>1, ArrivesSame DEF StartDuplicate, StartCopy, ReadToCopy, CopyFails, watched
<1>2. CASE CopyHere(j)
  BY <1>2, ArrivesOut, WhereType DEF CopyHere
<1>3. CASE Duplicate(j)
  <2>1. job[j] \in DuplicateJob
    BY <1>3, Kinds DEF Duplicate, Is
  <2>2. job[j].from \in Stored /\ job[j].to \in Stored
    BY <2>1 DEF DuplicateJob
  <2> QED BY <1>3, <2>2, ArrivesOut DEF Duplicate
<1>4. CASE DropTarget(j)
  <2>1. data' = [data EXCEPT ![job[j].to] = Missing] /\ UNCHANGED <<watermark, exported, passed>>
    BY <1>4 DEF DropTarget, watched
  <2>2. ASSUME NEW w \in Stored
        PROVE  Docs(w)' \subseteq Docs(w)
    <3>1. data'[w] = data[w] \/ data'[w] = Missing
      BY <2>1 DEF TypeOK
    <3> QED BY <3>1 DEF Docs
  <2> QED BY <2>1, <2>2, ArrivesLess
<1>5. CASE InsertCopy(j)
  <2>1. job[j] \in CopyJob /\ UNCHANGED <<watermark, exported>>
    BY <1>5, Kinds DEF InsertCopy, Is
  <2>2. job[j].to \in Stored /\ job[j].batch \in Seq(Id)
    BY <2>1 DEF CopyJob
  <2>3. Len(job[j].batch) \in 0..Len(job[j].batch)
    BY <2>2, LenProperties
  <2>4. \E D \in SUBSET Id : Store(job[j].to, D)
    BY <1>5, <2>2, <2>3, BatchType DEF InsertCopy, InsertMany, InsertFails
  <2> QED BY <2>1, <2>2, <2>4, ArrivesStore
<1> QED BY <1>1, <1>2, <1>3, <1>4, <1>5 DEF CopyStep

\* No step of a copy makes an export skip anything.
LEMMA SkippedCopy ==
    ASSUME TypeOK, SkippedInv, NEW j \in Job,
           CopyHere(j) \/ StartDuplicate(j) \/ StartCopy(j) \/ CopyStep(j) \/ CopyFails(j)
    PROVE  SkippedInv'
<1>1. InPlace(job[j])' /\ Covers(job[j])'
  BY CopyStays, NothingToCover
<1> QED BY <1>1, CopyStays, CopyArrives, KeepsSkippedInv

\* The window of an export is all due at its beginning.
LEMMA WindowDue ==
    ASSUME TypeOK, SkippedInv, NEW j \in Job, FindWindow(j)
    PROVE  job'[j].window \subseteq Due(job'[j])
<1> DEFINE n == job'[j]
<1>1. /\ n \in ExportJob /\ n.at \in {"headers", "rows"} /\ n.last = job[j].last
      /\ job[j].kind = "export" /\ job[j].at = "window"
  BY FindWindowIs
<1>2. n.last = 0
  BY <1>1 DEF SkippedInv, InPlace
<1>3. \A d \in n.window : d > n.last
  BY <1>1, <1>2, TransfersAssumption DEF ExportJob, Id
<1> QED BY <1>1, <1>3 DEF Due

\* The window of an export covers all that is not behind the watermark, and that is covered already.
LEMMA CoversWindow ==
    ASSUME TypeOK, SkippedInv, NEW j \in Job, FindWindow(j)
    PROVE  Covers(job[j])'
<1> SUFFICES ASSUME OneType, job'[j].incremental
             PROVE  /\ \A d \in Docs(Where(job[j].from))' : d <= job'[j].boundary =>
                          d \in exported'[job'[j].from] \cup passed'[job'[j].from] \cup job'[j].left \cup Due(job[j])'
                    /\ job'[j].at # "mark"
  BY DEF Covers
<1> DEFINE n == job'[j]
<1>1. /\ job[j].kind = "export" /\ job[j].at = "window" /\ job[j].incremental /\ n \in ExportJob
      /\ n.at \in {"headers", "rows"} /\ n.from = job[j].from /\ n.boundary = job[j].boundary /\ n.last = job[j].last
      /\ \A d \in Id : d > watermark[job[j].from] /\ d <= job[j].boundary => d \in n.window \cup n.left
  BY FindWindowIs
<1>2. PICK p \in Place : p = job[j].from
  BY <1>1, ExportFields
<1>3. UNCHANGED <<data, exported, passed>> /\ watermark[p] \in Nat
  <2>1. watermark[p] \in {0} \cup Id
    BY <1>2 DEF TypeOK
  <2> QED BY <2>1, TransfersAssumption DEF FindWindow, watched, Id
<1>4. Docs(Where(job[j].from))' = Docs(Where(p)) /\ Docs(Where(p)) \subseteq Id
  BY <1>1, <1>2, <1>3, WhereType, DocsType DEF Docs
<1>5. n.window \subseteq Due(n)
  BY WindowDue
<1>6. Due(job[j])' = Due(n)
  BY DEF Due
<1>7. ASSUME NEW d \in Docs(Where(p)), d <= n.boundary
      PROVE  d \in exported[p] \cup passed[p] \cup n.left \cup Due(n)
  <2>1. CASE d <= watermark[p]
    BY <2>1 DEF SkippedInv, NothingSkipped
  <2>2. CASE d > watermark[p]
    BY <1>1, <1>2, <1>4, <1>5, <1>7, <2>2
  <2>3. d \in Nat
    BY <1>4, TransfersAssumption DEF Id
  <2> QED BY <1>3, <2>1, <2>2, <2>3
<1> HIDE DEF n
<1> QED BY <1>1, <1>2, <1>3, <1>4, <1>6, <1>7 DEF n

\* A cursor passes over no document that is there.
LEMMA ReadDue ==
    ASSUME TypeOK, NEW j \in Job, ReadHeaders(j) \/ ReadRows(j)
    PROVE  LET r == job[j]
               n == job'[j]
           IN  /\ r.kind = "export" /\ r.at \in {"headers", "rows"} /\ Becomes(j, n) /\ n \in ExportJob
               /\ n.at \in {"headers", "rows", "flush"} /\ n.from = r.from /\ n.incremental = r.incremental
               /\ n.boundary = r.boundary /\ n.left = r.left /\ n.present = r.present
               /\ Docs(Where(r.from)) \cap Due(r) \subseteq Due(n)
<1> DEFINE r == job[j]
           ahead == Ahead(Where(r.from), r.last, r.window)
<1>1. PICK at \in {"rows", "flush"} : /\ r.kind = "export" /\ Becomes(j, ReadOn(j, at))
                                      /\ r.at = IF at = "rows" THEN "headers" ELSE "rows"
  BY DEF ReadHeaders, ReadRows, Is
<1> DEFINE n == ReadOn(j, at)
<1>2. job'[j] = n /\ r.kind = "export" /\ r.at \in {"headers", "rows"}
  BY <1>1, BecomesIs
<1>3. /\ n \in ExportJob /\ n.from = r.from /\ n.incremental = r.incremental
      /\ n.boundary = r.boundary /\ n.window = r.window /\ n.left = r.left /\ n.present = r.present
      /\ \/ ahead = {} /\ n.at = at /\ n.last = 0 /\ n.rows = r.rows
         \/ /\ ahead # {} /\ Min(ahead) \in ahead /\ Min(ahead) \in Id /\ (\A d \in ahead : Min(ahead) <= d)
            /\ n.at = r.at /\ n.last = Min(ahead)
            /\ n.rows = (IF r.at = "rows" THEN r.rows \cup {Min(ahead)} ELSE r.rows)
  BY <1>2, ReadOnIs
<1>4. /\ r.window \subseteq Id /\ Id \subseteq Nat /\ 0 \notin Id /\ r.last \in Nat
  BY <1>1, ExportFields, TransfersAssumption DEF Id
<1>5. \A d \in Docs(Where(r.from)) \cap r.window : d > r.last => d \in ahead
  BY <1>4 DEF Ahead
<1>6. ASSUME NEW d \in Docs(Where(r.from)), d \in Due(r)
      PROVE  d \in Due(n)
  <2> HIDE DEF ahead, r, n
  <2>1. CASE at = "rows"
    <3>1. r.at = "headers" /\ d \in r.window /\ d > 0
      BY <1>1, <1>4, <1>6, <2>1 DEF Due
    <3>2. CASE n.at = "headers"
      BY <1>3, <3>1, <3>2 DEF Due
    <3>3. CASE n.at = "rows" /\ n.last = 0
      BY <1>3, <3>1, <3>3 DEF Due
    <3> QED BY <1>3, <2>1, <3>1, <3>2, <3>3
  <2>2. CASE at = "flush"
    <3>1. r.at = "rows" /\ (d \in r.rows \/ (d \in r.window /\ d > r.last))
      BY <1>1, <1>6, <2>2 DEF Due
    <3>2. CASE ahead = {}
      <4>1. d \in r.rows
        BY <1>5, <3>1, <3>2
      <4> QED BY <1>3, <2>2, <3>2, <4>1 DEF Due
    <3>3. CASE ahead # {}
      <4>1. /\ n.at = "rows" /\ n.last = Min(ahead) /\ n.rows = r.rows \cup {Min(ahead)}
            /\ Min(ahead) \in Nat /\ \A e \in ahead : Min(ahead) <= e
        BY <1>3, <1>4, <3>1, <3>3
      <4>2. CASE d \in r.rows
        BY <4>1, <4>2 DEF Due
      <4>3. CASE d \in r.window /\ d > r.last
        <5>1. Min(ahead) <= d /\ d \in Nat
          BY <1>4, <1>5, <4>1, <4>3
        <5>2. d = Min(ahead) \/ d > Min(ahead)
          BY <4>1, <5>1
        <5> QED BY <1>3, <4>1, <4>3, <5>2 DEF Due
      <4> QED BY <3>1, <4>2, <4>3
    <3> QED BY <3>2, <3>3
  <2> QED BY <2>1, <2>2
<1>7. n.at \in {"headers", "rows", "flush"} /\ r.at \in {"headers", "rows"}
  BY <1>1, <1>3
<1> HIDE DEF ahead
<1> QED BY <1>1, <1>2, <1>3, <1>6, <1>7

\* So an export that reads on still covers what it did.
LEMMA CoversReading ==
    ASSUME TypeOK, SkippedInv, NEW j \in Job, ReadHeaders(j) \/ ReadRows(j)
    PROVE  Covers(job[j])'
<1> DEFINE r == job[j]
           n == job'[j]
<1>1. /\ r.kind = "export" /\ r.at \in {"headers", "rows"} /\ n \in ExportJob
      /\ n.at \in {"headers", "rows", "flush"} /\ n.from = r.from /\ n.incremental = r.incremental
      /\ n.boundary = r.boundary /\ n.left = r.left
      /\ Docs(Where(r.from)) \cap Due(r) \subseteq Due(n)
  BY ReadDue
<1>2. UNCHANGED <<data, exported, passed>>
  BY DEF ReadHeaders, ReadRows, watched
<1>3. Docs(Where(job[j].from))' = Docs(Where(r.from)) /\ Due(job[j])' = Due(n)
  BY <1>1, <1>2 DEF Docs, Due
<1>4. OneType /\ r.incremental => \A d \in Docs(Where(r.from)) : d <= r.boundary =>
         d \in exported[r.from] \cup passed[r.from] \cup r.left \cup Due(r)
  BY <1>1 DEF SkippedInv, Covers
<1>5. OneType /\ n.incremental => \A d \in Docs(Where(r.from)) : d <= n.boundary =>
         d \in exported[n.from] \cup passed[n.from] \cup n.left \cup Due(n)
  BY <1>1, <1>4
<1> HIDE DEF r
<1> QED BY <1>1, <1>2, <1>3, <1>5 DEF Covers

\* No step of an export skips anything.
LEMMA SkippedExport ==
    ASSUME TypeOK, SkippedInv, NEW j \in Job, StartExport(j) \/ ExportStep(j) \/ ExportFails(j)
    PROVE  SkippedInv'
<1>1. ASSUME Becomes(j, job'[j]), Arrives, UNCHANGED watermark, InPlace(job[j])', Covers(job[j])'
      PROVE  SkippedInv'
  BY <1>1, BecomesIs, KeepsSkippedInv
<1>2. ASSUME NEW answer, Becomes(j, Ended(j, answer))
      PROVE  Becomes(j, job'[j]) /\ InPlace(job[j])' /\ Covers(job[j])' /\ job'[j].at = "end"
  <2>1. job'[j] = Ended(j, answer) /\ Ended(j, answer).at = "end"
    BY <1>2, BecomesIs DEF Ended
  <2> QED BY <1>2, <2>1, NothingToCover
<1>3. CASE StartExport(j)
  <2>1. Becomes(j, job'[j]) /\ InPlace(job[j])' /\ Covers(job[j])'
    BY <1>3, StartExportIs DEF InPlace, Covers
  <2>2. UNCHANGED <<data, watermark, exported, passed>>
    BY <1>3 DEF StartExport, watched
  <2> QED BY <1>1, <2>1, <2>2, ArrivesSame
<1>4. CASE FindWindow(j)
  <2>1. Becomes(j, job'[j]) /\ InPlace(job[j])'
    BY <1>4, FindWindowIs DEF InPlace
  <2>2. UNCHANGED <<data, watermark, exported, passed>>
    BY <1>4 DEF FindWindow, watched
  <2> QED BY <1>1, <1>4, <2>1, <2>2, ArrivesSame, CoversWindow
<1>5. CASE ReadHeaders(j) \/ ReadRows(j)
  <2>1. Becomes(j, job'[j]) /\ InPlace(job[j])'
    BY <1>5, ReadDue DEF InPlace
  <2>2. UNCHANGED <<data, watermark, exported, passed>>
    BY <1>5 DEF ReadHeaders, ReadRows, watched
  <2> QED BY <1>1, <1>5, <2>1, <2>2, ArrivesSame, CoversReading
<1>6. CASE ExportFails(j)
  <2>1. Becomes(j, Ended(j, "failed")) /\ UNCHANGED <<data, watermark, exported, passed>>
    BY <1>6 DEF ExportFails, watched
  <2> QED BY <1>1, <1>2, <2>1, ArrivesSame
<1>7. CASE FlushExport(j)
  <2> DEFINE r == job[j]
             all == IF r.incremental THEN exported[r.from] \cup r.rows ELSE exported[r.from]
  <2>1. /\ r.kind = "export" /\ r.at = "flush" /\ UNCHANGED <<data, watermark, passed>>
        /\ exported' = [exported EXCEPT ![r.from] = all]
        /\ Becomes(j, IF r.incremental THEN [r EXCEPT !.at = "mark"] ELSE Ended(j, "ok"))
    BY <1>7 DEF FlushExport, Is
  <2>2. r \in ExportJob /\ r.from \in Place
    BY <2>1, ExportFields
  <2>3. \A p \in Place : exported[p] \subseteq exported'[p]
    BY <2>1, <2>2 DEF TypeOK
  <2>4. Arrives
    <3>1. \A w \in Stored : Docs(w)' \subseteq Docs(w)
      BY <2>1 DEF Docs
    <3> QED BY <2>1, <2>3, <3>1, ArrivesLess
  <2>5. CASE ~r.incremental
    <3>1. Becomes(j, Ended(j, "ok"))
      BY <2>1, <2>5
    <3> QED BY <1>1, <1>2, <2>1, <2>4, <3>1
  <2>6. CASE r.incremental
    <3> DEFINE n == [r EXCEPT !.at = "mark"]
    <3>1. Becomes(j, n)
      BY <2>1, <2>6
    <3>2. job'[j] = n
      BY <3>1, BecomesIs
    <3>3. /\ n.kind = "export" /\ n.at = "mark" /\ n.from = r.from /\ n.boundary = r.boundary /\ n.incremental
          /\ n.left = r.left /\ n.rows = r.rows
      BY <2>2, <2>6 DEF ExportJob
    <3>4. OneType => \A d \in Docs(Where(r.from)) : d <= r.boundary =>
             d \in exported[r.from] \cup passed[r.from] \cup r.left \cup r.rows
      BY <2>1, <2>6 DEF SkippedInv, Covers, Due
    <3>5. exported'[r.from] = exported[r.from] \cup r.rows
      BY <2>1, <2>2, <2>6 DEF TypeOK
    <3> HIDE DEF n, r
    <3>6. Docs(Where(job[j].from))' = Docs(Where(r.from)) /\ Due(job[j])' = r.rows
      BY <2>1, <3>2, <3>3 DEF Docs, Due
    <3>7. Covers(job[j])'
      BY <2>1, <3>2, <3>3, <3>4, <3>5, <3>6 DEF Covers
    <3>8. InPlace(job[j])'
      BY <3>2, <3>3 DEF InPlace
    <3> QED BY <1>1, <2>1, <2>4, <3>1, <3>2, <3>7, <3>8
  <2> QED BY <2>5, <2>6
<1>8. CASE SetWatermark(j)
  <2> DEFINE r == job[j]
  <2>1. /\ r.kind = "export" /\ r.at = "mark" /\ UNCHANGED <<data, exported>> /\ Becomes(j, Ended(j, "ok"))
        /\ watermark' = [watermark EXCEPT ![r.from] = r.boundary]
        /\ passed' = [passed EXCEPT ![r.from] = passed[r.from] \cup r.left]
    BY <1>8 DEF SetWatermark, Is
  <2>2. r.incremental
    BY <2>1 DEF SkippedInv, InPlace
  <2>3. PICK q \in Place : q = r.from
    BY <2>1, ExportFields
  <2>4. /\ passed'[q] = passed[q] \cup r.left
        /\ \A p \in Place : p # q => passed'[p] = passed[p] /\ watermark'[p] = watermark[p]
    BY <2>1, <2>3 DEF TypeOK
  <2>5. Arrives
    <3>1. \A w \in Stored : Docs(w)' \subseteq Docs(w)
      BY <2>1 DEF Docs
    <3>2. \A p \in Place : exported[p] \subseteq exported'[p] /\ passed[p] \subseteq passed'[p]
      BY <2>1, <2>4
    <3> QED BY <3>1, <3>2, ArrivesLess
  <2>6. ASSUME OneType, NEW p \in Place
        PROVE  \A d \in Docs(Where(p))' : d <= watermark'[p] => d \in exported'[p] \cup passed'[p]
    <3>1. CASE p # q
      BY <2>4, <2>5, <2>6, <3>1, KeepsNothingSkipped DEF SkippedInv
    <3>2. CASE p = q
      <4>1. watermark'[q] = r.boundary /\ Docs(Where(q))' = Docs(Where(q))
        BY <2>1, <2>3 DEF TypeOK, Docs
      <4>2. \A d \in Docs(Where(q)) : d <= r.boundary => d \in exported[q] \cup passed[q] \cup r.left \cup r.rows
        BY <2>6, <2>1, <2>3, <2>2 DEF SkippedInv, Covers, Due
      <4>3. r.rows \subseteq exported[q]
        BY <2>6, <2>1, <2>3, <2>2 DEF SkippedInv, Covers
      <4> HIDE DEF r
      <4> QED BY <2>1, <2>4, <3>2, <4>1, <4>2, <4>3
    <3> QED BY <3>1, <3>2
  <2>7. NothingSkipped'
    BY <2>6 DEF NothingSkipped
  <2>8. ASSUME NEW k \in Job
        PROVE  InPlace(job[k])' /\ Covers(job[k])'
    <3>1. CASE k = j
      BY <1>2, <2>1, <3>1
    <3>2. CASE k # j
      <4>1. Alike(k)
        BY <2>1, <3>2, BecomesIs
      <4>2. InPlace(job[k])'
        BY <4>1 DEF SkippedInv, InPlace, Alike
      <4> QED BY <2>5, <4>1, <4>2, KeepsCovers DEF SkippedInv
    <3> QED BY <3>1, <3>2
  <2> QED BY <2>7, <2>8 DEF SkippedInv
<1> QED BY <1>3, <1>4, <1>5, <1>6, <1>7, <1>8 DEF ExportStep

\* No step of the user or of other clients makes an export skip anything.
LEMMA SkippedOthers ==
    ASSUME TypeOK, SkippedInv, Quit \/ Others
    PROVE  SkippedInv'
<1>1. ASSUME Arrives, UNCHANGED watermark, \A k \in Job : Alike(k) \/ (InPlace(job[k])' /\ Covers(job[k])')
      PROVE  SkippedInv'
  <2>1. NothingSkipped'
    BY <1>1, KeepsNothingSkipped DEF NothingSkipped, SkippedInv
  <2>2. ASSUME NEW k \in Job, Alike(k)
        PROVE  InPlace(job[k])' /\ Covers(job[k])'
    <3>1. InPlace(job[k])'
      BY <2>2 DEF SkippedInv, InPlace, Alike
    <3> QED BY <1>1, <2>2, <3>1, KeepsCovers DEF SkippedInv
  <2> QED BY <1>1, <2>1, <2>2 DEF SkippedInv
<1>2. CASE Quit
  <2>1. UNCHANGED <<data, watermark, exported, passed>>
    BY <1>2 DEF Quit, watched
  <2>2. ASSUME NEW k \in Job
        PROVE  Alike(k) \/ (InPlace(job[k])' /\ Covers(job[k])')
    <3>1. job'[k] = IF job[k].at = "end" THEN job[k] ELSE [Idle EXCEPT !.kind = "gone", !.at = "end"]
      BY <1>2 DEF Quit
    <3>2. CASE job[k].at = "end"
      BY <3>1, <3>2, SameAlike
    <3>3. CASE job[k].at # "end"
      <4>1. job'[k].kind = "gone"
        BY <3>1, <3>3 DEF Idle
      <4> QED BY <4>1, NothingToCover
    <3> QED BY <3>2, <3>3
  <2> QED BY <1>1, <2>1, <2>2, ArrivesSame
<1>3. CASE Others
  <2>1. PICK w \in Stored, d \in Id :
           \/ Store(w, {d}) /\ UNCHANGED job
           \/ d \in Docs(w) /\ data' = [data EXCEPT ![w] = data[w] \ {d}] /\ job' = Gone(w, {d}) /\ UNCHANGED passed
    BY <1>3 DEF Others
  <2>2. UNCHANGED <<watermark, exported>>
    BY <1>3 DEF Others
  <2>3. CASE Store(w, {d}) /\ UNCHANGED job
    <3>1. {d} \in SUBSET Id /\ \A k \in Job : Alike(k)
      BY <2>3, SameAlike
    <3> QED BY <1>1, <2>2, <2>3, <3>1, ArrivesStore
  <2>4. CASE d \in Docs(w) /\ data' = [data EXCEPT ![w] = data[w] \ {d}] /\ job' = Gone(w, {d}) /\ UNCHANGED passed
    <3>1. \A k \in Job : Alike(k)
      BY <2>4, GoneAlike
    <3>2. ASSUME NEW v \in Stored
          PROVE  Docs(v)' \subseteq Docs(v)
      <4>1. data[w] # Missing /\ data'[w] = data[w] \ {d}
        BY <2>4 DEF Docs, TypeOK
      <4>2. v # w => data'[v] = data[v]
        BY <2>4 DEF TypeOK
      <4> QED BY <4>1, <4>2 DEF Docs
    <3>3. Arrives
      BY <2>2, <2>4, <3>2, ArrivesLess
    <3> QED BY <1>1, <2>2, <3>1, <3>3
  <2> QED BY <2>1, <2>3, <2>4
<1> QED BY <1>2, <1>3

\* No step of the system makes an export skip anything.
LEMMA SkippedStep == TypeOK /\ SkippedInv /\ [Next]_vars => SkippedInv'
<1>1. ASSUME TypeOK, SkippedInv, UNCHANGED vars
      PROVE  SkippedInv'
  BY <1>1 DEF vars, SkippedInv, NothingSkipped, InPlace, Covers, Docs, Due
<1>2. ASSUME TypeOK, SkippedInv, NEW j \in Job, Start(j) \/ Goes(j) \/ Fails(j)
      PROVE  SkippedInv'
  BY <1>2, SkippedImport, SkippedCopy, SkippedExport DEF Start, Goes, Fails
<1> QED BY <1>1, <1>2, SkippedOthers DEF Next

\* So that it is so at every moment.
LEMMA AlwaysSkippedInv == Spec => []SkippedInv
<1>1. TypeOK /\ SkippedInv /\ TypeOK' /\ [Next]_vars => SkippedInv'
  BY SkippedStep
<1> QED BY <1>1, TypeCorrect, SkippedInit, PTL DEF Spec

\* However exports, imports and copies of a collection interleave, and whatever other clients
\* insert and delete meanwhile: what an incremental export's watermark has passed is in a file
\* that an export completed, or was inserted behind the watermark or left out by a filter.
THEOREM NothingIsSkipped == Spec => []NothingSkipped
<1>1. SkippedInv => NothingSkipped
  BY DEF SkippedInv
<1> QED BY <1>1, AlwaysSkippedInv, PTL

-----------------------------------------------------------------------------
(* An import inserts the file in its order. *)

\* A sequence of at most one element.
LEMMA OneOrNone ==
    ASSUME NEW S, NEW c \in Seq(S), Len(c) <= 1
    PROVE  /\ Len(c) # 1 => c = <<>>
           /\ c # <<>> => Len(c) = 1 /\ Head(c) = c[1] /\ c[1] \in S /\ Tail(c) = <<>>
<1>1. Len(c) \in Nat /\ (c = <<>> <=> Len(c) = 0)
  BY LenProperties, EmptySeq
<1>2. Len(c) # 1 => c = <<>>
  BY <1>1
<1>3. ASSUME c # <<>>
      PROVE  Len(c) = 1 /\ Head(c) = c[1] /\ c[1] \in S /\ Tail(c) = <<>>
  <2>1. Len(c) = 1 /\ c[1] \in S
    <3>0. Len(c) # 0 /\ Len(c) \in Nat
      BY <1>1, <1>3
    <3>1. Len(c) = 1
      BY <3>0
    <3>2. 1 \in 1..Len(c)
      BY <3>1
    <3> QED BY <3>1, <3>2, ElementOfSeq
  <2>2. Head(c) = c[1] /\ Tail(c) \in Seq(S) /\ Len(Tail(c)) = 0
    BY <1>3, <2>1, HeadTailProperties
  <2>3. Tail(c) = <<>>
    BY <2>2, EmptySeq
  <2> QED BY <2>1, <2>2, <2>3
<1> QED BY <1>2, <1>3

\* An element added to the second of two sequences is added to both.
LEMMA AppendLast ==
    ASSUME NEW S, NEW s \in Seq(S), NEW t \in Seq(S), NEW e \in S
    PROVE  s \o Append(t, e) = Append(s \o t, e)
<1>1. <<e>> \in Seq(S) /\ s \o t \in Seq(S)
  BY ConcatProperties
<1>2. Append(t, e) = t \o <<e>> /\ Append(s \o t, e) = (s \o t) \o <<e>>
  BY <1>1, AppendIsConcat
<1> QED BY <1>1, <1>2, ConcatAssociative

\* What one sequence and then another begin, the first begins.
LEMMA BeginsFirst ==
    ASSUME NEW s \in Seq(Id), NEW t \in Seq(Id), NEW f, Len(f) \in Nat, Begins(s \o t, f)
    PROVE  Begins(s, f)
<1>1. /\ Len(s) \in Nat /\ Len(t) \in Nat /\ Len(s \o t) = Len(s) + Len(t)
      /\ \A i \in 1..Len(s) : (s \o t)[i] = s[i]
  BY ConcatProperties, LenProperties
<1>2. Len(s) <= Len(f)
  BY <1>1 DEF Begins
<1>3. \A i \in 1..Len(s) : i \in 1..Len(s \o t)
  BY <1>1
<1> QED BY <1>1, <1>2, <1>3 DEF Begins

\* The file's next element may follow what it begins with.
LEMMA BeginsNext ==
    ASSUME NEW s \in Seq(Id), NEW f, Len(f) \in Nat, Begins(s, f), Len(s) + 1 <= Len(f), f[Len(s) + 1] \in Id
    PROVE  Begins(Append(s, f[Len(s) + 1]), f)
<1> DEFINE e == f[Len(s) + 1]
           n == Append(s, e)
<1>1. /\ Len(s) \in Nat /\ Len(n) = Len(s) + 1 /\ (\A i \in 1..Len(s) : n[i] = s[i]) /\ n[Len(s) + 1] = e
  BY AppendProperties, LenProperties
<1> HIDE DEF n
<1>2. ASSUME NEW i \in 1..Len(n)
      PROVE  n[i] = f[i]
  <2>1. i \in 1..Len(s) \/ i = Len(s) + 1
    BY <1>1
  <2> QED BY <1>1, <2>1 DEF Begins
<1>3. Begins(n, f)
  BY <1>1, <1>2 DEF Begins
<1> QED BY <1>3 DEF n

\* A whole that begins a file of no more elements is that file.
LEMMA BeginsAll ==
    ASSUME NEW s \in Seq(Id), NEW f \in Seq(Id \cup {Bad}), Begins(s, f), Len(s) >= Len(f)
    PROVE  s = f
<1>1. Len(s) = Len(f)
  BY LenProperties DEF Begins
<1>2. s \in Seq(Id \cup {Bad})
  BY SeqMonotonic
<1> QED BY <1>1, <1>2, SeqEqual DEF Begins

\* And what begins a file is a prefix of it.
LEMMA BeginsIsPrefix ==
    ASSUME NEW s \in Seq(Id), NEW f \in Seq(Id \cup {Bad}), Begins(s, f)
    PROVE  IsPrefix(s, f)
<1>1. /\ Len(s) \in Nat /\ Len(f) \in Nat /\ Len(s) <= Len(f) /\ \A i \in 1..Len(s) : s[i] = f[i]
  BY LenProperties DEF Begins
<1>2. s \in Seq(Id \cup {Bad})
  BY SeqMonotonic
<1> DEFINE t == SubSeq(f, 1, Len(s))
<1>3. SubSeq(s, 1, Len(s)) = s
  BY SubSeqFull
<1>4. t \in Seq(Id \cup {Bad}) /\ Len(t) = Len(s) /\ \A i \in 1..Len(s) : t[i] = f[i]
  <2>1. \A i \in 1..Len(s) : f[i] \in Id \cup {Bad}
    BY <1>1, ElementOfSeq
  <2> QED BY <1>1, <2>1, SubSeqProperties
<1> HIDE DEF t
<1>5. t = s
  BY <1>1, <1>2, <1>4, SeqEqual
<1> QED BY <1>1, <1>3, <1>5 DEF IsPrefix, t

\* What has been taken is a sequence of documents.
LEMMA TakenType ==
    ASSUME NEW r \in ImportJob
    PROVE  /\ r.inserted \in Seq(Id) /\ r.hand \in Seq(Id) /\ Sent(r.channel) \in Seq(Id) /\ r.batch \in Seq(Id)
           /\ r.inserted \o r.hand \in Seq(Id) /\ r.inserted \o r.hand \o Sent(r.channel) \in Seq(Id)
           /\ Taken(r) \in Seq(Id) /\ Len(Taken(r)) \in Nat
           /\ r.file \in Seq(Id \cup {Bad}) /\ Len(r.file) \in Nat
<1>1. /\ r.inserted \in Seq(Id) /\ r.hand \in Seq(Id) /\ r.batch \in Seq(Id) /\ r.channel \in Seq(Seq(Id))
      /\ r.file \in Seq(Id \cup {Bad})
  BY TransfersAssumption DEF ImportJob
<1>2. Sent(r.channel) \in Seq(Id)
  <2>1. CASE r.channel = <<>>
    BY <2>1, EmptySeq DEF Sent
  <2>2. CASE r.channel # <<>>
    <3>1. 1 \in 1..Len(r.channel)
      BY <1>1, <2>2, LenProperties, EmptySeq
    <3> QED BY <1>1, <2>2, <3>1, ElementOfSeq DEF Sent
  <2> QED BY <2>1, <2>2
<1>3. r.inserted \o r.hand \in Seq(Id)
  BY <1>1, ConcatProperties
<1>4. r.inserted \o r.hand \o Sent(r.channel) \in Seq(Id)
  BY <1>2, <1>3, ConcatProperties
<1>5. Taken(r) \in Seq(Id)
  BY <1>1, <1>4, ConcatProperties DEF Taken
<1> QED BY <1>1, <1>2, <1>3, <1>4, <1>5, LenProperties

\* The parts of what has begun a file begin it.
LEMMA PartsBegin ==
    ASSUME NEW r \in ImportJob, Begins(Taken(r), r.file)
    PROVE  Begins(r.inserted \o r.hand \o Sent(r.channel), r.file) /\ Begins(r.inserted, r.file)
<1>1. Begins(r.inserted \o r.hand \o Sent(r.channel), r.file)
  BY TakenType, BeginsFirst DEF Taken
<1>2. Begins(r.inserted \o r.hand, r.file)
  BY <1>1, TakenType, BeginsFirst
<1>3. Begins(r.inserted, r.file)
  BY <1>2, TakenType, BeginsFirst
<1> QED BY <1>1, <1>3

\* An import whose parts together are what they were is in order as it was.
LEMMA InOrderSame ==
    ASSUME NEW r, NEW n, r.kind = "import", r.at = "run", InOrder(r), Len(n.channel) <= 1, n.receiving, n.file = r.file,
           Taken(n) = Taken(r), n.next = r.next,
           n.parser = r.parser \/ (r.parser # "failed" /\ n.parser \in {"parse", "send"}),
           n.parser \in {"end", "failed"} => n.batch = <<>>
    PROVE  InOrder(n)
BY DEF InOrder

\* A parser that fails drops what it has not sent.
LEMMA InOrderDropped ==
    ASSUME NEW r \in ImportJob, NEW n, r.at = "run", InOrder(r), n = [r EXCEPT !.parser = "failed", !.batch = <<>>]
    PROVE  InOrder(n)
<1>1. /\ n.kind = "import" /\ n.at = "run" /\ n.channel = r.channel /\ n.receiving = r.receiving /\ n.file = r.file
      /\ n.parser = "failed" /\ n.batch = <<>> /\ n.inserted = r.inserted /\ n.hand = r.hand /\ r.kind = "import"
  BY DEF ImportJob
<1>2. Taken(n) = r.inserted \o r.hand \o Sent(r.channel)
  BY <1>1, TakenType, ConcatEmptySeq DEF Taken
<1>3. Len(r.channel) <= 1 /\ r.receiving /\ Begins(Taken(r), r.file)
  BY <1>1 DEF InOrder
<1> QED BY <1>1, <1>2, <1>3, PartsBegin DEF InOrder

\* Only an insert that fails, and the end of the channel, end an import.
LEMMA ImportAt ==
    ASSUME TypeOK, NEW j \in Job, job[j] \in ImportJob, Parse(j) \/ Send(j) \/ Receive(j) \/ Insert(j) \/ ParseFails(j)
    PROVE  job'[j].at = job[j].at
<1> DEFINE r == job[j]
<1> SUFFICES \E n : Becomes(j, n) /\ n.at = r.at
  BY BecomesIs
<1>2. CASE Parse(j)
  <2>1. \/ Becomes(j, [r EXCEPT !.parser = "end"]) \/ Becomes(j, [r EXCEPT !.parser = "send"])
        \/ Becomes(j, [r EXCEPT !.parser = "failed", !.batch = <<>>])
        \/ \E next, batch, parser : Becomes(j, [r EXCEPT !.next = next, !.batch = batch, !.parser = parser])
    BY <1>2, ParseSteps
  <2>2. /\ [r EXCEPT !.parser = "end"].at = r.at /\ [r EXCEPT !.parser = "send"].at = r.at
        /\ [r EXCEPT !.parser = "failed", !.batch = <<>>].at = r.at
    BY DEF ImportJob
  <2>3. CASE \E next, batch, parser : Becomes(j, [r EXCEPT !.next = next, !.batch = batch, !.parser = parser])
    <3>1. PICK next, batch, parser : Becomes(j, [r EXCEPT !.next = next, !.batch = batch, !.parser = parser])
      BY <2>3
    <3>2. [r EXCEPT !.next = next, !.batch = batch, !.parser = parser].at = r.at
      BY DEF ImportJob
    <3> QED BY <3>1, <3>2
  <2> QED BY <2>1, <2>2, <2>3
<1>3. CASE Send(j)
  <2>1. \/ Becomes(j, [r EXCEPT !.channel = Append(r.channel, r.batch), !.batch = <<>>, !.parser = "parse"])
        \/ Becomes(j, [r EXCEPT !.batch = <<>>, !.parser = "failed"])
    BY <1>3 DEF Send
  <2>2. /\ [r EXCEPT !.channel = Append(r.channel, r.batch), !.batch = <<>>, !.parser = "parse"].at = r.at
        /\ [r EXCEPT !.batch = <<>>, !.parser = "failed"].at = r.at
    BY DEF ImportJob
  <2> QED BY <2>1, <2>2
<1>4. CASE ParseFails(j)
  <2>1. Becomes(j, [r EXCEPT !.parser = "failed", !.batch = <<>>])
    BY <1>4 DEF ParseFails
  <2>2. [r EXCEPT !.parser = "failed", !.batch = <<>>].at = r.at
    BY DEF ImportJob
  <2> QED BY <2>1, <2>2
<1>5. CASE Receive(j)
  <2>1. Becomes(j, [r EXCEPT !.hand = Head(r.channel), !.channel = Tail(r.channel)])
    BY <1>5 DEF Receive
  <2>2. [r EXCEPT !.hand = Head(r.channel), !.channel = Tail(r.channel)].at = r.at
    BY DEF ImportJob
  <2> QED BY <2>1, <2>2
<1>6. CASE Insert(j)
  <2>1. Becomes(j, [r EXCEPT !.inserted = r.inserted \o r.hand, !.hand = <<>>])
    BY <1>6 DEF Insert
  <2>2. [r EXCEPT !.inserted = r.inserted \o r.hand, !.hand = <<>>].at = r.at
    BY DEF ImportJob
  <2> QED BY <2>1, <2>2
<1> QED BY <1>2, <1>3, <1>4, <1>5, <1>6

\* An insert that fails answers so.
LEMMA ImportFailsIs ==
    ASSUME TypeOK, NEW j \in Job, ImportFails(j)
    PROVE  job'[j].at = "end" /\ job'[j].answer = "failed"
<1> DEFINE r == job[j]
<1>1. r \in ImportJob
  BY Kinds DEF ImportFails, Is
<1>2. PICK k \in 0..Len(r.hand) :
         Becomes(j, Failed([r EXCEPT !.inserted = r.inserted \o SubSeq(r.hand, 1, k), !.hand = <<>>]))
  BY DEF ImportFails
<1> DEFINE inserted == r.inserted \o SubSeq(r.hand, 1, k)
           n == Failed([r EXCEPT !.inserted = inserted, !.hand = <<>>])
<1>3. job'[j] = n
  BY <1>2, BecomesIs
<1> HIDE DEF inserted
<1>4. n.at = "end" /\ n.answer = "failed"
  BY <1>1 DEF ImportJob, Failed
<1> QED BY <1>3, <1>4

\* Every step of an import leaves its parts in order.
LEMMA InOrderStep ==
    ASSUME TypeOK, NEW j \in Job, InOrder(job[j]), StartImport(j) \/ ImportStep(j) \/ ImportFails(j) \/ ParseFails(j)
    PROVE  InOrder(job'[j])
<1> DEFINE r == job[j]
<1>0. ASSUME NEW n, n.at # "run"
      PROVE  InOrder(n)
  BY <1>0 DEF InOrder
<1>1. CASE StartImport(j)
  <2>1. PICK p \in Place, f \in File :
           Becomes(j, [kind |-> "import", answer |-> IF f = <<>> THEN "ok" ELSE "none",
                       at |-> IF f = <<>> THEN "end" ELSE "run",
                       to |-> Where(p), file |-> f, next |-> 1, batch |-> <<>>, inserted |-> <<>>,
                       parser |-> IF f = <<>> THEN "end" ELSE "parse",
                       channel |-> <<>>, receiving |-> TRUE, hand |-> <<>>])
    BY <1>1 DEF StartImport
  <2> DEFINE n == job'[j]
  <2>2. /\ n.at = "run" => n.parser = "parse"
        /\ n.file = f /\ n.next = 1 /\ n.batch = <<>> /\ n.inserted = <<>> /\ n.channel = <<>>
        /\ n.receiving /\ n.hand = <<>>
    BY <2>1, BecomesIs
  <2>3. Taken(n) = <<>>
    <3> HIDE DEF n
    <3>1. <<>> \o <<>> = <<>>
      BY ConcatEmptySeq, EmptySeq
    <3> QED BY <2>2, <3>1 DEF Taken, Sent
  <2>4. Begins(<<>>, f) /\ Len(<<>>) = 0
    BY TransfersAssumption, LenProperties, EmptySeq DEF Begins
  <2> HIDE DEF n
  <2> QED BY <2>2, <2>3, <2>4 DEF InOrder, n
<1>2. CASE ~StartImport(j)
  <2>1. r \in ImportJob \/ ImportEnds(j)
    BY <1>2, Kinds, ParseSteps DEF ImportStep, Send, Receive, ParseFails, Insert, ImportFails, Parser, Is
  <2>2. CASE ImportEnds(j)
    <3>1. job'[j] = Ended(j, ParserAnswer(r)) /\ Ended(j, ParserAnswer(r)).at = "end"
      BY <2>2, BecomesIs DEF ImportEnds, Ended
    <3> QED BY <1>0, <3>1
  <2>3. CASE r.at # "run" /\ r \in ImportJob /\ ~ImportEnds(j)
    <3>1. job'[j].at # "run"
      BY <1>2, <2>3, ImportAt DEF ImportStep, ImportFails, Is
    <3> QED BY <1>0, <3>1
  <2>4. CASE r.at = "run" /\ r \in ImportJob
    <3>1. /\ r.kind = "import" /\ r.inserted \in Seq(Id) /\ r.hand \in Seq(Id) /\ r.batch \in Seq(Id)
          /\ Sent(r.channel) \in Seq(Id) /\ r.inserted \o r.hand \in Seq(Id)
          /\ r.inserted \o r.hand \o Sent(r.channel) \in Seq(Id) /\ r.channel \in Seq(Seq(Id))
          /\ Taken(r) \in Seq(Id) /\ Len(Taken(r)) \in Nat /\ Len(r.file) \in Nat
      BY <2>4, TakenType DEF ImportJob
    <3>2. /\ Len(r.channel) <= 1 /\ r.receiving /\ Begins(Taken(r), r.file)
          /\ r.parser # "failed" => r.next = Len(Taken(r)) + 1
          /\ r.parser = "end" => r.next > Len(r.file)
          /\ r.parser \in {"end", "failed"} => r.batch = <<>>
      BY <2>4, <3>1 DEF InOrder
    <3>3. CASE Parse(j)
      <4>1. CASE r.next > Len(r.file) /\ Becomes(j, [r EXCEPT !.parser = "end"]) /\ r.batch = <<>>
        <5> DEFINE n == [r EXCEPT !.parser = "end"]
        <5>1. job'[j] = n
          BY <4>1, BecomesIs
        <5>2. /\ n.inserted = r.inserted /\ n.hand = r.hand /\ n.channel = r.channel /\ n.batch = r.batch
              /\ n.file = r.file /\ n.next = r.next /\ n.receiving = r.receiving /\ n.parser = "end"
          BY <2>4 DEF ImportJob
        <5>3. Taken(n) = Taken(r) /\ r.parser = "parse"
          BY <3>3, <5>2 DEF Taken, Parse, Parser
        <5> HIDE DEF n
        <5> QED BY <3>2, <4>1, <5>1, <5>2, <5>3 DEF InOrder
      <4>2. CASE Becomes(j, [r EXCEPT !.parser = "send"])
        <5> DEFINE n == [r EXCEPT !.parser = "send"]
        <5>1. job'[j] = n
          BY <4>2, BecomesIs
        <5>2. /\ n.inserted = r.inserted /\ n.hand = r.hand /\ n.channel = r.channel /\ n.batch = r.batch
              /\ n.file = r.file /\ n.next = r.next /\ n.receiving = r.receiving /\ n.parser = "send"
          BY <2>4 DEF ImportJob
        <5>3. Taken(n) = Taken(r) /\ r.parser = "parse"
          BY <3>3, <5>2 DEF Taken, Parse, Parser
        <5> HIDE DEF n
        <5> QED BY <3>2, <5>1, <5>2, <5>3 DEF InOrder
      <4>3. CASE Becomes(j, [r EXCEPT !.parser = "failed", !.batch = <<>>])
        <5>1. job'[j] = [r EXCEPT !.parser = "failed", !.batch = <<>>]
          BY <4>3, BecomesIs
        <5> QED BY <2>4, <5>1, InOrderDropped
      <4>4. CASE /\ r.next <= Len(r.file) /\ r.file[r.next] # Bad
                 /\ Becomes(j, [r EXCEPT !.next = r.next + 1, !.batch = Append(r.batch, r.file[r.next]),
                                         !.parser = IF Len(Append(r.batch, r.file[r.next])) >= BatchSize
                                                    THEN "send" ELSE "parse"])
        <5> DEFINE e == r.file[r.next]
                   batch == Append(r.batch, e)
                   parser == IF Len(batch) >= BatchSize THEN "send" ELSE "parse"
                   n == [r EXCEPT !.next = r.next + 1, !.batch = batch, !.parser = parser]
        <5>1. job'[j] = n
          BY <4>4, BecomesIs
        <5>2. e \in Id /\ r.next = Len(Taken(r)) + 1 /\ r.parser = "parse"
          BY <2>4, <3>2, <3>3, <4>4, NextElement DEF Parse, Parser
        <5>3. parser \in {"send", "parse"}
          OBVIOUS
        <5> HIDE DEF batch, parser
        <5>4. /\ n.inserted = r.inserted /\ n.hand = r.hand /\ n.channel = r.channel /\ n.batch = batch
              /\ n.file = r.file /\ n.next = r.next + 1 /\ n.receiving = r.receiving /\ n.parser = parser
          BY <2>4 DEF ImportJob
        <5> HIDE DEF n
        <5>5. Taken(n) = Append(Taken(r), e)
          <6> DEFINE s == r.inserted \o r.hand \o Sent(r.channel)
          <6>1. s \in Seq(Id) /\ r.batch \in Seq(Id)
            BY <3>1
          <6>2. Taken(n) = s \o batch /\ Taken(r) = s \o r.batch
            BY <5>4 DEF Taken
          <6>3. batch = Append(r.batch, e) /\ e \in Id
            BY <5>2 DEF batch
          <6> HIDE DEF s, e, r
          <6>4. s \o Append(r.batch, e) = Append(s \o r.batch, e)
            BY <6>1, <6>3, AppendLast
          <6> QED BY <6>2, <6>3, <6>4
        <5>6. Begins(Taken(n), r.file)
          BY <3>1, <3>2, <4>4, <5>2, <5>5, BeginsNext
        <5>7. n.next = Len(Taken(n)) + 1
          <6>1. Len(Taken(n)) = Len(Taken(r)) + 1
            BY <3>1, <5>2, <5>5, AppendProperties
          <6> QED BY <3>1, <5>2, <5>4, <6>1
        <5> QED BY <3>2, <5>1, <5>3, <5>4, <5>6, <5>7 DEF InOrder
      <4> QED BY <3>3, <4>1, <4>2, <4>3, <4>4, ParseSteps
    <3>4. CASE Send(j)
      <4>1. /\ r.parser = "send" /\ ~Full(r.channel)
            /\ Becomes(j, [r EXCEPT !.channel = Append(r.channel, r.batch), !.batch = <<>>, !.parser = "parse"])
        BY <3>2, <3>4 DEF Send, Parser
      <4>2. r.channel = <<>>
        BY <3>1, <3>2, <4>1, OneOrNone DEF Full
      <4> DEFINE channel == Append(r.channel, r.batch)
                 n == [r EXCEPT !.channel = channel, !.batch = <<>>, !.parser = "parse"]
      <4>3. job'[j] = n
        BY <4>1, BecomesIs
      <4>4. channel = <<r.batch>> /\ Len(channel) = 1 /\ Sent(channel) = r.batch
        BY <3>1, <4>2 DEF Sent
      <4> HIDE DEF channel
      <4>5. /\ n.inserted = r.inserted /\ n.hand = r.hand /\ n.channel = channel /\ n.batch = <<>>
            /\ n.file = r.file /\ n.next = r.next /\ n.receiving = r.receiving /\ n.parser = "parse"
        BY <2>4 DEF ImportJob
      <4> HIDE DEF n
      <4>6. Taken(n) = r.inserted \o r.hand \o r.batch
        <5>1. r.inserted \o r.hand \o r.batch \in Seq(Id)
          BY <3>1, ConcatProperties
        <5> QED BY <4>4, <4>5, <5>1, ConcatEmptySeq DEF Taken
      <4>7. Taken(r) = r.inserted \o r.hand \o r.batch
        BY <3>1, <4>2, ConcatEmptySeq DEF Taken, Sent
      <4>8. /\ Taken(n) = Taken(r) /\ Len(n.channel) <= 1 /\ n.receiving /\ n.parser = "parse" /\ r.parser # "failed"
            /\ n.file = r.file /\ n.next = r.next
        BY <3>2, <4>1, <4>4, <4>5, <4>6, <4>7
      <4>9. InOrder(n)
        BY <2>4, <3>1, <4>8, InOrderSame
      <4> QED BY <4>3, <4>9
    <3>5. CASE Receive(j)
      <4>1. /\ r.hand = <<>> /\ r.channel # <<>>
            /\ Becomes(j, [r EXCEPT !.hand = Head(r.channel), !.channel = Tail(r.channel)])
        BY <3>5 DEF Receive
      <4>2. Len(r.channel) = 1 /\ Sent(r.channel) = r.channel[1]
        BY <3>1, <3>2, <4>1, OneOrNone DEF Sent
      <4> DEFINE hand == Head(r.channel)
                 channel == Tail(r.channel)
                 n == [r EXCEPT !.hand = hand, !.channel = channel]
      <4>3. job'[j] = n
        BY <4>1, BecomesIs
      <4>4. hand = r.channel[1] /\ channel = <<>>
        BY <3>1, <3>2, <4>1, OneOrNone
      <4> HIDE DEF hand, channel
      <4>5. /\ n.inserted = r.inserted /\ n.hand = hand /\ n.channel = channel /\ n.batch = r.batch
            /\ n.file = r.file /\ n.next = r.next /\ n.receiving = r.receiving /\ n.parser = r.parser
        BY <2>4 DEF ImportJob
      <4> HIDE DEF n
      <4>6. Taken(n) = r.inserted \o hand \o r.batch
        <5>1. hand \in Seq(Id)
          BY <3>1, <4>2, <4>4
        <5>2. r.inserted \o hand \in Seq(Id)
          BY <3>1, <5>1, ConcatProperties
        <5> QED BY <4>4, <4>5, <5>2, ConcatEmptySeq DEF Taken, Sent
      <4>7. Taken(r) = r.inserted \o hand \o r.batch
        BY <3>1, <4>1, <4>2, <4>4, ConcatEmptySeq DEF Taken
      <4>8. Len(n.channel) <= 1
        BY <4>4, <4>5, EmptySeq
      <4> QED BY <2>4, <3>1, <3>2, <4>3, <4>5, <4>6, <4>7, <4>8, InOrderSame
    <3>6. CASE Insert(j)
      <4> DEFINE inserted == r.inserted \o r.hand
                 n == [r EXCEPT !.inserted = inserted, !.hand = <<>>]
      <4>1. Becomes(j, n)
        BY <3>6 DEF Insert
      <4>2. job'[j] = n
        BY <4>1, BecomesIs
      <4>3. inserted \in Seq(Id)
        BY <3>1
      <4> HIDE DEF inserted
      <4>4. /\ n.inserted = inserted /\ n.hand = <<>> /\ n.channel = r.channel /\ n.batch = r.batch
            /\ n.file = r.file /\ n.next = r.next /\ n.receiving = r.receiving /\ n.parser = r.parser
        BY <2>4 DEF ImportJob
      <4> HIDE DEF n
      <4>5. Taken(n) = Taken(r)
        BY <4>3, <4>4, ConcatEmptySeq DEF Taken, inserted
      <4> QED BY <2>4, <3>1, <3>2, <4>2, <4>4, <4>5, InOrderSame
    <3>7. CASE ImportFails(j)
      <4>1. job'[j].at = "end"
        BY <3>7, ImportFailsIs
      <4> QED BY <1>0, <4>1
    <3>8. CASE ParseFails(j)
      <4>1. job'[j] = [r EXCEPT !.parser = "failed", !.batch = <<>>]
        BY <3>8, BecomesIs DEF ParseFails
      <4> QED BY <2>4, <4>1, InOrderDropped
    <3> QED BY <1>2, <2>2, <3>3, <3>4, <3>5, <3>6, <3>7, <3>8 DEF ImportStep
  <2> QED BY <2>1, <2>2, <2>3, <2>4
<1> QED BY <1>1, <1>2

-----------------------------------------------------------------------------
(* What a command has is what it must have by then. *)

\* What a command reads is stored somewhere.
LEMMA ReadsType ==
    ASSUME TypeOK, NEW k \in Job, job[k].kind \in {"copy", "export"}, job[k].at # "end"
    PROVE  Reads(job[k]) \in Stored
<1>1. CASE job[k].kind = "copy"
  BY <1>1, Kinds DEF Reads, CopyJob
<1>2. CASE job[k].kind = "export"
  BY <1>2, ExportFields DEF Reads
<1> QED BY <1>1, <1>2

\* A command that nothing happens to, while nothing it reads goes.
LEMMA SameWork ==
    ASSUME TypeOK, NEW k \in Job, Work(job[k]), job'[k] = job[k], \A v \in Stored : Docs(v) \subseteq Docs(v)'
    PROVE  Work(job[k])'
<1>1. Exporting(job'[k]) /\ Copying(job'[k]) /\ InOrder(job'[k])
  BY DEF Work
<1>2. ASSUME job[k].kind \in {"copy", "export"}, job[k].at # "end"
      PROVE  job[k].present \subseteq Docs(Reads(job[k]))'
  <2>1. PICK v \in Stored : v = Reads(job[k])
    BY <1>2, ReadsType
  <2>2. job[k].present \subseteq Docs(v)
    BY <1>2, <2>1 DEF Work, Present
  <2>3. Docs(Reads(job[k]))' = Docs(v)'
    BY <2>1 DEF Reads
  <2> QED BY <2>2, <2>3
<1>3. Present(job[k])'
  BY <1>2 DEF Present
<1> QED BY <1>1, <1>3 DEF Work

\* Or while documents D go from collection w.
LEMMA GoneWork ==
    ASSUME TypeOK, NEW k \in Job, Work(job[k]), NEW w, NEW D, job'[k] = Gone(w, D)[k],
           \A v \in Stored : Docs(v) \subseteq Docs(v)' \cup (IF v = w THEN D ELSE {})
    PROVE  Work(job[k])'
<1> DEFINE r == job[k]
           n == [r EXCEPT !.present = r.present \ D]
<1>1. CASE r.kind \in {"copy", "export"} /\ r.at # "end" /\ Reads(r) = w
  <2>1. job'[k] = n
    BY <1>1, GoneIs
  <2>2. w \in Stored
    BY <1>1, ReadsType
  <2>3. r.present \subseteq Docs(w)
    BY <1>1 DEF Work, Present
  <2>4. r.present \ D \subseteq Docs(w)'
    BY <2>2, <2>3
  <2>5. CASE r.kind = "copy"
    <3>1. r \in CopyJob
      BY <1>1, <2>5, Kinds
    <3>2. /\ n.kind = "copy" /\ n.at = r.at /\ n.from = r.from /\ n.present = r.present \ D
          /\ n.copied = r.copied /\ n.batch = r.batch /\ n.last = r.last
      BY <2>5, <3>1 DEF CopyJob
    <3>3. r.present \subseteq r.copied \cup ToSet(r.batch) \cup {d \in Id : d > r.last} /\ (r.at = "drop" => r.last = 0)
      BY <1>1, <2>5 DEF Work, Copying
    <3>4. r.from = w
      BY <1>1, <2>5 DEF Reads
    <3> HIDE DEF r, n
    <3>5. Exporting(n) /\ InOrder(n) /\ Copying(n)
      BY <3>2, <3>3 DEF Exporting, InOrder, Copying
    <3>6. Present(job[k])'
      BY <2>1, <2>4, <3>2, <3>4 DEF Present, Reads
    <3> QED BY <2>1, <3>5, <3>6 DEF Work
  <2>6. CASE r.kind = "export"
    <3>1. r \in ExportJob
      BY <1>1, <2>6, Kinds
    <3>2. /\ n.kind = "export" /\ n.at = r.at /\ n.from = r.from /\ n.present = r.present \ D
          /\ n.window = r.window /\ n.rows = r.rows /\ n.last = r.last
      BY <2>6, <3>1 DEF ExportJob
    <3>3. r.at # "window" => r.present \subseteq Due(r)
      BY <1>1, <2>6 DEF Work, Exporting
    <3>4. Where(r.from) = w
      BY <1>1, <2>6 DEF Reads
    <3> HIDE DEF r, n
    <3>5. Due(n) = Due(r)
      BY <3>2 DEF Due
    <3>6. Exporting(n) /\ InOrder(n) /\ Copying(n)
      BY <3>2, <3>3, <3>5 DEF Exporting, InOrder, Copying
    <3>7. Present(job[k])'
      BY <2>1, <2>4, <3>2, <3>4 DEF Present, Reads
    <3> QED BY <2>1, <3>6, <3>7 DEF Work
  <2> QED BY <1>1, <2>5, <2>6
<1>2. CASE ~(r.kind \in {"copy", "export"} /\ r.at # "end" /\ Reads(r) = w)
  <2>1. job'[k] = r
    BY <1>2 DEF Gone
  <2>2. ASSUME r.kind \in {"copy", "export"}, r.at # "end"
        PROVE  r.present \subseteq Docs(Reads(job[k]))'
    <3>1. PICK v \in Stored : v = Reads(r)
      BY <2>2, ReadsType
    <3>2. r.present \subseteq Docs(v) /\ v # w
      BY <1>2, <2>2, <3>1 DEF Work, Present
    <3>3. Docs(Reads(job[k]))' = Docs(v)'
      BY <2>1, <3>1 DEF Reads
    <3> QED BY <3>2, <3>3
  <2>3. Present(job[k])'
    BY <2>1, <2>2 DEF Present
  <2> QED BY <2>1, <2>3 DEF Work
<1> QED BY <1>1, <1>2

\* Storing takes nothing away.
LEMMA StoreGrows ==
    ASSUME TypeOK, NEW w \in Stored, NEW D \in SUBSET Id, Store(w, D)
    PROVE  \A v \in Stored : Docs(v) \subseteq Docs(v)'
<1> TAKE v \in Stored
<1>1. data' = [data EXCEPT ![w] = Docs(w) \cup D] /\ data \in [Stored -> (SUBSET Id) \cup {Missing}]
  BY DEF Store, TypeOK
<1>2. CASE v # w
  BY <1>1, <1>2 DEF Docs
<1>3. CASE v = w
  <2>1. data'[w] = Docs(w) \cup D /\ Docs(w) \cup D \in SUBSET Id
    BY <1>1, DocsType
  <2>2. data'[w] # Missing
    BY <2>1, TransfersAssumption
  <2> QED BY <1>3, <2>1, <2>2 DEF Docs
<1> QED BY <1>2, <1>3

\* Replacing a collection takes what the new one does not have.
LEMMA OutGoes ==
    ASSUME TypeOK, NEW from \in Stored, NEW to \in Stored, NEW j, NEW r, Out(from, to, j, r)
    PROVE  \A v \in Stored : Docs(v) \subseteq Docs(v)' \cup (IF v = to THEN Docs(to) \ Docs(from) ELSE {})
<1> TAKE v \in Stored
<1>1. data' = [data EXCEPT ![to] = Docs(from)] /\ data \in [Stored -> (SUBSET Id) \cup {Missing}]
  BY DEF Out, TypeOK
<1>2. CASE v # to
  BY <1>1, <1>2 DEF Docs
<1>3. CASE v = to
  <2>1. data'[to] = Docs(from) /\ Docs(from) \in SUBSET Id
    BY <1>1, DocsType
  <2>2. data'[to] # Missing
    BY <2>1, TransfersAssumption
  <2>3. Docs(to)' = Docs(from)
    BY <2>1, <2>2 DEF Docs
  <2> QED BY <1>3, <2>3
<1> QED BY <1>2, <1>3

\* One command's step, by which nothing that is stored goes.
LEMMA BecomesWork ==
    ASSUME TypeOK, WorkInv, NEW j \in Job, \A k \in Job : k # j => job'[k] = job[k],
           \A v \in Stored : Docs(v) \subseteq Docs(v)', Work(job[j])'
    PROVE  WorkInv'
<1>1. ASSUME NEW k \in Job, k # j
      PROVE  Work(job[k])'
  BY <1>1, SameWork DEF WorkInv
<1> QED BY <1>1 DEF WorkInv

\* No step of an import undoes what a command has done.
LEMMA WorkImport ==
    ASSUME TypeOK, WorkInv, NEW j \in Job, StartImport(j) \/ ImportStep(j) \/ ImportFails(j) \/ ParseFails(j)
    PROVE  WorkInv'
<1>1. job'[j].kind = "import" /\ \A k \in Job : k # j => job'[k] = job[k]
  BY ImportStays
<1>2. InOrder(job'[j])
  BY InOrderStep DEF WorkInv, Work
<1>3. Work(job[j])'
  BY <1>1, <1>2 DEF Work, Exporting, Copying, Present
<1>4. \A v \in Stored : Docs(v) \subseteq Docs(v)'
  <2>1. CASE StartImport(j) \/ Parse(j) \/ Send(j) \/ Receive(j) \/ ImportEnds(j) \/ ParseFails(j)
    BY <2>1 DEF StartImport, Parse, Send, Receive, ImportEnds, ParseFails, watched, Docs
  <2>2. CASE Insert(j) \/ ImportFails(j)
    <3>1. job[j] \in ImportJob
      BY <2>2, Kinds DEF Insert, ImportFails, Is
    <3>2. job[j].hand \in Seq(Id) /\ job[j].to \in Stored /\ Len(job[j].hand) \in 0..Len(job[j].hand)
      BY <3>1, ImportFields, LenProperties
    <3>3. \E D \in SUBSET Id : Store(job[j].to, D)
      BY <2>2, <3>2, BatchType DEF Insert, ImportFails, InsertMany, InsertFails
    <3> QED BY <3>2, <3>3, StoreGrows
  <2> QED BY <2>1, <2>2 DEF ImportStep
<1> QED BY <1>1, <1>3, <1>4, BecomesWork

\* An element that is added is there.
LEMMA AppendSet ==
    ASSUME NEW s \in Seq(Id), NEW e \in Id
    PROVE  ToSet(s) \subseteq ToSet(Append(s, e)) /\ e \in ToSet(Append(s, e)) /\ ToSet(<<>>) = {}
<1>1. /\ Len(s) \in Nat /\ Len(Append(s, e)) = Len(s) + 1 /\ Append(s, e) \in Seq(Id)
      /\ (\A i \in 1..Len(s) : Append(s, e)[i] = s[i]) /\ Append(s, e)[Len(s) + 1] = e
  BY AppendProperties, LenProperties
<1>2. DOMAIN s = 1..Len(s) /\ DOMAIN Append(s, e) = 1..(Len(s) + 1)
  BY <1>1, LenProperties
<1>3. ASSUME NEW i \in 1..Len(s)
      PROVE  s[i] \in ToSet(Append(s, e))
  <2>1. i \in DOMAIN Append(s, e) /\ Append(s, e)[i] = s[i]
    BY <1>1, <1>2
  <2> QED BY <2>1 DEF ToSet
<1>4. e \in ToSet(Append(s, e))
  <2>1. Len(s) + 1 \in DOMAIN Append(s, e)
    BY <1>1, <1>2
  <2> QED BY <1>1, <2>1 DEF ToSet
<1>5. ToSet(<<>>) = {}
  BY DEF ToSet
<1>6. \A x \in ToSet(s) : \E i \in 1..Len(s) : x = s[i]
  BY <1>2 DEF ToSet
<1> QED BY <1>3, <1>4, <1>5, <1>6

\* A copy that starts has all before it.
LEMMA WorkStartCopy ==
    ASSUME TypeOK, NEW j \in Job, StartCopy(j)
    PROVE  Work(job[j])' /\ \A k \in Job : k # j => job'[k] = job[k]
<1>1. PICK p, q \in Place :
         Becomes(j, [kind |-> "copy", at |-> "drop", answer |-> "none", from |-> Where(p), to |-> Where(q),
                     last |-> 0, batch |-> <<>>, copied |-> {}, present |-> Docs(Where(p))])
  BY DEF StartCopy
<1>2. /\ job'[j].kind = "copy" /\ job'[j].at = "drop" /\ job'[j].from = Where(p) /\ job'[j].last = 0
      /\ job'[j].present = Docs(Where(p)) /\ \A k \in Job : k # j => job'[k] = job[k]
  BY <1>1, BecomesIs
<1>3. Docs(Where(p)) \subseteq {d \in Id : d > 0}
  BY WhereType, DocsType, TransfersAssumption DEF Id
<1>4. Docs(Where(p))' = Docs(Where(p))
  BY DEF StartCopy, watched, Docs
<1>5. Exporting(job'[j]) /\ InOrder(job'[j]) /\ Copying(job'[j])
  BY <1>2, <1>3 DEF Exporting, InOrder, Copying
<1>6. Present(job[j])'
  BY <1>2, <1>4 DEF Present, Reads
<1> QED BY <1>2, <1>5, <1>6 DEF Work

\* A copy that reads on has read, or has before it, what was there all along.
LEMMA WorkReadToCopy ==
    ASSUME TypeOK, NEW j \in Job, Work(job[j]), ReadToCopy(j)
    PROVE  Work(job[j])' /\ \A k \in Job : k # j => job'[k] = job[k]
<1> DEFINE r == job[j]
           ahead == Ahead(r.from, r.last, Id)
<1>1. r.kind = "copy" /\ r.at = "read" /\ UNCHANGED data
  BY DEF ReadToCopy, Is
<1>2. r \in CopyJob /\ r.from \in Stored /\ r.batch \in Seq(Id) /\ r.last \in Nat /\ r.present \subseteq Id
  BY <1>1, Kinds DEF CopyJob
<1>3. r.present \subseteq r.copied \cup ToSet(r.batch) \cup {d \in Id : d > r.last} /\ r.present \subseteq Docs(r.from)
  BY <1>1 DEF Work, Copying, Present, Reads
<1>4. CASE Becomes(j, Ended(j, "ok"))
  <2>1. job'[j].at = "end" /\ \A k \in Job : k # j => job'[k] = job[k]
    BY <1>4, BecomesIs DEF Ended
  <2>2. Work(job[j])'
    BY <2>1 DEF Work, Exporting, Copying, Present, InOrder
  <2> QED BY <2>1, <2>2
<1>5. CASE ahead # {} /\ Becomes(j, [r EXCEPT !.batch = Append(r.batch, Min(ahead)), !.last = Min(ahead)])
  <2> DEFINE m == Min(ahead)
             batch == Append(r.batch, m)
             n == [r EXCEPT !.batch = batch, !.last = m]
  <2>1. job'[j] = n /\ \A k \in Job : k # j => job'[k] = job[k]
    BY <1>5, BecomesIs
  <2>2. m \in ahead /\ m \in Id /\ \A d \in ahead : m <= d
    BY <1>2, <1>5, AheadType
  <2>3. ToSet(r.batch) \subseteq ToSet(batch) /\ m \in ToSet(batch)
    BY <1>2, <2>2, AppendSet
  <2>4. \A d \in r.present : d > r.last => d \in ahead
    BY <1>2, <1>3 DEF Ahead
  <2> HIDE DEF ahead, m, batch
  <2>5. /\ n.kind = "copy" /\ n.at = "read" /\ n.from = r.from /\ n.present = r.present /\ n.copied = r.copied
        /\ n.batch = batch /\ n.last = m
    BY <1>1, <1>2 DEF CopyJob
  <2> HIDE DEF n
  <2>6. ASSUME NEW d \in r.present
        PROVE  d \in r.copied \cup ToSet(batch) \cup {e \in Id : e > m}
    <3>1. CASE d > r.last
      <4>1. m <= d /\ d \in Id /\ m \in Nat /\ d \in Nat
        BY <1>2, <2>2, <2>4, <3>1, TransfersAssumption DEF Id
      <4>2. d = m \/ d > m
        BY <4>1
      <4> QED BY <2>3, <4>1, <4>2
    <3>2. CASE ~(d > r.last)
      BY <1>3, <2>3, <3>2
    <3> QED BY <3>1, <3>2
  <2>7. Exporting(n) /\ InOrder(n) /\ Copying(n)
    BY <2>5, <2>6 DEF Exporting, InOrder, Copying
  <2>8. Present(job[j])'
    <3>1. Docs(r.from)' = Docs(n.from)
      BY <1>1, <2>1, <2>5 DEF Docs
    <3> QED BY <1>1, <1>3, <2>1, <2>5 DEF Present, Reads, Docs
  <2> QED BY <2>1, <2>7, <2>8 DEF Work
<1> QED BY <1>4, <1>5 DEF ReadToCopy

\* A copy that inserts what it has read has copied it.
LEMMA WorkInsertCopy ==
    ASSUME TypeOK, NEW j \in Job, Work(job[j]), InsertCopy(j)
    PROVE  /\ Work(job[j])' /\ \A k \in Job : k # j => job'[k] = job[k]
           /\ \A v \in Stored : Docs(v) \subseteq Docs(v)'
<1> DEFINE r == job[j]
<1>1. r.kind = "copy" /\ r.at = "read"
  BY DEF InsertCopy, Is
<1>2. r \in CopyJob /\ r.from \in Stored /\ r.to \in Stored /\ r.batch \in Seq(Id) /\ Len(r.batch) \in 0..Len(r.batch)
  BY <1>1, Kinds, LenProperties DEF CopyJob
<1>3. r.present \subseteq r.copied \cup ToSet(r.batch) \cup {d \in Id : d > r.last} /\ r.present \subseteq Docs(r.from)
  BY <1>1 DEF Work, Copying, Present, Reads
<1>4. \E D \in SUBSET Id : Store(r.to, D)
  BY <1>2, BatchType DEF InsertCopy, InsertMany, InsertFails
<1>5. \A v \in Stored : Docs(v) \subseteq Docs(v)'
  BY <1>2, <1>4, StoreGrows
<1>6. CASE Becomes(j, Ended(j, "failed"))
  <2>1. job'[j].at = "end" /\ \A k \in Job : k # j => job'[k] = job[k]
    BY <1>6, BecomesIs DEF Ended
  <2>2. Work(job[j])'
    BY <2>1 DEF Work, Exporting, Copying, Present, InOrder
  <2> QED BY <1>5, <2>1, <2>2
<1>7. CASE Becomes(j, [r EXCEPT !.batch = <<>>, !.copied = r.copied \cup ToSet(r.batch)])
  <2> DEFINE copied == r.copied \cup ToSet(r.batch)
             n == [r EXCEPT !.batch = <<>>, !.copied = copied]
  <2>1. job'[j] = n /\ \A k \in Job : k # j => job'[k] = job[k]
    BY <1>7, BecomesIs
  <2> HIDE DEF copied
  <2>2. /\ n.kind = "copy" /\ n.at = "read" /\ n.from = r.from /\ n.present = r.present /\ n.copied = copied
        /\ n.batch = <<>> /\ n.last = r.last
    BY <1>1, <1>2 DEF CopyJob
  <2> HIDE DEF n
  <2>3. Exporting(n) /\ InOrder(n) /\ Copying(n)
    BY <1>3, <2>2 DEF Exporting, InOrder, Copying, copied
  <2>4. Present(job[j])'
    <3>1. PICK w \in Stored : w = r.from
      BY <1>2
    <3>2. r.present \subseteq Docs(w)'
      BY <1>3, <1>5, <3>1
    <3> QED BY <2>1, <2>2, <3>1, <3>2 DEF Present, Reads
  <2> QED BY <1>5, <2>1, <2>3, <2>4 DEF Work
<1> QED BY <1>6, <1>7 DEF InsertCopy

\* A copy that drops its target has what is left of its source before it.
LEMMA WorkDropTarget ==
    ASSUME TypeOK, WorkInv, NEW j \in Job, DropTarget(j)
    PROVE  WorkInv'
<1>1. job[j].kind = "copy" /\ job[j].at = "drop"
  BY DEF DropTarget, Is
<1>2. job[j] \in CopyJob
  BY <1>1, Kinds
<1>3. PICK w \in Stored : w = job[j].to
  BY <1>2 DEF CopyJob
<1> DEFINE D == Docs(w)
           g == Gone(w, D)[j]
<1>4. PICK E : E = D
  OBVIOUS
<1>5. job' = [Gone(w, E) EXCEPT ![j].at = "read"] /\ data' = [data EXCEPT ![w] = Missing]
  BY <1>3, <1>4 DEF DropTarget
<1>6. Gone(w, E) \in [Job -> AnyJob]
  BY GoneIs
<1>7. \A v \in Stored : Docs(v) \subseteq Docs(v)' \cup (IF v = w THEN E ELSE {})
  <2> TAKE v \in Stored
  <2>1. v # w => data'[v] = data[v]
    BY <1>5 DEF TypeOK
  <2> QED BY <1>4, <2>1 DEF Docs
<1>8. ASSUME NEW k \in Job, k # j
      PROVE  Work(job[k])'
  <2>1. job'[k] = Gone(w, E)[k]
    BY <1>5, <1>6, <1>8
  <2> QED BY <1>7, <2>1, GoneWork DEF WorkInv
<1>9. Work(job[j])'
  <2> DEFINE r == job[j]
             n == job'[j]
  <2>1. n = [Gone(w, E)[j] EXCEPT !.at = "read"]
    BY <1>5, <1>6
  <2>2. Gone(w, E)[j] = IF r.from = w THEN [r EXCEPT !.present = r.present \ E] ELSE r
    BY <1>1 DEF Gone, Reads
  <2>3. /\ n.kind = "copy" /\ n.at = "read" /\ n.from = r.from /\ n.last = r.last /\ n.batch = r.batch
        /\ n.copied = r.copied /\ n.present = (IF r.from = w THEN r.present \ E ELSE r.present)
    <3>1. CASE r.from = w
      <4>1. [r EXCEPT !.present = r.present \ E] \in CopyJob
        BY <1>2 DEF CopyJob
      <4>2. n = [[r EXCEPT !.present = r.present \ E] EXCEPT !.at = "read"]
        BY <2>1, <2>2, <3>1
      <4> HIDE DEF n
      <4> QED BY <1>1, <1>2, <3>1, <4>1, <4>2 DEF CopyJob
    <3>2. CASE r.from # w
      <4>1. n = [r EXCEPT !.at = "read"]
        BY <2>1, <2>2, <3>2
      <4> HIDE DEF n
      <4> QED BY <1>1, <1>2, <3>2, <4>1 DEF CopyJob
    <3> QED BY <3>1, <3>2
  <2>4. r.present \subseteq r.copied \cup ToSet(r.batch) \cup {d \in Id : d > r.last} /\ r.present \subseteq Docs(r.from)
    BY <1>1 DEF WorkInv, Work, Copying, Present, Reads
  <2>5. PICK v \in Stored : v = r.from
    BY <1>2 DEF CopyJob
  <2>6. n.present \subseteq Docs(v)'
    BY <1>7, <2>3, <2>4, <2>5
  <2>7. Present(job[j])'
    BY <2>3, <2>5, <2>6 DEF Present, Reads
  <2> HIDE DEF r
  <2>8. Exporting(n) /\ InOrder(n) /\ Copying(n)
    BY <2>3, <2>4 DEF Exporting, InOrder, Copying
  <2> QED BY <2>7, <2>8 DEF Work
<1> QED BY <1>8, <1>9 DEF WorkInv

\* A collection replaced.
LEMMA WorkOut ==
    ASSUME TypeOK, WorkInv, NEW from \in Stored, NEW to \in Stored, NEW j \in Job, NEW r, r.at = "end", Out(from, to, j, r)
    PROVE  WorkInv'
<1>1. PICK D : D = Docs(to) \ Docs(from)
  OBVIOUS
<1>2. job' = [Gone(to, D) EXCEPT ![j] = r] /\ Gone(to, D) \in [Job -> AnyJob]
  BY <1>1, GoneIs DEF Out
<1>3. ASSUME NEW k \in Job, k # j
      PROVE  Work(job[k])'
  <2>1. job'[k] = Gone(to, D)[k]
    BY <1>2, <1>3
  <2>2. \A v \in Stored : Docs(v) \subseteq Docs(v)' \cup (IF v = to THEN D ELSE {})
    BY <1>1, OutGoes
  <2> QED BY <2>1, <2>2, GoneWork DEF WorkInv
<1>4. Work(job[j])'
  <2>1. job'[j] = r
    BY <1>2
  <2> QED BY <2>1 DEF Work, Exporting, Copying, Present, InOrder
<1> QED BY <1>3, <1>4 DEF WorkInv

\* No step of a copy undoes what a command has done.
LEMMA WorkCopy ==
    ASSUME TypeOK, WorkInv, NEW j \in Job,
           CopyHere(j) \/ StartDuplicate(j) \/ StartCopy(j) \/ CopyStep(j) \/ CopyFails(j)
    PROVE  WorkInv'
<1>1. UNCHANGED data => \A v \in Stored : Docs(v) \subseteq Docs(v)'
  BY DEF Docs
<1>2. CASE CopyHere(j)
  <2>1. [Idle EXCEPT !.kind = "copy here", !.at = "end", !.answer = "ok"].at = "end"
    BY DEF Idle
  <2> QED BY <1>2, <2>1, WorkOut, WhereType DEF CopyHere
<1>3. CASE StartDuplicate(j)
  <2>1. \E r : r.kind = "duplicate" /\ Becomes(j, r) /\ UNCHANGED data
    BY <1>3 DEF StartDuplicate
  <2>2. job'[j].kind = "duplicate" /\ \A k \in Job : k # j => job'[k] = job[k]
    BY <2>1, BecomesIs
  <2>3. Work(job[j])'
    BY <2>2 DEF Work, Exporting, Copying, Present, InOrder
  <2> QED BY <1>1, <2>1, <2>2, <2>3, BecomesWork
<1>4. CASE StartCopy(j) \/ ReadToCopy(j)
  <2>1. UNCHANGED data /\ Work(job[j])' /\ \A k \in Job : k # j => job'[k] = job[k]
    BY <1>4, WorkStartCopy, WorkReadToCopy DEF StartCopy, ReadToCopy, WorkInv
  <2> QED BY <1>1, <2>1, BecomesWork
<1>5. CASE Duplicate(j)
  <2>1. job[j] \in DuplicateJob
    BY <1>5, Kinds DEF Duplicate, Is
  <2>2. job[j].from \in Stored /\ job[j].to \in Stored /\ Ended(j, "ok").at = "end"
    BY <2>1 DEF DuplicateJob, Ended
  <2> QED BY <1>5, <2>2, WorkOut DEF Duplicate
<1>6. CASE DropTarget(j)
  BY <1>6, WorkDropTarget
<1>7. CASE InsertCopy(j)
  <2>1. /\ Work(job[j])' /\ \A k \in Job : k # j => job'[k] = job[k]
        /\ \A v \in Stored : Docs(v) \subseteq Docs(v)'
    BY <1>7, WorkInsertCopy DEF WorkInv
  <2> QED BY <2>1, BecomesWork
<1>8. CASE CopyFails(j)
  <2>1. Becomes(j, Ended(j, "failed")) /\ UNCHANGED data
    BY <1>8 DEF CopyFails
  <2>2. job'[j].at = "end" /\ \A k \in Job : k # j => job'[k] = job[k]
    BY <2>1, BecomesIs DEF Ended
  <2>3. Work(job[j])'
    BY <2>2 DEF Work, Exporting, Copying, Present, InOrder
  <2> QED BY <1>1, <2>1, <2>2, <2>3, BecomesWork
<1> QED BY <1>2, <1>3, <1>4, <1>5, <1>6, <1>7, <1>8 DEF CopyStep

\* An export's step: what it must have is due, or written.
LEMMA WorkExport ==
    ASSUME TypeOK, SkippedInv, WorkInv, NEW j \in Job, StartExport(j) \/ ExportStep(j) \/ ExportFails(j)
    PROVE  WorkInv'
<1> DEFINE r == job[j]
           n == job'[j]
<1>1. UNCHANGED data
  BY DEF ExportStep, StartExport, FindWindow, ReadHeaders, ReadRows, FlushExport, SetWatermark, ExportFails
<1>2. \A v \in Stored : Docs(v) \subseteq Docs(v)'
  BY <1>1 DEF Docs
<1>3. ASSUME NEW s, Becomes(j, s), Work(job[j])'
      PROVE  WorkInv'
  BY <1>2, <1>3, BecomesIs, BecomesWork
<1>4. ASSUME NEW answer, Becomes(j, Ended(j, answer))
      PROVE  WorkInv'
  <2>1. n.at = "end"
    BY <1>4, BecomesIs DEF Ended
  <2>2. Work(job[j])'
    BY <2>1 DEF Work, Exporting, Copying, Present, InOrder
  <2> QED BY <1>3, <1>4, <2>2
<1>5. ASSUME n.kind = "export", n.at # "window" => n.present \subseteq Due(n), n.present \subseteq Docs(Where(n.from)),
             Becomes(j, n)
      PROVE  WorkInv'
  <2>1. Exporting(n) /\ InOrder(n) /\ Copying(n)
    BY <1>5 DEF Exporting, InOrder, Copying
  <2>2. Docs(Reads(job[j]))' = Docs(Where(n.from))
    BY <1>1, <1>5 DEF Docs, Reads
  <2>3. Present(job[j])'
    BY <1>5, <2>2 DEF Present
  <2> QED BY <1>3, <1>5, <2>1, <2>3 DEF Work
<1>6. ASSUME r.kind = "export", r.at # "end"
      PROVE  r.present \subseteq Docs(Where(r.from)) /\ (r.at # "window" => r.present \subseteq Due(r))
  BY <1>6 DEF WorkInv, Work, Present, Exporting, Reads
<1>7. CASE StartExport(j)
  <2>1. CASE n.kind = "export nothing" /\ n.at = "end"
    <3>1. Work(job[j])'
      BY <2>1 DEF Work, Exporting, Copying, Present, InOrder
    <3> QED BY <1>3, <1>7, <3>1, StartExportIs
  <2>2. CASE n.kind = "export" /\ n.at = "window" /\ n.present = Docs(Where(n.from))
    BY <1>5, <1>7, <2>2, StartExportIs
  <2> QED BY <1>7, <2>1, <2>2, StartExportIs
<1>8. CASE FindWindow(j)
  <2>1. /\ r.kind = "export" /\ r.at = "window" /\ Becomes(j, n) /\ n \in ExportJob /\ n.from = r.from
        /\ n.present = r.present \cap n.window
    BY <1>8, FindWindowIs
  <2>2. n.present \subseteq Due(n)
    BY <1>8, <2>1, WindowDue
  <2>3. n.kind = "export"
    BY <2>1 DEF ExportJob
  <2>4. n.present \subseteq Docs(Where(n.from))
    BY <1>6, <2>1
  <2> HIDE DEF n
  <2> QED BY <1>5, <2>1, <2>2, <2>3, <2>4
<1>9. CASE ReadHeaders(j) \/ ReadRows(j)
  <2>1. /\ r.kind = "export" /\ r.at \in {"headers", "rows"} /\ Becomes(j, n) /\ n \in ExportJob /\ n.from = r.from
        /\ n.present = r.present /\ Docs(Where(r.from)) \cap Due(r) \subseteq Due(n)
    BY <1>9, ReadDue
  <2>2. n.kind = "export"
    BY <2>1 DEF ExportJob
  <2>3. r.present \subseteq Docs(Where(r.from)) /\ r.present \subseteq Due(r)
    BY <1>6, <2>1
  <2>4. n.present \subseteq Docs(Where(n.from)) /\ n.present \subseteq Due(n)
    BY <2>1, <2>3
  <2> HIDE DEF n
  <2> QED BY <1>5, <2>1, <2>2, <2>4
<1>10. CASE FlushExport(j)
  <2>1. /\ r.kind = "export" /\ r.at = "flush"
        /\ Becomes(j, IF r.incremental THEN [r EXCEPT !.at = "mark"] ELSE Ended(j, "ok"))
    BY <1>10 DEF FlushExport, Is
  <2>2. CASE ~r.incremental
    BY <1>4, <2>1, <2>2
  <2>3. CASE r.incremental
    <3> DEFINE m == [r EXCEPT !.at = "mark"]
    <3>1. Becomes(j, m) /\ n = m /\ r \in ExportJob
      BY <2>1, <2>3, BecomesIs, ExportFields
    <3>2. m.kind = "export" /\ m.at = "mark" /\ m.from = r.from /\ m.present = r.present /\ m.rows = r.rows
      BY <2>1, <3>1 DEF ExportJob
    <3> HIDE DEF m, r, n
    <3>3. Due(r) = r.rows /\ Due(m) = m.rows
      BY <2>1, <3>2 DEF Due
    <3>4. r.present \subseteq Docs(Where(r.from)) /\ r.present \subseteq Due(r)
      BY <1>6, <2>1
    <3>5. n.present \subseteq Docs(Where(n.from)) /\ n.present \subseteq Due(n) /\ n.kind = "export" /\ Becomes(j, n)
      BY <3>1, <3>2, <3>3, <3>4
    <3> QED BY <1>5, <3>5
  <2> QED BY <2>2, <2>3
<1>11. CASE SetWatermark(j) \/ ExportFails(j)
  BY <1>4, <1>11 DEF SetWatermark, ExportFails
<1> QED BY <1>7, <1>8, <1>9, <1>10, <1>11 DEF ExportStep

\* Nor does any step of the user or of other clients, as far as it had to be done.
LEMMA WorkOthers ==
    ASSUME TypeOK, WorkInv, Quit \/ Others
    PROVE  WorkInv'
<1>1. CASE Quit
  <2> SUFFICES ASSUME NEW k \in Job
               PROVE  Work(job[k])'
    BY DEF WorkInv
  <2>1. job'[k].at = "end"
    <3>1. job'[k] = IF job[k].at = "end" THEN job[k] ELSE [Idle EXCEPT !.kind = "gone", !.at = "end"]
      BY <1>1 DEF Quit
    <3> QED BY <3>1 DEF Idle
  <2> QED BY <2>1 DEF Work, Exporting, Copying, Present, InOrder
<1>2. CASE Others
  <2>1. PICK w \in Stored, d \in Id :
           \/ Store(w, {d}) /\ UNCHANGED job
           \/ d \in Docs(w) /\ data' = [data EXCEPT ![w] = data[w] \ {d}] /\ job' = Gone(w, {d}) /\ UNCHANGED passed
    BY <1>2 DEF Others
  <2>2. CASE Store(w, {d}) /\ UNCHANGED job
    <3>1. \A v \in Stored : Docs(v) \subseteq Docs(v)'
      <4>1. {d} \in SUBSET Id
        OBVIOUS
      <4> QED BY <2>2, <4>1, StoreGrows
    <3> QED BY <2>2, <3>1, SameWork DEF WorkInv
  <2>3. CASE d \in Docs(w) /\ data' = [data EXCEPT ![w] = data[w] \ {d}] /\ job' = Gone(w, {d}) /\ UNCHANGED passed
    <3>1. data[w] \in SUBSET Id /\ data'[w] = data[w] \ {d} /\ \A v \in Stored : v # w => data'[v] = data[v]
      BY <2>3 DEF Docs, TypeOK
    <3>2. data'[w] # Missing
      <4>1. data[w] \ {d} \in SUBSET Id
        BY <3>1
      <4> QED BY <3>1, <4>1, TransfersAssumption
    <3>3. \A v \in Stored : Docs(v) \subseteq Docs(v)' \cup (IF v = w THEN {d} ELSE {})
      BY <3>1, <3>2 DEF Docs
    <3>4. \A k \in Job : job'[k] = Gone(w, {d})[k]
      BY <2>3
    <3> QED BY <3>3, <3>4, GoneWork DEF WorkInv
  <2> QED BY <2>1, <2>2, <2>3
<1> QED BY <1>1, <1>2

\* At the beginning nothing had to be done.
LEMMA WorkInit == Init => WorkInv
<1> SUFFICES ASSUME Init, NEW j \in Job
             PROVE  Work(job[j])
  BY DEF WorkInv
<1>1. job[j].kind = "idle"
  BY DEF Init, Idle
<1> QED BY <1>1 DEF Work, Exporting, Copying, Present, InOrder

\* No step of the system undoes what a command had to have done.
LEMMA WorkStep == TypeOK /\ SkippedInv /\ WorkInv /\ [Next]_vars => WorkInv'
<1>1. ASSUME TypeOK, WorkInv, UNCHANGED vars
      PROVE  WorkInv'
  <2>1. \A v \in Stored : Docs(v) \subseteq Docs(v)'
    BY <1>1 DEF vars, Docs
  <2> QED BY <1>1, <2>1, SameWork DEF vars, WorkInv
<1>2. ASSUME TypeOK, SkippedInv, WorkInv, NEW j \in Job, Start(j) \/ Goes(j) \/ Fails(j)
      PROVE  WorkInv'
  BY <1>2, WorkImport, WorkCopy, WorkExport DEF Start, Goes, Fails
<1> QED BY <1>1, <1>2, WorkOthers DEF Next

\* So that it is so at every moment.
LEMMA AlwaysWorkInv == Spec => []WorkInv
BY TypeCorrect, AlwaysSkippedInv, WorkInit, WorkStep, PTL DEF Spec

-----------------------------------------------------------------------------
(* Answers. *)

\* What a command that answers must have done.
AsAnswered(r, ok) ==
    /\ r.kind = "import" => IsPrefix(r.inserted, r.file) /\ (ok => r.inserted = r.file)
    /\ r.kind = "copy"   => (ok => r.present \subseteq r.copied)
    /\ r.kind = "export" => (ok => r.present \subseteq r.rows)

\* An import that ends has inserted a beginning of its file, and all of it when it answers Ok.
LEMMA ImportTrue ==
    ASSUME TypeOK, NEW j \in Job, Work(job[j]), job[j].kind = "import", job[j].at # "end", NEW ok \in BOOLEAN,
           ok => job[j].parser = "end" /\ job[j].hand = <<>> /\ job[j].channel = <<>>
    PROVE  AsAnswered(job[j], ok)
<1> DEFINE r == job[j]
<1>1. r.at = "run"
  BY DEF TypeOK, BriefJob, ImportJob, DuplicateJob, CopyJob, ExportJob
<1>2. r \in ImportJob
  BY <1>1, Kinds
<1>3. /\ r.inserted \in Seq(Id) /\ r.batch \in Seq(Id) /\ r.file \in Seq(Id \cup {Bad}) /\ Begins(Taken(r), r.file)
      /\ Len(r.file) \in Nat
  BY <1>1, <1>2, TakenType DEF Work, InOrder
<1>4. Begins(r.inserted, r.file)
  BY <1>2, <1>3, PartsBegin
<1>5. ASSUME ok
      PROVE  r.inserted = r.file
  <2>1. r.next > Len(r.file) /\ r.batch = <<>> /\ r.next = Len(Taken(r)) + 1
    BY <1>1, <1>5 DEF Work, InOrder
  <2>2. Taken(r) = r.inserted
    BY <1>3, <1>5, <2>1, ConcatEmptySeq DEF Taken, Sent
  <2>3. Len(r.inserted) >= Len(r.file)
    <3>1. Len(r.inserted) \in Nat
      BY <1>3, LenProperties
    <3> QED BY <1>3, <2>1, <2>2, <3>1
  <2> QED BY <1>3, <1>4, <2>3, BeginsAll
<1> QED BY <1>3, <1>4, <1>5, BeginsIsPrefix DEF AsAnswered


\* Of an import's steps, the end of the channel is the one that may answer Ok.
LEMMA ImportOk ==
    ASSUME TypeOK, NEW j \in Job, job[j].kind = "import", job[j].at # "end", Start(j) \/ Goes(j) \/ Fails(j),
           job'[j].at = "end", job'[j].answer = "ok"
    PROVE  job[j].parser = "end" /\ job[j].hand = <<>> /\ job[j].channel = <<>>
<1>1. job[j].at = "run"
  BY DEF TypeOK, BriefJob, ImportJob, DuplicateJob, CopyJob, ExportJob
<1>2. job[j] \in ImportJob
  BY <1>1, Kinds
<1>3. ImportStep(j) \/ ImportFails(j) \/ ParseFails(j)
  BY DEF Start, Goes, Fails, CopyStep, ExportStep, StartImport, CopyHere, StartDuplicate, StartCopy, StartExport,
         Duplicate, DropTarget, ReadToCopy, InsertCopy, FindWindow, ReadHeaders, ReadRows, FlushExport, SetWatermark,
         CopyFails, ExportFails, Is, Idle
<1>4. ~ImportFails(j)
  BY ImportFailsIs
<1>5. ImportEnds(j)
  BY <1>1, <1>2, <1>3, <1>4, ImportAt DEF ImportStep
<1>6. job'[j] = Ended(j, ParserAnswer(job[j]))
  BY <1>5, BecomesIs DEF ImportEnds
<1> QED BY <1>5, <1>6 DEF ImportEnds, Ended, ParserAnswer

\* A copy that has dropped its target reads.
LEMMA DropAt ==
    ASSUME TypeOK, NEW j \in Job, DropTarget(j)
    PROVE  job'[j].at = "read"
<1>1. job[j] \in CopyJob
  BY Kinds DEF DropTarget, Is
<1>2. PICK w, D : job' = [Gone(w, D) EXCEPT ![j].at = "read"]
  BY DEF DropTarget
<1>3. Gone(w, D) \in [Job -> AnyJob]
  BY GoneIs
<1>4. [job[j] EXCEPT !.present = job[j].present \ D] \in CopyJob
  BY <1>1 DEF CopyJob
<1>5. Gone(w, D)[j] \in CopyJob
  BY <1>1, <1>4 DEF Gone
<1>6. job'[j] = [Gone(w, D)[j] EXCEPT !.at = "read"]
  BY <1>2, <1>3
<1> QED BY <1>5, <1>6 DEF CopyJob

\* Of a copy's steps, the one at the end of its source may answer Ok.
LEMMA CopyOk ==
    ASSUME TypeOK, NEW j \in Job, job[j].kind = "copy", job[j].at # "end", Start(j) \/ Goes(j) \/ Fails(j),
           job'[j].at = "end", job'[j].answer = "ok"
    PROVE  job[j] \in CopyJob /\ job[j].batch = <<>> /\ Ahead(job[j].from, job[j].last, Id) = {}
<1> DEFINE r == job[j]
<1>1. r \in CopyJob
  BY Kinds
<1>2. DropTarget(j) \/ ReadToCopy(j) \/ InsertCopy(j) \/ CopyFails(j)
  BY DEF Start, Goes, Fails, ImportStep, CopyStep, ExportStep, StartImport, CopyHere, StartDuplicate, StartCopy,
         StartExport, Parse, Send, Receive, Insert, ImportEnds, ImportFails, ParseFails, Parser, Duplicate, FindWindow,
         ReadHeaders, ReadRows, FlushExport, SetWatermark, ExportFails, Is, Idle
<1>3. Ended(j, "failed").answer = "failed"
  BY DEF Ended
<1>4. ~DropTarget(j)
  BY DropAt
<1>5. ~CopyFails(j)
  BY <1>3, BecomesIs DEF CopyFails
<1>6. ~InsertCopy(j)
  <2> SUFFICES ASSUME InsertCopy(j)
               PROVE  FALSE
    OBVIOUS
  <2>1. [r EXCEPT !.batch = <<>>, !.copied = r.copied \cup ToSet(r.batch)].at = r.at
    BY <1>1 DEF CopyJob
  <2>2. \/ Becomes(j, [r EXCEPT !.batch = <<>>, !.copied = r.copied \cup ToSet(r.batch)])
        \/ Becomes(j, Ended(j, "failed"))
    BY DEF InsertCopy
  <2> QED BY <1>3, <2>1, <2>2, BecomesIs
<1>7. ReadToCopy(j)
  BY <1>2, <1>4, <1>5, <1>6
<1>8. [r EXCEPT !.batch = Append(r.batch, Min(Ahead(r.from, r.last, Id))), !.last = Min(Ahead(r.from, r.last, Id))].at = r.at
  BY <1>1 DEF CopyJob
<1>9. ~Becomes(j, [r EXCEPT !.batch = Append(r.batch, Min(Ahead(r.from, r.last, Id))),
                            !.last = Min(Ahead(r.from, r.last, Id))])
  BY <1>8, BecomesIs
<1> QED BY <1>1, <1>7, <1>9 DEF ReadToCopy

\* Of an export's steps, those after its last document may answer Ok.
LEMMA ExportOk ==
    ASSUME TypeOK, NEW j \in Job, job[j].kind = "export", job[j].at # "end", Start(j) \/ Goes(j) \/ Fails(j),
           job'[j].at = "end", job'[j].answer = "ok"
    PROVE  job[j].at \in {"flush", "mark"}
<1>1. ExportStep(j) \/ ExportFails(j)
  BY DEF Start, Goes, Fails, ImportStep, CopyStep, StartImport, CopyHere, StartDuplicate, StartCopy, StartExport,
         Parse, Send, Receive, Insert, ImportEnds, ImportFails, ParseFails, Parser,
         Duplicate, DropTarget, ReadToCopy, InsertCopy, CopyFails, Is, Idle
<1>2. ~ExportFails(j)
  BY BecomesIs DEF ExportFails, Ended
<1>3. ~FindWindow(j)
  BY FindWindowIs
<1>4. ~(ReadHeaders(j) \/ ReadRows(j))
  BY ReadDue
<1> QED BY <1>1, <1>2, <1>3, <1>4 DEF ExportStep, FlushExport, SetWatermark, Is

\* A command whose step ends it has done what it answers.
LEMMA StepTrue ==
    ASSUME TypeOK, NEW j \in Job, Work(job[j]), Start(j) \/ Goes(j) \/ Fails(j), job[j].at # "end", job'[j].at = "end"
    PROVE  AsAnswered(job[j], job'[j].answer = "ok")
<1> DEFINE r == job[j]
<1>1. CASE r.kind = "import"
  <2>1. (job'[j].answer = "ok") \in BOOLEAN
    OBVIOUS
  <2> QED BY <1>1, <2>1, ImportOk, ImportTrue
<1>2. ASSUME r.kind = "copy", job'[j].answer = "ok"
      PROVE  r.present \subseteq r.copied
  <2>1. r \in CopyJob /\ r.batch = <<>> /\ Ahead(r.from, r.last, Id) = {}
    BY <1>2, CopyOk
  <2>2. r.present \subseteq r.copied \cup ToSet(r.batch) \cup {d \in Id : d > r.last} /\ r.present \subseteq Docs(r.from)
    BY <1>2 DEF Work, Copying, Present, Reads
  <2>3. ToSet(<<>>) = {}
    BY DEF ToSet
  <2>4. \A d \in r.present : ~(d \in Id /\ d > r.last)
    BY <2>1, <2>2 DEF Ahead
  <2> HIDE DEF r
  <2> QED BY <2>1, <2>2, <2>3, <2>4
<1>3. ASSUME r.kind = "export", job'[j].answer = "ok"
      PROVE  r.present \subseteq r.rows
  BY <1>3, ExportOk DEF Work, Exporting, Due
<1> QED BY <1>1, <1>2, <1>3 DEF AsAnswered

\* Nor has any other step ended a command.
LEMMA NextTrue ==
    ASSUME TypeOK, WorkInv, [Next]_vars, NEW j \in Job, job[j].at # "end", job'[j].at = "end"
    PROVE  AsAnswered(job[j], job'[j].answer = "ok")
<1>1. CASE Start(j) \/ Goes(j) \/ Fails(j)
  BY <1>1, StepTrue DEF WorkInv
<1>2. CASE Quit
  <2>1. job'[j].answer = "none"
    BY <1>2 DEF Quit, Idle
  <2>2. job[j].kind = "import" => AsAnswered(job[j], FALSE)
    BY ImportTrue DEF WorkInv
  <2> QED BY <2>1, <2>2 DEF AsAnswered
<1>3. ASSUME NEW k \in Job, k # j, Start(k) \/ Goes(k) \/ Fails(k)
      PROVE  FALSE
  <2>1. StartImport(k) \/ ImportStep(k) \/ ImportFails(k) \/ ParseFails(k) => Alike(j)
    BY <1>3, ImportStays
  <2>2. CopyHere(k) \/ StartDuplicate(k) \/ StartCopy(k) \/ CopyStep(k) \/ CopyFails(k) => Alike(j)
    BY <1>3, CopyStays
  <2>3. StartExport(k) \/ ExportStep(k) \/ ExportFails(k) => Alike(j)
    <3>1. StartExport(k) \/ ExportStep(k) \/ ExportFails(k) => \E r : Becomes(k, r)
      BY DEF StartExport, ExportStep, FindWindow, ReadHeaders, ReadRows, FlushExport, SetWatermark, ExportFails
    <3> QED BY <1>3, <3>1, BecomesIs
  <2> QED BY <1>3, <2>1, <2>2, <2>3 DEF Alike, Start, Goes, Fails
<1>4. CASE Others
  <2>1. job' = job \/ \E w, D : job' = Gone(w, D)
    BY <1>4 DEF Others
  <2> QED BY <2>1, GoneIs
<1>5. CASE UNCHANGED vars
  BY <1>5 DEF vars
<1> QED BY <1>1, <1>2, <1>3, <1>4, <1>5 DEF Next

\* Whatever else runs, is inserted, deleted or fails meanwhile: an import that answers Ok has
\* inserted its whole file, in order, and one that ends otherwise a beginning of it; a copy that
\* answers Ok has copied, and an export written, every document that was there all along.
THEOREM AnswersHold == Spec => AnswersAreTrue
<1>1. TypeOK /\ WorkInv /\ [Next]_vars =>
         [\A j \in Job : job[j].at # "end" /\ job'[j].at = "end" =>
             LET r  == job[j]
                 ok == job'[j].answer = "ok"
             IN  /\ r.kind = "import" => IsPrefix(r.inserted, r.file) /\ (ok => r.inserted = r.file)
                 /\ r.kind = "copy"   => (ok => r.present \subseteq r.copied)
                 /\ r.kind = "export" => (ok => r.present \subseteq r.rows)]_vars
  BY NextTrue DEF AsAnswered
<1> QED BY <1>1, TypeCorrect, AlwaysWorkInv, PTL DEF Spec, AnswersAreTrue

-----------------------------------------------------------------------------
(* A store's file. *)

\* The places of a command that holds the store's lock.
InUpdate == {"read", "quarantine", "write", "rename"}

\* What the variables look like, whatever logs hold.
Shape ==
    /\ kind \in Kind
    /\ file.is \in {"none", "damaged", "log"}
    /\ file.is # "log" => file.log = <<>>
    /\ DOMAIN task = Thread
    /\ \A t \in Thread :
          /\ DOMAIN task[t] = {"at", "change", "base"}
          /\ task[t].at \in {"idle", "look", "unread"} \cup InUpdate

\* The lock is held by the command that changes the store, and by no other.
Locked == \A t \in Thread : task[t].at \in InUpdate => lock = t

\* What a command in the middle of an update applies is a change to this store.
Changing == \A t \in Thread : task[t].at \in InUpdate => task[t].change \in ChangeTo(kind)

\* A file is moved aside only after it could not be read.
Harmed == \A t \in Thread : task[t].at \in {"unread", "quarantine"} => harmed

\* What is about to be swapped in was made from what the file holds, or from what was set
\* aside under the hand of the command, or from nothing once the file could not be read.
BaseKept ==
    \A t \in Thread : task[t].at \in {"write", "rename"} =>
        \/ task[t].base = file.log
        \/ file.log = <<>> /\ task[t].base \in aside
        \/ harmed /\ task[t].base = <<>>

StoreInv == Shape /\ Locked /\ Changing /\ Harmed /\ BaseKept

\* A command that ends leaves the lock, and the others as they were.
LEMMA EndsKeeps ==
    ASSUME StoreInv, NEW t \in Thread, Ends(t)
    PROVE  /\ task'[t] = NoTask
           /\ \A u \in Thread \ {t} : task'[u] = task[u]
           /\ DOMAIN task' = Thread
           /\ \A u \in Thread \ {t} : lock = u => lock' = u
BY DEF StoreInv, Shape, Ends

LEMMA StoreInvInit == StoreInit => StoreInv
BY DEF StoreInit, StoreInv, Shape, Locked, Changing, Harmed, BaseKept, InUpdate, NoTask, NoFile

LEMMA StoreInvNext == StoreInv /\ [StoreNext]_storeVars => StoreInv'
<1> SUFFICES ASSUME StoreInv, [StoreNext]_storeVars PROVE StoreInv'
  OBVIOUS
<1> USE DEF StoreInv, InUpdate
<1>1. ASSUME NEW t \in Thread, NEW change \in ChangeTo(kind), Update(t, change)
      PROVE  StoreInv'
  <2>1. /\ task'[t] = [NoTask EXCEPT !.at = "read", !.change = change]
        /\ \A u \in Thread \ {t} : task'[u] = task[u]
        /\ DOMAIN task' = Thread
    BY <1>1 DEF Update, Shape
  <2>2. lock = Nobody /\ lock' = t /\ UNCHANGED <<kind, file, aside, harmed>>
    BY <1>1 DEF Update, Lock
  <2>3. \A u \in Thread : task[u].at \notin InUpdate
    BY <2>2, BoundsAssumption DEF Locked
  <2>4. task'[t].at = "read" /\ task'[t].change = change /\ DOMAIN task'[t] = {"at", "change", "base"}
    BY <2>1 DEF NoTask
  <2>5. Shape'
    BY <2>1, <2>2, <2>4 DEF Shape
  <2>6. Locked' /\ Changing' /\ Harmed' /\ BaseKept'
    BY <2>1, <2>2, <2>3, <2>4 DEF Locked, Changing, Harmed, BaseKept
  <2> QED BY <2>5, <2>6
<1>2. ASSUME NEW t \in Thread, Load(t)
      PROVE  StoreInv'
  BY <1>2 DEF Load, Shape, Locked, Changing, Harmed, BaseKept
<1>3. ASSUME NEW t \in Thread, Read(t)
      PROVE  StoreInv'
  <2>1. UNCHANGED <<kind, file, aside, harmed>> /\ task[t].at \in {"read", "look"}
    BY <1>3 DEF Read
  <2>2. CASE task[t].at = "look"
    <3>1. Ends(t)
      BY <1>3, <2>2 DEF Read
    <3> QED BY <3>1, <2>1, EndsKeeps DEF Shape, Locked, Changing, Harmed, BaseKept, NoTask
  <2>3. CASE task[t].at = "read"
    BY <1>3, <2>3 DEF Read, Shape, Locked, Changing, Harmed, BaseKept
  <2> QED BY <2>1, <2>2, <2>3
<1>4. ASSUME NEW t \in Thread, ReadFails(t)
      PROVE  StoreInv'
  BY <1>4 DEF ReadFails, Shape, Locked, Changing, Harmed, BaseKept
<1>5. ASSUME NEW t \in Thread, Quarantine(t)
      PROVE  StoreInv'
  <2>1. harmed /\ UNCHANGED <<kind, harmed>> /\ task[t].at \in {"quarantine", "unread"}
    BY <1>5 DEF Quarantine, Harmed
  <2>2. file' = NoFile /\ file'.log = <<>> /\ aside \subseteq aside'
    BY <1>5 DEF Quarantine, MoveAside, NoFile
  <2>3. file.log = <<>> \/ file.log \in aside'
    BY <1>5 DEF Quarantine, MoveAside, Shape
  <2>4. \A u \in Thread \ {t} : BaseKept /\ task[u].at \in {"write", "rename"} =>
            \/ task[u].base = file'.log
            \/ file'.log = <<>> /\ task[u].base \in aside'
            \/ harmed' /\ task[u].base = <<>>
    BY <2>1, <2>2, <2>3 DEF BaseKept
  <2>5. CASE task[t].at = "unread"
    <3>1. Ends(t)
      BY <1>5, <2>5 DEF Quarantine, AfterQuarantine
    <3> QED BY <3>1, <2>1, <2>2, <2>4, EndsKeeps DEF Shape, Locked, Changing, Harmed, BaseKept, NoTask, NoFile
  <2>6. CASE task[t].at = "quarantine"
    BY <1>5, <2>6, <2>1, <2>2, <2>4
    DEF Quarantine, AfterQuarantine, Shape, Locked, Changing, Harmed, BaseKept, NoFile
  <2> QED BY <2>1, <2>5, <2>6
<1>6. ASSUME NEW t \in Thread, QuarantineFails(t)
      PROVE  StoreInv'
  <2>1. harmed /\ UNCHANGED <<kind, file, aside, harmed>> /\ task[t].at \in {"quarantine", "unread"}
    BY <1>6 DEF QuarantineFails, Harmed
  <2>2. CASE task[t].at = "unread"
    <3>1. Ends(t)
      BY <1>6, <2>2 DEF QuarantineFails, AfterQuarantine
    <3> QED BY <3>1, <2>1, EndsKeeps DEF Shape, Locked, Changing, Harmed, BaseKept, NoTask
  <2>3. CASE task[t].at = "quarantine"
    BY <1>6, <2>1, <2>3 DEF QuarantineFails, AfterQuarantine, Shape, Locked, Changing, Harmed, BaseKept
  <2> QED BY <2>1, <2>2, <2>3
<1>7. ASSUME NEW t \in Thread, WriteTemporary(t)
      PROVE  StoreInv'
  BY <1>7 DEF WriteTemporary, Shape, Locked, Changing, Harmed, BaseKept
<1>8. ASSUME NEW t \in Thread, Rename(t)
      PROVE  StoreInv'
  <2>1. Ends(t) /\ task[t].at = "rename" /\ UNCHANGED <<kind, aside, harmed>> /\ file'.is = "log"
    BY <1>8 DEF Rename, Holding
  <2>2. \A u \in Thread \ {t} : task[u].at \notin InUpdate
    BY <2>1 DEF Locked
  <2> QED BY <2>1, <2>2, EndsKeeps DEF Shape, Locked, Changing, Harmed, BaseKept, NoTask
<1>9. ASSUME NEW t \in Thread, WriteFails(t)
      PROVE  StoreInv'
  <2>1. Ends(t) /\ UNCHANGED <<kind, file, aside, harmed>>
    BY <1>9 DEF WriteFails
  <2> QED BY <2>1, EndsKeeps DEF Shape, Locked, Changing, Harmed, BaseKept, NoTask
<1>10. CASE Damage
  BY <1>10, BoundsAssumption DEF Damage, Shape, Locked, Changing, Harmed, BaseKept, Damaged
<1>11. CASE Crash
  BY <1>11 DEF Crash, Shape, Locked, Changing, Harmed, BaseKept, NoTask
<1>12. CASE UNCHANGED storeVars
  BY <1>12 DEF storeVars, Shape, Locked, Changing, Harmed, BaseKept
<1> QED
  BY <1>1, <1>2, <1>3, <1>4, <1>5, <1>6, <1>7, <1>8, <1>9, <1>10, <1>11, <1>12 DEF StoreNext

\* The first state of a store's file is an empty log.
LEMMA Starts == StoreInit => Kept!Start
BY DEF StoreInit, NoFile, Kept!Start

\* A command about to swap its file in has made it from what the log may be changed from.
LEMMA BaseAllowed ==
    ASSUME StoreInv, NEW t \in Thread, task[t].at = "rename"
    PROVE  task[t].base \in Kept!Bases /\ task[t].change \in ChangeTo(kind)
BY DEF StoreInv, BaseKept, Changing, InUpdate, Kept!Bases

\* Every step of the file is a whole change of the log, its loss, its giving up, or leaves
\* the log as it was.
LEMMA StepsAreWhole ==
    StoreInv /\ [StoreNext]_storeVars
        => [Kept!Commit \/ Kept!Harm \/ Kept!GiveUp]_<<kind, file.log, aside, harmed>>
<1> SUFFICES ASSUME StoreInv, [StoreNext]_storeVars
             PROVE  \/ Kept!Commit \/ Kept!Harm \/ Kept!GiveUp
                    \/ UNCHANGED <<kind, file.log, aside, harmed>>
  OBVIOUS
<1>1. ASSUME NEW t \in Thread, NEW change \in ChangeTo(kind), Update(t, change)
      PROVE  UNCHANGED <<kind, file.log, aside, harmed>>
  BY <1>1 DEF Update
<1>2. ASSUME NEW t \in Thread,
             Load(t) \/ Read(t) \/ QuarantineFails(t) \/ WriteTemporary(t) \/ WriteFails(t)
      PROVE  UNCHANGED <<kind, file.log, aside, harmed>>
  BY <1>2 DEF Load, Read, QuarantineFails, WriteTemporary, WriteFails
<1>3. ASSUME NEW t \in Thread, ReadFails(t)
      PROVE  Kept!Harm
  BY <1>3 DEF ReadFails, Kept!Harm
<1>4. ASSUME NEW t \in Thread, Quarantine(t)
      PROVE  Kept!GiveUp \/ UNCHANGED <<kind, file.log, aside, harmed>>
  <2>1. harmed /\ UNCHANGED <<kind, harmed>> /\ file'.log = <<>>
    BY <1>4 DEF StoreInv, Harmed, Quarantine, MoveAside, NoFile
  <2>2. CASE file.is = "log"
    BY <1>4, <2>1, <2>2 DEF Quarantine, MoveAside, Kept!GiveUp
  <2>3. CASE file.is # "log"
    BY <1>4, <2>1, <2>3 DEF Quarantine, MoveAside, StoreInv, Shape
  <2> QED BY <2>2, <2>3
<1>5. ASSUME NEW t \in Thread, Rename(t)
      PROVE  Kept!Commit \/ UNCHANGED <<kind, file.log, aside, harmed>>
  <2>1. file'.log = Apply(kind, task[t].change, task[t].base) /\ UNCHANGED <<kind, aside, harmed>>
    BY <1>5 DEF Rename, Holding
  <2>2. task[t].base \in Kept!Bases /\ task[t].change \in ChangeTo(kind)
    BY <1>5, BaseAllowed DEF Rename
  <2> QED BY <2>1, <2>2 DEF Kept!Commit
<1>6. CASE Damage
  BY <1>6 DEF Damage, Damaged, Kept!Harm
<1>7. CASE Crash
  BY <1>7 DEF Crash
<1>8. CASE UNCHANGED storeVars
  BY <1>8 DEF storeVars
<1> QED
  BY <1>1, <1>2, <1>3, <1>4, <1>5, <1>6, <1>7, <1>8 DEF StoreNext

\* Whatever threads, crashes and failures do to one another, a store's file is a log that is
\* changed by one whole change at a time, each made to what it holds then (persist.rs
\* atomic_write, quarantine_corrupt; json_store.rs update).
THEOREM FileIsKept == StoreSpec => ChangesAreWhole
<1>1. StoreSpec => []StoreInv
  BY StoreInvInit, StoreInvNext, PTL DEF StoreSpec
<1> QED BY <1>1, Starts, StepsAreWhole, PTL DEF StoreSpec, ChangesAreWhole, Kept!Spec
=============================================================================
