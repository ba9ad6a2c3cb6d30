---------------------------- MODULE StoreChanges ----------------------------
(***************************************************************************)
(* What the commands change in the stores that keep data per connection:   *)
(* the query, SQL, shell, row and collection histories, the stores of one  *)
(* value per key (tags, default queries, watermarks) and the error log.    *)
(* Each is one list of entries here, newest first unless its code keeps it *)
(* the other way round; a store keyed by a tree path is the list of all    *)
(* its keys' entries, told apart by their key.                             *)
(***************************************************************************)
EXTENDS Naturals, Sequences, SequencesExt, FiniteSetsExt

CONSTANTS
    Kind,           \* the stores looked at
    Key,            \* the connections (or collections of them) entries belong to
    Text,           \* what a run, a command or a change says
    Size,           \* how large a changed document can be
    MaxEntries,     \* MAX_HISTORY, MAX_ENTRIES, MAX_RECORDS
    MaxImage,       \* max_pre_image_bytes
    MaxTotal        \* max_total_bytes

ASSUME LimitsAssumption ==
    /\ Kind \subseteq {"query", "sql", "shell", "row", "collection", "error", "keyed"}
    /\ Size \subseteq Nat
    /\ MaxEntries \in Nat \ {0} /\ MaxImage \in Nat /\ MaxTotal \in Nat

\* A change to a document keeps the document as it was, unless that was dropped.
Entry  == [key : Key, text : Text, image : Size \cup {0}, dropped : BOOLEAN]
Change == [do : {"push"}, entry : {e \in Entry : ~e.dropped}] \cup [do : {"purge"}, key : Key]

\* Only a changed document has a size to keep within limits.
ChangeTo(kind) ==
    {c \in Change : kind = "collection" \/ c.do = "purge" \/ c.entry.image = 0}

Prefix(list, n) == SubSeq(list, 1, Min({n, Len(list)}))
Suffix(list, n) == SubSeq(list, Max({1, Len(list) - n + 1}), Len(list))

Under(list, k)   == SelectSeq(list, LAMBDA e : e.key = k)
Without(list, k) == SelectSeq(list, LAMBDA e : e.key # k)
Unlike(list, e)  == SelectSeq(list, LAMBDA x : x.text # e.text)

\* Running a query again moves it to the top of its collection's history.
PushQuery(list, e) ==
    Prefix(<<e>> \o Unlike(Under(list, e.key), e), MaxEntries) \o Without(list, e.key)

PushSql(list, e) == PushQuery(list, e)

\* Shell commands are kept oldest first.
PushCommand(list, e) ==
    Suffix(Append(Unlike(Under(list, e.key), e), e), MaxEntries) \o Without(list, e.key)

\* A store of one value per key, whose older value goes.
Put(list, e) == <<e>> \o Without(list, e.key)

PushRow(list, e) == Prefix(<<e>> \o list, MaxEntries)

PushError(list, e) == Suffix(Append(list, e), MaxEntries)

\* A document over the cap is not kept, but its change is.
Capped(e) == IF e.image > MaxImage THEN [e EXCEPT !.image = 0, !.dropped = TRUE] ELSE e
Bytes(list) == FoldLeft(LAMBDA sum, e : sum + e.image, 0, list)

\* The newest change stays, even alone over the budget.
PushChange(list, e) ==
    LET all == Prefix(<<Capped(e)>> \o list, MaxEntries)
    IN  Prefix(all, Max({n \in 0..Len(all) : Bytes(Prefix(all, n)) <= MaxTotal} \cup {1}))

Push(kind, list, e) ==
    CASE kind = "query" -> PushQuery(list, e)
      [] kind = "sql" -> PushSql(list, e)
      [] kind = "shell" -> PushCommand(list, e)
      [] kind = "row" -> PushRow(list, e)
      [] kind = "collection" -> PushChange(list, e)
      [] kind = "keyed" -> Put(list, e)
      [] kind = "error" -> PushError(list, e)

\* remove_connection, clear and clear_for; the error log is cleared as a whole.
Purge(kind, list, k) == IF kind = "error" THEN <<>> ELSE Without(list, k)

Apply(kind, change, list) ==
    IF change.do = "push" THEN Push(kind, list, change.entry) ELSE Purge(kind, list, change.key)
=============================================================================
