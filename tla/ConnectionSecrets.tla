-------------------------- MODULE ConnectionSecrets -------------------------
(***************************************************************************)
(* What a device keeps of its connections, the records in connections.json *)
(* with a cache in front and the secrets in the keychain, as the commands  *)
(* and the sync leave them (Connections), and what must be true of the two *)
(* together (src-tauri/src/storage/mod.rs, keychain.rs, sync/snapshot.rs). *)
(***************************************************************************)

CONSTANTS
    None,           \* no secret, no folder, no holder of a lock
    Uncached        \* the cache is empty

VARIABLES
    disk, cache,    \* connections.json and Storage::cache, by connection
    ring,           \* the keychain, by connection
    secrets_lock,   \* who holds Storage::secrets
    failures,       \* the writes and keychain calls that failed, and the crashes
    typed,          \* per connection, the secret last typed here, and the stamp of the newest
                    \* change here that left it so
    torn            \* whether a sync ever read an edited record without the edit's secret

\* What Storage reads: the cache, or the file when there is none.
Current == IF cache = Uncached THEN disk ELSE cache

\* A deleted connection leaves no secret in the keychain, however its deletion, an edit
\* and a sync that brings a newer one overlap, unless the keychain refused, the app was
\* killed or a sync read a torn edit (with_secrets_locked in delete_connection, save_edit
\* and the sync).
DeletedKeepsNoSecrets ==
    failures = 0 /\ ~torn /\ secrets_lock = None =>
        \A i \in DOMAIN ring : Current[i].deleted => ring[i] = None

\* A secret typed into an edit here is the one the keychain holds until another device
\* changes the connection, or an edit here its secret: "an edit can't slip in between and
\* have its typed secrets overwritten" (sync/snapshot.rs, write_if_unchanged).  The code
\* does not keep this: a sync may read the edit's record before its secret is written.
TypedSecretLasts ==
    failures = 0 /\ secrets_lock = None =>
        \A i \in DOMAIN ring :
            ~Current[i].deleted /\ typed[i].updated_at = Current[i].updated_at
                => ring[i] = typed[i].secret

\* That torn read is the only way to lose a typed secret: every other overlap of edits,
\* moves, deletions, syncs and other devices' changes keeps it with its record.
TypedSecretLastsUnlessTorn == ~torn => TypedSecretLasts

=============================================================================
