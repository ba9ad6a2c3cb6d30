---------------------------- MODULE AccountData -----------------------------
(***************************************************************************)
(* What the server keeps of an account's sync data, as the commands of a   *)
(* device leave it (SyncAccount), and what must be true of it: that its    *)
(* user can still read it, and nobody else (src-tauri/src/sync/setup.rs,   *)
(* keys.rs, account.rs).                                                   *)
(***************************************************************************)

CONSTANTS
    Account,    \* the accounts of the server
    None        \* what is absent

VARIABLES
    sealed,     \* sealed[a]: the key account a's data on the server is sealed with (data),
                \* and the key its wrapped copies there hold (lock)
    made,       \* made[k]: the account key k was made for
    raced,      \* whether a command has ever started while another ran
    torn        \* whether a data key was ever saved beside another key's wrapped copies

\* Data under another key "must never end up locked with this one: nobody could read it
\* any more" (setup.rs:153-154).  The code breaks this where a data key is saved beside
\* another key's wrapped copies: a pass that finds the server empty sends it both.
NobodyIsLockedOut == \A a \in Account : sealed[a].lock = sealed[a].data

\* Until a data key is saved that way, the wrapped copies the server holds are of the key
\* the data is sealed with, whatever was set up, reset or locked anew from where, over
\* which other command (setup.rs relock, first_upload; keys.rs save, forget).
DataStaysReadable == ~torn => NobodyIsLockedOut

\* An account's data is sealed with a key made for that account, so no password of
\* another opens it, while no commands overlap (setup.rs PendingSetup, account.rs forget).
SealedForItsAccount ==
    ~raced => \A a \in Account : sealed[a].data # None => made[sealed[a].data] = a

=============================================================================
