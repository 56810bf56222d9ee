# Clavix in TLA+

Clavix is a desktop client for Bitwarden-compatible password servers: a Tauri
application with a Rust back end (`src/src-tauri/`, with a `core` crate that
knows nothing of Tauri) and a Svelte front end (`src/src/`). This directory holds
TLA+ models of the parts whose correctness is a matter of *order* - commands that
run concurrently over shared slots, tasks on timers, answers that come late -
with the TLC configurations that check them and proofs that TLAPS checks.

Contents: [inventory](#inventory), [what is hard](#what-is-hard),
[modules](#modules), [runs](#runs), [findings](#findings), [proofs](#proofs),
[what is not modelled](#what-is-not-modelled), [plan](#plan).

Paths below are relative to `src/`. `core/` is short for `src-tauri/core/src/`,
`cmd/` for `src-tauri/src/commands/`, `app/` for `src-tauri/src/`.

## Inventory

Every Tauri command is an async function on a multi-threaded runtime. They share
one `AppState` (`app/state.rs`), whose slots are separate `parking_lot` mutexes. A
command locks a slot for a *window*, never across an await of the network, the
authenticator or the window; between two windows any other command may run.
(`lock`, `logout` and `load_cached_vault` are not `async` and await nothing.)

| Component | State | Operations | Talks to | Correct when |
|---|---|---|---|---|
| Session slot, authentication (`cmd/auth.rs`, `core/services/auth.rs`, `core/session.rs`, `cmd/standalone.rs`) | `session`: client, tokens, deadline, keys, decrypted vault; `pending_2fa`: derived key waiting for a second factor | login, second factor, cancel, unlock (password, Yubikey, offline), lock, logout, open export, token refresh at the head of every API command | server, session.json, watchdog | a session is one account's; a read-only vault never writes; no request without a writable vault |
| Persisted session (`core/store.rs`) | session.json, device id | load, save (write and rename), clear | every login, unlock, refresh, enrolment | address, wrapped key, token and wrap belong together after any crash |
| Auto-lock (`app/auto_lock.rs`, `app/screen_lock.rs`) | setting, last activity, time the screen was seen locked | idle watchdog, screen poller, `set_auto_lock`, `mark_activity` | session slots, SSH agent, D-Bus | a vault closes within its window plus the periods; an abandoned prompt is wiped |
| Yubikey unlock (`app/yubikey_unlock.rs`, `app/webauthn.rs`) | the wrap in session.json | enrol, disenrol, unlock | authenticator | a wrap opens only the account it is stored with |
| SSH agent (`app/ssh_agent.rs`, `cmd/ssh.rs`, `SshConfirmDialog.svelte`) | handle slot, socket file, accept loops, connection tasks, approvals, confirmation map, dialog queue | start, stop, stop on lock, list, sign, ask, answer, time out | session slot, window | no signature without consent; no socket nobody can shut; every client hears something |
| Vault sync (`cmd/vault.rs`, `core/services/vault.rs`) | decrypted vault in the session | sync, load cache, folder create and delete, summary | server, cache | the open vault is one the server has had; answers apply to the session that asked |
| Move, share, folder rename (`cmd/move_share.rs`) | the same, operation log | move to folder or collection, share, rename a subtree | server, cache | a partial failure leaves something the next sync repairs |
| Local cache (`core/cache.rs`) | SQLite: vault blob per account, snapshots, operation log | save, load, clear, log | vault commands | nothing is left after logout; each blob opens with its account's key |
| Cipher commands and bodies (`cmd/cipher.rs`, `core/services/cipher.rs`) | the items of `Session.vault`, requests in flight | create, update, delete, duplicate, trash, restore, attachments, reading and revealing, the request bodies | server, session | every part of an item is under the key its owner and its wrapped key lead to; a save loses nothing |
| HTTP client (`core/api.rs`, `core/client.rs`) | none | one request each | server | requests and answers are formatted as the server expects |
| Cryptographic primitives (`core/crypto.rs`) | none | AES, RSA, KDFs, HKDF | - | a ciphertext opens with its key only |
| Export files (`core/export.rs`, `cmd/export.rs`) | a file | re-encrypt the vault under a fresh key, seal, open, read back | session | what comes back is what was there; a damaged file is refused |
| Bulk import, CSV (`cmd/import.rs`, `src/lib/csv.ts`, `src/lib/import.ts`) | an import in progress | create items in bulk | cipher commands | a failed row is reported and loses no other |
| Audit (`core/audit.rs`, `cmd/audit.rs`) | none | reused and breached passwords | session, breach list | it looks at the items the detail view shows |
| Strength, TOTP, update check | none | pure functions, single requests | server | scores, codes |
| Tray and window (`app/tray.rs`, `app/lib.rs`) | menu, visibility | show, hide, lock | session slot | lock from the tray is the lock command |
| Front-end stores (`src/lib/*.svelte.ts`) | the vault shown, timers, clipboard | sync, optimistic updates, auto-sync, clipboard clearing | commands | what is shown converges to the back end's vault |
| Front-end helpers and views | none / local | the folder tree, filters, formatting | stores | tree contains every folder once |

`PROJECT.json` lists the same components with their status.

## What is hard

The hazards in `PROJECT.json` name the lines. In groups:

* **State read before an await and used after it.** The token refresh, both
  unlocks, the enrolments, the second factor, sync and the renames all take a
  copy, wait for seconds, and then act on whatever the slots hold by then.
* **Windows that look like one step.** `open_export_file` checks and stores in
  two windows; `start_ssh_agent` takes the old handle, reads keys, unlinks, binds
  and stores in five; `disenroll` reads a file and writes the reading back.
* **Tasks against commands.** The watchdog and the screen poller race setting
  changes, unlocks that have stored but not yet marked activity, and each other.
* **Two programs exchanging messages.** The SSH agent and the dialog each have
  their own 30 s timer; events, answers and timeouts cross.
* **Crashes.** session.json and the cache are all that survives; the refresh token in
  session.json is rotated by the server.
* **Partial failure.** Renames, shares, uploads and imports are many requests.
* **Keys.** An item's parts are under the user's key, an organisation's or the item's
  own; updates, copies, shares and exports each pick keys, from a copy of the item that
  may be behind the server's.

## Modules

| Module | Lines of code it models | What it is |
|---|---|---|
| `AuthSession` | `cmd/auth.rs`, `cmd/standalone.rs`, `core/services/auth.rs`, `core/session.rs`, `core/store.rs` | session, parked login and session.json under concurrent commands |
| `WriteGate` | `core/session.rs`, `core/services/auth.rs` | abstract promise of the slot: requests leave only while a writable vault is open |
| `MCAuthSession` | - | instances of `AuthSession` for TLC |
| `AuthSessionProofs` | - | theorems on `AuthSession` |
| `AutoLock` | `app/auto_lock.rs`, `cmd/auth.rs`, `core/session.rs`, `app/screen_lock.rs` | watchdog and poller in discrete time |
| `AutoLockProofs` | - | theorems on `AutoLock` |
| `SshConfirm` | `cmd/ssh.rs` (confirmation), `SshConfirmDialog.svelte` | the handshake between agent and window |
| `SshAgent` | `app/ssh_agent.rs`, `cmd/ssh.rs`, `auto_lock.rs`, `cmd/auth.rs` (the stop of a lock) | extends `SshConfirm` with runs, connections, socket path and commands |
| `MCSshAgent` | - | an instance of `SshAgent` for TLC, in three scenes |
| `SshAgentProofs` | - | theorems on `SshAgent` |
| `VaultSync` | `cmd/vault.rs` (sync, create_folder, load_cached_vault), `core/cache.rs`, `cmd/auth.rs`, `cmd/standalone.rs` | the vault in memory and its encrypted copy, under syncs, edits, sign-ins, locks and logouts |
| `VaultSyncProofs` | - | theorems on `VaultSync` |
| `Folders` | `cmd/vault.rs` (create, delete, rename), `cmd/move_share.rs` (move to folder, the cascade renames), `core/services/vault.rs` (paths), `core/cache.rs` (operation log) | personal folders and the rename of a subtree, request by request |
| `MCFolders` | - | instances of `Folders` for TLC |
| `FoldersProofs` | - | theorems on `Folders` |
| `CipherKeys` | `core/services/cipher.rs`, `core/crypto.rs`, `core/models.rs` | what is under which key: items, request bodies and the functions that build them, as operators |
| `CipherViews` | the reading half of `cmd/cipher.rs`, `core/services/vault.rs` (summary), `cmd/ssh.rs` (key load), `core/audit.rs`, `core/export.rs` | what the reading commands, the audit, the agent and the export make of a vault, as operators |
| `Ciphers` | the writing half of `cmd/cipher.rs`, `cmd/move_share.rs` (share, move to a collection), `core/cache.rs` (snapshots), `core/api.rs` (item and attachment requests) | extends both: item commands window by window, with the server and other clients |
| `MCCiphers` | - | instances of `Ciphers` for TLC |
| `CiphersProofs` | - | theorems on `Ciphers`: keys, copies, files stored, snapshots |
| `CipherContentsProofs` | - | theorems on what `Ciphers`' items say: readers, exports, updates, shares, files |
| `PacedWriter` | `src/lib/ImportDialog.svelte` (the comment and the loop) | abstract promise of a bulk writer to a server that pushes back |
| `Import` | `src/lib/ImportDialog.svelte`, `csv.ts`, `vault.svelte.ts` and `auto-sync.svelte.ts` (the list and its syncs), `src/routes/+page.svelte` | a bulk import, request by request, over a list that changes |
| `MCImport` | - | an instance of `Import` for TLC |
| `ImportProofs` | - | theorems on `Import` |

Definitions headed "Slip" are forms that a plausible bug would give the
definition after them. They are not used by any action; replacing the real
definition by its slip must break a property, which shows that the property
depends on that line of the code.

### AuthSession

An **account** stands for server, email and user key together, so code that
mixes two accounts shows as a record with two names in it. `session` is
`AppState.session` (origin, client, tokens, deadline, key), `pending` is
`AppState.pending_2fa`, `file` is session.json, `calls[c]` is an invocation: the
step it has reached and the local variables it holds. `issued` counts the
server's refresh tokens; a token is an account and a number.

Each lock window, file operation and awaited answer is one action. `login` is
`LoginStart`, then one of `LoginSuccess` (pending slot emptied and session.json
written), `LoginTwoFactorRequired`, `LoginUnusable`, `RequestFails`, then
`StoreSession`. `unlock` is `UnlockStart` (the file, the key derivation and the
token), then `UnlockOnline` or `UnlockOffline`. `unlock_with_yubikey` joins it
after `YubikeyReleased`. An API command is `ApiStart` (firewall and deadline),
`ApiRefreshed`, `ApiSeal`, `ApiApply`, `ApiLoad`, `ApiSave` - the windows of
`ensure_fresh_tokens` - then `ApiTake`, where client and access token are read
again, and `ApiDone`. `Crash` loses memory and every call; the file stays, being
replaced by rename.

Abstractions. The KDF and the decryptions are what they allow: a key opens what
it sealed. `lock`, `lock_session` and `lock_now` empty the two slots in two
windows; no command reads both, so `Lock` is one step. Deadlines are "none",
"fresh" and "due". Every account is taken to have an RSA key pair, which every
account made by these servers has; without one `decrypt_private_key` is skipped and
only the token field authenticates the wrap. A session.json holding the token
both sealed and in clear is normalised to the sealed one, as `load_session`
does. The branch of `unlock_with_yubikey` that drops a wrap whose fingerprint
differs is left out: the fingerprint is computed from the key that is wrapped, so
for a file this program wrote it never differs. A refresh can leave a deadline
on a session with no tokens; it is in the model, and harmless, since the
firewall asks for tokens too.

`WriteGate` has a slot that is closed, read-only or writable and the set of
requests that are out. `AuthSession!Gate` maps the session's origin to the slot
and the calls at `"api.sent"` to the requests; `ImplementsWriteGate` says that
the detailed machine implements it.

### AutoLock

`open`, `parked`, `setting`, `idle`, `since` are slots of `AppState`, times
being ages; `task` is where the watchdog and the poller stand; `marking` is an
unlock between storing its session and marking activity, `switching` a
`set_auto_lock` between storing the setting under one lock (`SetAutoLock`) and dropping
the countdown under another (`DropCountdown`): the watchdog and the poller run in both
gaps. `due` is `Due`, `lock_now` is `DropPending` then `CloseVault`.

The second gap is visible. The comment there has it that "Switching triggers must not
inherit the other mode's countdown" (`cmd/auth.rs:591-593`); in between, the new trigger
can meet what a probe in flight left behind under the other one, and with the immediate
window it closes the vault on it. `SwitchStartsAfresh` says how far that goes: an
observation no older than one sleep of the poller, and nothing once the command is
through.

Time is discrete: a task that is not asleep or waiting for the screen probe runs
before the next `Tick`, as is `set_auto_lock` between its locks: their steps take
microseconds, the periods are seconds.
`ProbeMax` is the sum of the D-Bus timeouts of one probe, so it may answer late
or not at all. Stopping the agent in `lock_now` is taken as instantaneous.
`exposed`, `steady` and `triggerFor` are histories of the environment, read by
the properties only. `set_auto_lock` treats a nonsense screen-lock window as
0, which means "immediately"; the renderer offers no such value, so `Minutes`
holds what it offers, plus one window past `MAX_WINDOW_MINUTES`, which a restored
preference could hold.

### SshConfirm, SshAgent

`SshConfirm` is the handshake: `Request` gives out an id, parks its channel in
`confirms` and emits the event (one step, because nobody knows the id before the
event leaves); `EventArrives`, `Responds` and `ShowsNext` are the dialog's
listener and the two halves of `respond()` around its await; `BackendResponds` is
`respond_ssh_agent_confirm`. A denial is the button, Esc, the dialog's timer or
the close event, including a stale close event.

`SshAgent` extends it with `runs` (accept loop, policy and approvals of each
agent), `slot` (the stored handle), `path` (what agent.sock leads to; 0 is the
file of an earlier process), `calls` (start, stop and lock, window by window) and
`conns` (connection tasks). Aborting the accept loop is taken as immediate; the
connection tasks go on, as they do in the code. The policy is an argument of
start and is chosen where it is first used. Reset of a consumed one-shot channel,
the skip list, the 300 ms arming delay and key data are left out. The dialog's
30 s have no clock in the model: a denial may come at any time, so a queued prompt
that outlives the client's 30 s is a behaviour.

### VaultSync

`session` is the session slot reduced to what a vault depends on: the account its
client talks to, its key and its vault. `stored` is the account session.json
names, `cache` the vault_cache table (a blob, that is a key and a vault, per
account), `made` the server's side: which account's server has accepted which
change. A vault is the set of changes it shows. `calls[c]` is an invocation as in
`AuthSession`.

`sync` is `SyncStart`, `ServerAnswers`, then one window of the session lock. That window
is two steps, `SyncApplies` (up to the reading of session.json and the encryption) and
`SyncSaves` (the row and the vault in memory), with the lock held in between as the
variable `holder`: `logout` removes session.json and empties the cache outside the lock,
so it can run between them if it has passed the slot. Every other window is one step and
asks for `holder = None`. A failing cache write is swallowed by the code and leaves the
row as it was (the first disjunct of `SyncSaves`). `create_folder` is `EditStart`,
`ServerAccepts` (whether or not the answer arrives) and `EditSplices` into whichever vault
is open then; it stands for every command that asks the server and then splices. `logout`
is `LogoutStart`, `LogoutForgets` (whose error ends the command) and `LogoutClears`, whose
failing `clear_all` is logged and no more: the logout succeeds with the vault still cached
(`cmd/auth.rs:645-647`). It is not `async`, so the window hands over no other command
before it is done: `OpeningStarts` keeps sign-ins from *starting* between its steps; those
already in flight go on. `gone`, `alone` and `wiped` are histories: a logout has returned
and no sign-in began since; no sign-in was in flight when it began; its `clear_all`
succeeded. `SpecWithAccount` is an app that finds session.json of an earlier run, which
its first `UnlockStart` reads.

Abstractions. All accounts are on one server, so `ensure_server_matches_active_session`
asks only whether the open session has a client. Login, the second factor and the
two online unlocks meet in `OpenSaves` and `OpenStores`, their last two steps. Tokens,
organisation keys and the summary are left out.

### Folders

One account: `server` is its folders and where the server has its items, `vault`
and `cache` are `Session.vault` and the saved copy of the last sync, `log` is
the table folder_op_log, `calls[c]` an invocation. A path is a sequence of
segments; `IsUnder`, `MayMove`, `MovedBase`, `Rebased` and `Plan` are the functions
of `core/services/vault.rs` over it. An entry of `vault.folders` says which folder it
is of, the name, whether that is stored encrypted or in the clear (create_folder
and rename_folder stamp the clear text), and whether a sync listed it or
create_folder pushed it. A folder can be listed twice, by both: create_folder
pushes without looking. Pushed entries stand behind listed ones, so a search finds
the listed one (`Found`), and of two renamings of one folder the pushed entry's is
sent last and wins (`Outcome`).

create_folder, delete_folder, rename_folder and move_cipher_to_folder are each three
steps: the window that takes the client (`...Start`), the server (whose answer may
be lost: it took the request and the invocation returns an error), and the splice
into whatever vault is open then. `apply_folder_path_rename` is `BatchStart` (the plan),
`BatchReads` (the second window, which reads the original names), `BatchSaves` (the
transaction, which fails when the plan has a folder twice, and whose failure is not
fatal), then for each renaming `BatchSends`, `ServerRenamesNext`, `BatchMarks` (not
fatal either), and `BatchSplices` when every request was answered. `RequestFails` is the
`?` of every request. `Logout` is one step, whose windows are in `VaultSync`; its
`clear_all` may stop before the cache or between the cache and the log. Refreshing
tokens before a command is `AuthSession`'s.

The front end names only folders it has seen (`Known`); items exist throughout.
`Paths` bounds the names, `Typed` those a user types, `MaxCommands` the commands that
change something; syncs are not bounded. `had[f]` is a history: the names the server
has had for f. Not in the model: a second account, other clients of the same account,
and the favourite flag.

### CipherKeys, CipherViews, Ciphers

A ciphertext is a record of the key it is under and the text in it; an organisation's id
stands for its key. An item has an owner (the user or an organisation), perhaps a key of
its own (`wrap`, which says under which key it is wrapped), five parts that stand for
its fields, a password history, and files. The parts are what the code treats apart:
the name, which no item lacks; the password, which updates push into the history; the
TOTP seed; a secret revealed on demand; and any other field. `whole` says that the
sub-object its kind calls for is there (`cipher.login` for a login, and so on). A file is
an id and its `cover`: the key its file key and name are under. `Session` is
the ring of keys of a session: the user's, and those of the organisations in `Held`, which
is constant.

`OwningKey`, `ItemKey` and `CipherKey` are `owning_key`, `item_key` and the choice every
reader makes of them, degradations included (no organisation key: the user key; a wrapper
that does not open: the owner's key). `RealKey` is the same choice with every
organisation's key at hand, which is what the members' clients find. `BuildCipherBody`,
`BuildUpdateCipherBody`, `CipherToCreateInput` and `BuildShareCipherBody` are the
functions of those names; None is their Err.

In `Ciphers`, `server` is what the server has of each id, `vault` and `cache` as in
`Folders`, `snaps` the table cipher_snapshots, `bytes` the attachments whose data has
arrived, `taken` the file ids and item keys given out. Each command is the
window that takes the client and builds the request (`...Start`), the server, and the
splice into whatever vault is open then. `share_cipher_to_collection` has two steps more
(`ShareSaves`, `ShareMarks`: the snapshot, neither of whose writes is fatal), and
`upload_attachment` two requests (`ServerMakesSlot`, `ServerStores`). `soft_delete_cipher`,
`restore_cipher` and `delete_cipher` do not look at the vault. `RequestFails` is the `?`
of every request, whether or not the server took it, and a session that closes before
the splice. `OtherClientEdits` and `OtherClientWraps` are other clients of the account or
of the organisation, who may read with `Everyones` keys: a new password, pushed into the
history, or a key of its own for the item.

The server is external and is modelled from what `core/api.rs` sends and
expects: a PUT replaces the item but for its files, its collection (unless
it is a share) and whether it is in the trash; an item of an organisation cannot be
written with a body that names another owner; ids are not given again. It does not look at
revision dates, since the client sends none.

What a PUT without a `key` does to an item that has one cannot be told from the client's
code, which relies on neither answer: the history it must echo or lose has replace
semantics (`core/services/cipher.rs:237`), while for the key a comment says that writing
under the owning key "would leave the server's `key` in place and make the item
undecryptable for every client" (`cmd/cipher.rs:468-472`). `KeptWraps` lets the server do
either at each request, and `lost` has the items whose key it kept under a body without
one. `ServerItemsOpen` and `MemoryIsWhole` except `lost`, so they say that a lost key is the
one way to lock anybody out; on a server that takes the key away `lost` stays empty and
they hold of every item. Two kinds of request put an item in `lost`: an update or a share
built before another client gave the item a key of its own (no revision date is sent, so the
server cannot refuse it), and `update_login_cipher`, which no caller uses any more, of an
item with a key. What the comment is about - an update that forgets the key of an item
that memory has up to date - is caught whatever the server does: the first conjunct of
`PasswordsAreKept` has such an item open afterwards, under the key it was under.

Abstractions. An editor keeps the kind of the item it opened (a guard of `UpdateStart`);
that then no item ever changes its kind, nor is held for one of another, is proved
(`KindsFit`). `create_login_cipher` and
`update_login_cipher`, which no caller uses any more, take personal items only. The
older response parsing, icons, URIs and dates are left out; folder and favourite are
`Folders`'. Only one way an SSH key is skipped for its form is kept (no private
key); a PEM that cannot be parsed and an unsupported algorithm are further reasons of the
same branch. The push of `create_cipher` onto a vault that a sync has already brought the
item into would list it twice; every command finds the first, which is the one the model
keeps. An export file's key is its password, salt and cost; a file whose header
authentication is damaged is told as a wrong password, as in `open`. The folders
and collections of a vault are not part of `Ciphers`' state: `FolderLists` and
`CollectionLists` are the ones an export is checked with, each over every vault reached.
`BuildExport` re-encrypts their names and fails when one does not open, but for those of an
organisation without a key, which it leaves.

### PacedWriter, Import

The front end has one thread; what interleaves are its awaits. `list` is
`VaultController.summary`, which the dialog is handed as `existing` and `folders`; `syncs`
are calls of `VaultController.sync` (one may be asked for while another is out, and
each clears `syncing`), `cached` is the back end's saved listing, `dialog` the rows in the
open dialog, `run` startImport's local variables and its place in the loop: before a row,
waiting for create_folder or create_cipher, in the pause after a 429, over. `items` and
`folders` count what the server has of each identity and each name. `blind` is a history:
what a run could not know the server had, because the list did not show it when the run
began or because a folder's creation was answered with an error.

`NewEntries` is the preview's filter, `Start` the copy startImport takes of the ticked
rows and of the folders' names, `NextRow` and `FolderDone` the folder's part of a turn,
`BackOff`, `Retry` and `RowDone` the retry loop and what follows it, `RunDone` the page's
onDone. `ServerMakesItem` and `ServerMakesFolder` may answer with an error what they did
(the answer was lost); `ServerDeclines` is a failure, a 429 or a 403. A lock empties the
list and lets the dialog and its loop run on, whose remaining rows then fail one by one;
a sync's answer that comes after the lock fills the list again.

`PacedWriter` has where the writer stands with the server, how many 429s it has had in a
row, and its spacing. `ImplementsPacedWriter` maps the run to it: `Stand`, `SlowInARow`.

Abstractions. A row is its import identity and its group; which fields go where is left
out, as is the folder an item ends in. The parsers (CSV, KDBX, an encrypted export) are
the choice of a file's rows in `PickFile`, and decrypting is instantaneous. `grouped` is
"create folders" with a personal destination. Group names are taken to be trimmed, as
the CSV reader makes them; create_folder trims, so a KDBX group with blanks around its name
gets a new folder in every import. There is one account: the rows left when a lock and a
sign-in to another account fall into a run would be created there. A request out when the
process ends has been answered before or never arrived.

## Runs

All runs finish in under three minutes with two workers.

| Run | Instance | Checks | Shows |
|---|---|---|---|
| `auth_accounts` | 2 accounts on one server, 2 calls, every command, 1 rotation per account | `TypeOK`, `SessionIsOneAccount`, `FileIsOneAccount`, `ImplementsWriteGate`, `PlaintextNeverReturns` | no interleaving of two commands with locks, logouts and crashes mixes accounts, though wraps of a foreign key get stored, or lets a request out of a read-only vault; a sealed token comes back in clear only by a stale write of a Yubikey command |
| `auth_stored_token` | 1 account | `StoredTokenOpens`, violated | finding 1 |
| `auto_lock` | periods 2 and 1, probe 1, TTL 3, windows 0, 2 and one past the maximum | `TypeOK`, `AbandonedPromptIsWiped`, `IdleLockIsTimely`, `ScreenLockIsTimely`, `SwitchStartsAfresh`, `StaleObservationIsDropped` | the bounds on both triggers, whatever commands and setting changes do |
| `ssh_agent` | three scenes: two commands and 2 runs with one connection that asks nothing; one command, 2 runs, one connection and 2 requests; one command, 1 run, 2 connections and 3 requests | `TypeOK`, `SignedWithConsent`, `DoorHasAHandle`, `ParkedIsAwaited`, `NoPromptIsStranded`, `EveryAskEnds` | no signature without consent and no socket without a handle, over starts, stops and locks; the handshake loses no entry and no queued request, and every client hears |
| `ssh_locked` | 1 of everything | `LockedVaultSignsNothing`, violated | finding 2 |
| `vault_sync` | 2 accounts, 2 calls, 1 change | `TypeOK`, `CacheStaysCleared`, `ShowsOnlyAccepted` | a logout that emptied the cache leaves no vault behind, and nothing is shown or cached that no server took |
| `vault_logout` | 1 account, named by session.json from the start, 2 calls | `LogoutIsFinal`, violated | finding 3 |
| `folders` | a folder and one under it, room for a third, 1 item, 2 calls, 2 commands | `TypeOK`, `ShowsOnlyServedNames`, `LogIsTrue`, `UnsentIsUnapplied` | a rename that stops half-way leaves memory as it was and a log that tells the truth |
| `folder_log` | the same | `LogIsEncrypted`, violated | finding 5 |
| `ciphers` | 2 items, 2 organisations (the key of one is held), 2 calls, 2 commands, 1 change by another client, 2 files, a server that keeps or takes keys, an export with a folder listed in clear text or not | `TypeOK`, `ServerItemsOpen`, `MemoryIsWhole`, `CopiesAreSeparate`, `UploadedIsStored`, `SnapshotsTellTheTruth`, `ReadersAgree`, `ExportGivesBack`, `PasswordsAreKept`, `ShareKeepsContents`, `FilesKeepOpening` | whatever overlaps, items stay readable and whole, saves lose nothing, and the reading commands and the export agree |
| `cipher_files` | the same | `SharedFilesOpen`, violated | finding 4 |
| `bulk_import` | a file of 3 rows (one twice, one in a folder, one untitled), 1 sync at a time, 2 retries, spacing 200 to 500, 2 copies | `TypeOK`, `NothingTwice`, `ImplementsPacedWriter`, `RunEnds` | over lost, slow and refused answers, syncs, locks and restarts: nothing the dialog could see is made twice, the server is heeded, an answered run ends |

**Bounds.** Two accounts are what a mix-up needs, two calls are what a race needs: each of
the races found has one call in its await and one that changes the slot. `MaxSeq` 1 lets
the server rotate a token once, enough for a stale copy to differ from the current one. A
state constraint of `MCAuthSession` lets the Yubikey commands meet one account only, where
a foreign key already exists, the export file's; every other command meets two.
`MCSshAgent`'s scenes are a state constraint too, so `EveryAskEnds` is checked of the
behaviours that stay in one scene: each scene bounds how many runs, commands and requests
there are, and no step that answers or times out a request leaves it. In `auto_lock` the
periods keep the code's order (poll < watchdog < TTL), the windows contain zero, one that
takes several periods, and one that is refused. Two agent runs and two commands let a stop
unlink what a start has bound; two requests let a late answer meet a newer request; three
let the dialog show one, queue one and receive one. In `vault_sync` one call is in flight
while the other logs out, signs in or edits, with a second account for the answer to land
in; one change is enough to be shown too early. In `folders` the tree has two levels, so a
batch has two requests to stop between; the third id lets create_folder and a sync list a
folder twice; two calls let a sync, a second batch, a deletion or a rename fall between
any two steps of a batch. In `ciphers` the starting items are personal and of an
organisation, with a key of their own and without, with a past password and a file, one in
the trash and one of an organisation whose key the session lacks; two commands and another
client's change between their windows are what a stale request needs; a history of two is
full after two saves; the second file id is the one an upload gives out. `InFolders` has a
folder as a sync brings it and one as create_folder leaves it, `InCollections` a
collection whose key the session has and one whose key it has not. In `bulk_import` a
repeated row, a group and a title-less row are in one file, two retries widen the spacing
to its ceiling, and two copies are one more than there should be; a request for a third is
not answered by making it. A sync asked for while one is out fails at once, so an older
answer replacing a newer one is not in this instance; the theorems cover any number.
`MaxSeq`, `MaxAsks`, `MaxRuns` and `MaxCommands` are guards that stop the counters;
`Horizon` is where ages stop being told apart, and `AutoLock` needs it to be no less than
any honoured window. The theorems hold without these instances.

**Fairness.** `SshAgent` assumes, for `EveryAskEnds`, that the runtime polls connection
tasks that are ready and that their timers fire (weak fairness of their steps); nothing is
assumed about the window or the user. `Import` assumes, for `RunEnds`, that the window's
event loop goes on: its timers fire and an answer that has come is handled (weak fairness
of the loop's steps). Nothing is assumed of the server, whose requests have no timeout;
`RunEnds` excepts the run that waits for ever. The other properties are safety; `AutoLock`
states its promises about time as bounds on ages instead.

## Findings

1. `StoredTokenOpens` - `ensure_fresh_tokens` seals a refreshed token under the key
   of whatever session is open after the await (`core/services/auth.rs:185`), and
   writes it into whatever session.json exists. Lock, then open an export file
   during the refresh: the stored account's token is sealed under the export's
   key, and its next unlock fails.
2. `LockedVaultSignsNothing` - stopping the agent aborts the accept loop only
   (`app/ssh_agent.rs:329`); connections already open keep their keys and sign on.
3. `LogoutIsFinal` - a sign-in that is awaiting the server when the user logs out saves
   session.json and opens the vault afterwards (`cmd/auth.rs:276`); the unlock form's
   logout button is enabled while it unlocks. The cache is safe from syncs in the
   same situation (`CacheStaysCleared`), because sync looks at the slot again under the
   lock it writes the cache with.
4. `SharedFilesOpen` - `build_share_cipher_body` re-encrypts the fields and the history of an
   item that has no key of its own (`core/services/cipher.rs:401`) and leaves its
   attachments under the old owner's key; once a sync has brought the shared item,
   `download_attachment` fails for everybody.
5. `LogIsEncrypted` - the operation log takes a folder's name as memory has it
   (`cmd/move_share.rs:222`), and create_folder and rename_folder stamp the clear text there
   until the next sync (`cmd/vault.rs:93`, `:170`), so a cascade before that sync writes it
   to disk. `CRYPTO.md:155-158` has these columns encrypted, and `core/cache.rs:106-107`
   speaks of the "original and target encrypted name". `ClearNamesAreTyped` proves how far
   it goes: no name but one that a user has typed is ever in the log in clear text.

Further behaviours are in the models without a run. In `AutoLock`, `due` does not ask
whether a vault is open and logins mark no activity, so after a long idle time each
watchdog tick wipes a prompt just parked (`app/auto_lock.rs:151`). In `Folders`, a batch
over a folder that is listed twice breaks the key of the log's table and goes unlogged
(`cmd/vault.rs:94`), and an item can stay in a folder that is gone when the answers of a
move and a deletion cross (`cmd/vault.rs:118`), until the next sync. In `SshConfirm`, a
request that arrives while `respond()` awaits is shown and then replaced by the head of
the queue (`src/lib/SshConfirmDialog.svelte:109`); it expires unanswered. In
`AuthSession`, `disenroll_yubikey_unlock` writes back the session.json it read before its
key derivation (`cmd/auth.rs:447`), undoing a token rotation saved in between, and it can
undo the migration from a clear-text token the same way, the exception
`PlaintextNeverReturns` names; and `enroll_yubikey_unlock` with an export file open stores
a wrap of the export's key with the stored account (`cmd/auth.rs:407`), which opens
nothing (`SessionIsOneAccount`).

In `Ciphers`: an upload to an item that has been shared but not yet synced, or whose
organisation's key the session lacks, goes under a key that does not open it for others
(`cmd/cipher.rs:764`); an update of such an item before the sync finds the old
password under the other key, so it pushes none and echoes a history nobody can read
(`core/services/cipher.rs:256`), and an export fails until the sync; the front end
syncs after a share, which closes the gap in the usual case. An update of an item that
memory does not have sends no history and so clears it (`cmd/cipher.rs:490`). A stale
update undoes another client's change, and on a server that keeps the key of an item when a
body has none it makes an item undecryptable that another client has given a key since
(`lost`). After create_folder or rename_folder an export fails until the next sync, though
every item opens: the clear-text name stamped into memory is no ciphertext to re-encrypt
(`core/export.rs:183`, `cmd/vault.rs:93`, `:170`), and `?` ends the export with it; the
property states it (`ExportGivesBack`). An upload whose second request fails leaves an
announced file without bytes (`cmd/cipher.rs:780`). `load_cached_vault` between the
request of a move and its splice can put a collection on an item that memory has as a
personal one. In `VaultSync`, a logout
whose `clear_all` fails reports success and leaves the vault cached (`cmd/auth.rs:645`), and a
sync's answer can land in another account's session, and be cached under that account's
name, where it does not decrypt (`cmd/vault.rs:46`).

In `Import`: rows without a title are created as "(sans nom)" and looked for without a
title, so every import makes them again (`src/lib/ImportDialog.svelte:411`). After a run
whose closing sync fails, the same file is offered whole and its items are made a
second time, though the summary of a stopped run says that "items already created won't be
duplicated" (`messages/en.json:173`); that summary is never seen, since onDone closes the
dialog (`src/routes/+page.svelte:952`). A 403 or a 429 that answers a folder's creation neither
stops nor slows the run, the item goes without its folder (`:388`), and a folder whose
answer was lost is made once more by the next row of the group. A sync answered after a lock
shows the vault's list again to the store (`src/lib/vault.svelte.ts:229`).

## Proofs

Checked by TLAPS for every value of the constants that satisfies the modules'
assumptions (names of sentinels differ from values, bounds are naturals; in `AutoLock`
honoured windows lie below the horizon; in `Ciphers` there are finitely many ids, as of
anything a server has numbered, `None` is no function of items, and no file key is
`None`). The bounds of the runs play no part.

**`AuthSessionProofs`.** `Invariance`: the inductive invariant `IInv` is the type
invariant (which says what each command in flight holds at each step) and the
three safety invariants, strengthened by: a call about to store a session
pairs one account's address with that account's key, and so does a file snapshot
held across an await. Without
these the safety invariants are not inductive, because they say nothing of local
variables, and every store copies local variables into a slot. From it follow
`TypeCorrect`, `ReadOnlyIsFinal`, `OneAccountInMemory`, `OneAccountOnDisk`. `Refinement`
maps each step to a step of `WriteGate` or a stutter, using the same invariant.
`MigrationIsKept` goes through the steps that write session.json: each seals the token
under a key, which `Clear` is not, but the two that give back the file they read.

**`AutoLockProofs`.** `TypeCorrect`; `PromptIsWiped` and `IdleIsTimely` from
invariants that bound the age of a prompt, and the exposure, by the time that has
passed since the watchdog went to sleep, so that at its wake they are at most one
period over; `SwitchIsFresh` from `since` never exceeding `triggerFor` once the switch is
through, and from `Leftover` before: what a probe in flight has left behind under another
trigger is dropped by the poller's next decision, so that with the rest of its sleep it makes
one period. Tick is
the only step that raises an age, and it is disabled while a task is awake; that is
what makes the bounds inductive. `ScreenIsTimely` and `StaleIsDropped` rest on `UntilAnswer`,
the most time that may pass before a probe answers next: an exposure that is not yet
observed, or a stale observation, and that time add up to one poll (`Unobserved`,
`StaleClock`); a countdown lags an exposure by one poll at most (`Counting`), so at a
decision that does not close the vault there is room for one poll more.

**`SshAgentProofs`.** The inductive invariant ties each connection's place to the
record of what it asked: a waiting request's id names the key and the run of its
connection, ids are given to one connection at a time, an answer in a channel, a
reply in flight and a grant come from `yes`, and an approval of a run has a granted
request behind it. For the socket: the path leads to a live run only while the
handle is stored, about to be stored, or taken by a command that will remove the
file. Theorems: `TypeCorrect`, `ConsentHolds`, `DoorIsHeld`, `NothingLeftParked`,
`NothingStranded`.

**`VaultSyncProofs`.** `CacheStaysCleared` needs two facts about who may be where. The
sync that has read session.json and has not yet written the cache holds the session
lock (`WriterHolds`), and `LogoutStart` takes that lock, so it meets no such sync; and
after it, if nobody was opening a vault, there is no session, nobody opening one
and nobody writing (`QuietAfterLogout`), which no step but a sign-in's start undoes. The
empty cache itself is claimed only where the logout's `clear_all` succeeded (`wiped`).
`ShowsOnlyAccepted` needs that the answers and changes commands carry are the server's
(`CarriesOnlyAccepted`). Theorems: `TypeCorrect`, `LogoutClearsForGood`,
`OnlyAcceptedIsShown`.

**`FoldersProofs`.** What memory and the log say is carried there by invocations, so
`IInv` says what each holds: names spliced after an answer, the server's snapshot in a
sync's answer, the renamings of a batch that are already sent and the originals in its
rows are names the server has had (`Served`); a batch's unsent part and its rows come from
its plan (`Planned`). `LogIsTrue` needs one fact more. A row is marked by batch and folder
alone, so it must follow that the name sent is the row's name; it does because batches
have numbers of their own (`NumbersAreFresh`) and a batch that has rows renames each
folder once (`Logged`), which is what the table's key enforces. `ClearNamesAreTyped`, the
extent of finding 5, has an invariant of its own, `Typing`: a name in clear text, whether
in memory, in the cache, in the rows of a batch or in the log, is one that a user typed,
and so is each name that create_folder or rename_folder is about to stamp. Theorems:
`TypeCorrect`, `OnlyServedNamesAreShown`, `LogTellsTheTruth`, `UnsentStaysUnapplied`,
`ClearNamesAreTyped`. Two more are about what the cascade does to the tree, which exists
in the names alone: `CascadesKeepTheTree` (within a batch, one new name is under another
exactly if the old one was, so no two folders get one name) and `CascadesCanBeUndone` (the
cascade back gives the old names). They rest on lemmas on the path operators, position by
position (`Follows`), for paths of any length, and on the invariant that every plan is one
cascade (`PlansCascade`). They say nothing of folders outside the batch: one of those may
have, or get, a name that the batch gives, and the code does not look. The two are stated
in `FoldersProofs` and not by a run.

**`CiphersProofs`.** An item on the server is opened by others' requests built long
before, so `IInv` says of everything in flight that it opens: `KeysFit` covers the items
of the server and of memory, the bodies and answers of invocations, the listings and the
cache. Two facts make it inductive. A share in flight goes to an organisation whose key
the session holds; and a copy whose organisation's key is missing is never built, because
the original's name does not open under the key the code falls back to.
`CopiesStaySeparate` needs a witness (`Separate`): a function that gives each item key and
file id to one item, kept by every step, since what is generated is always new (`taken`).
`ServesOne` and `Splices` say what one step does to the server and to memory, so that each
action is proved against them once. `SnapshotsAreTrue` rests on `Tells`: the rows of a
share have its number and its item, an answered share's item has left, and no step of the
server brings one back (`LeftStays`), since a body that names no organisation is refused
for an item that is in one. `KeysFit` excepts the items in `lost`, which only grows.
Theorems: `TypeCorrect`, `NobodyIsLockedOut`, `MemoryIsOfOnePiece`, `CopiesStaySeparate`,
`UploadsStayStored`, `SnapshotsAreTrue`.

**`CipherContentsProofs`.** `CiphersProofs` says that what is stored opens; this module
says what it then reads as, and that a command changes no more of it than it was asked to.
`ReadersAgree` and `ExportGivesBack` compare operators over one vault, so `TypeOK` is all
the invariant they need, and the work is in the operators: the same key is picked by each
reader (`ItemKeyOf`, `NameKey`), a sealed vault opens to what was sealed, its folder and
collection names included (`RekeyedNames`), and the counts of the summary are those of the
list, by the theorems on finite sets. The three others compare an item before and after a
request that was built windows earlier, from a copy that may be out of date, so
`ContentsInv` adds two facts to `TypeOK` and `KeysFit`. `CallsFit` says what each
invocation in flight holds of its item: an update keeps owner and key of the item it read,
and its history is the password it replaces before the item's, cut at the cap
(`UpdateFits`, `KeepsHistory`); a share reads as the original does, under another owner,
with the original's own key if it has one (`ShareFits`); a file is under the key the item
has in memory (`SlotFits`). A share of an item in `lost` is excepted, and such an item
stays in `lost` (`LostStays`). `KindsFit` says that an item has one kind, in memory, on
the server and in every request for it; without it a stale update could turn a login into
a note and lose its passwords. `HandledBy` reduces a handled request to one of three kinds
(update, share, slot), and `CallMoves` what a call can become in a step, so the theorems
are argued once for each. Theorems: `ReadersAlwaysAgree`, `ExportsGiveBack`,
`NoPasswordIsLost`, `SharesReadTheSame`, `AttachmentsKeepOpening`.

**`ImportProofs`.** `NothingTwice` speaks of the server, and what makes an import safe is
in the run: the rows it has left are of different identities, none of which the server has
unless excused, save the one whose answer has just come (`RowsAreFresh`), and the same of
the groups it knows no folder of. `Start` establishes it from `NewEntries`, each answer moves
one row to the exception, and `RowDone` strikes that row out. The refinement needs that the
tries counted are those of the current row's item and that only a slow answer or a refusal
ends a run early (`TriesAreTheItems`). Theorems: `TypeCorrect`, `NothingIsMadeTwice`,
`WritesArePaced`.

**Model-checked only.** Liveness (`EveryAskEnds`, `RunEnds`): TLAPS does not reach fairness
and ENABLED. Every other property of a passing run is stated by a theorem. The violated
properties have counterexamples, not proofs.

## What is not modelled

* **HTTP client, algorithms of the cryptography, TOTP, strength, update check,
  serialisation.** No shared state and no interleaving; what their answers can be is in
  the models that call them.
* **The CSV reader; the front-end stores but for the list `Import` needs.** In the plan.
* **CTAP2 exchange and D-Bus.** Devices and services; their outcomes are choices.
* **The temporary file of `save_session`.** All writers share session.tmp, so two at
  once can rename each other's half-written file, or fail with NotFound when the other has
  renamed it. The models treat a save as atomic; two saves at once are a listed hazard.
* **Views, styles, translations, end-to-end tests, packaging.**
* **The organisations' keys as they change.** A sync replaces them with the profile's;
  `Held` is constant in `Ciphers`.

## Plan

In order; each step names the modules it composes with, the abstract
specification, the bounds and the theorems worth proving.

1. **Done:** `AuthSession` with `WriteGate`, `AutoLock`, `SshConfirm` with `SshAgent`,
   their runs and theorems.
2. **`VaultSync`** - **done:** sync, load_cached_vault, create_folder, their races with
   sign-ins, locks and logouts, two properties and their theorems. **Left:** the row under
   an account's name opens with its key (a sync in flight over a lock and an opened
   export seals it with another); an older answer does not replace a newer one;
   versions of the server's vault.
3. **`Folders`** - **done:** folder create, delete, rename, the cascade with its log,
   moves of items, one request at a time, with failures and a crash between any two;
   four properties, each with its theorem, a finding with a theorem on its extent, and
   two theorems on the tree a cascade leaves. **Left:** composition with `VaultSync`
   (rows written after a logout, a second account).
4. **`CipherKeys`, `CipherViews`, `Ciphers`** - **done:** every command on items and
   attachments, the share and the move to a collection, the bodies and the keys they pick,
   the readers, the audit and the export files, eleven properties. **Left:** organisation
   keys that come and go, and composition with `VaultSync`'s accounts.
5. **`SessionFile`** - `atomic_write` with its shared temporary file under two writers and a
   crash, as the file that `AuthSession` takes as atomic: the refinement holds with one
   writer at a time.
6. **`VaultTree`** - the front end's tree against a reference.
7. **Front-end stores** - auto-sync timer against manual syncs, optimistic moves with
   rollback, clipboard timer, composed with `VaultSync`.
8. **`Import`** with `PacedWriter` - **done:** the dialog, the loop and the list it
   compares with, two safety properties, the refinement and liveness. **Left:** the CSV
   reader as a state machine; a second account; a decryption that is answered late.
9. **Proofs** - **done:** every safety and action property of the passing runs. **Left:** the
   refinement of 5; the rest of what 2 and 3 leave.
