----------------------------- MODULE LockerSync ------------------------------
(***************************************************************************)
(* The locker of one desktop (main/locker/service.ts) and its copy in the  *)
(* account (main/locker/cloud.ts), with the sync plan of packages/locker.  *)
(*                                                                         *)
(* A vault is an encrypted file.  It is modelled by the set of edits it    *)
(* holds: every save adds a new edit, so contents, bytes and checksum      *)
(* determine each other, and the empty set is no vault (or no checksum).   *)
(* The desktop's handlers run one stretch between two awaits at a time.    *)
(* Another device of the account pushes its own versions meanwhile.        *)
(*                                                                         *)
(* Bound: one create, unlock, save or storage request at a time; the       *)
(* synchronisation runs beside it.  Cryptography and the contents of items *)
(* are left out, and so are the import and export of a whole vault.        *)
(***************************************************************************)
EXTENDS Naturals, FiniteSets

CONSTANT MaxEdits    \* bound: the edits ever made, on either device

ASSUME LockerAssumption == MaxEdits \in Nat

Edits == 1 .. MaxEdits

VARIABLES
    file,      \* vault.kdbx
    meta,      \* #meta and vault.meta.json
    db,        \* #db, the open vault ({} when locked)
    task,      \* the request that is suspended at an await
    sync,      \* the suspended sync(), if #syncing
    row,       \* the account's row in locker_vaults
    objects,   \* the account's stored objects, named by revision and checksum
    clock,     \* the time, counted in versions written anywhere
    used,      \* auxiliary: how many edits were made so far
    made,      \* auxiliary: versions <<revision, contents>> that a device wrote
    chosen,    \* auxiliary: the user chose "local" with no sync under way
    mishaps    \* auxiliary: the races and crashes that have happened

deskVars == <<file, meta, db, task>>
cloudVars == <<row, objects>>
vars == <<file, meta, db, task, sync, row, objects, clock, used, made, chosen, mishaps>>

Vaults == SUBSET Edits
NoRow == [rev |-> 0, stamp |-> 0, sum |-> {}]
NoTask == [stage |-> "none", edit |-> {}, bytes |-> {}]
Idle == [pc |-> "idle", allowPull |-> FALSE, force |-> "none", remote |-> NoRow,
         bytes |-> {}, blob |-> NoRow]

\* emptyMeta
EmptyMeta == [rev |-> 0, stamp |-> 0, sum |-> {}, dirty |-> FALSE, synced |-> FALSE,
              storage |-> "account"]

Init ==
    /\ file = {}
    /\ meta = EmptyMeta
    /\ db = {}
    /\ task = NoTask
    /\ sync = Idle
    /\ row = NoRow
    /\ objects = {}
    /\ clock = 0
    /\ used = 0
    /\ made = {}
    /\ chosen = FALSE
    /\ mishaps = {}

-----------------------------------------------------------------------------
(* The plan.                                                               *)

\* A mutated form: a first link pushes when this device's version is newer.
PlanTrustingLocal(exists, local, remote) ==
    CASE ~exists /\ remote = NoRow -> "noop"
      [] exists /\ remote = NoRow -> "push"
      [] ~exists /\ remote # NoRow -> "pull"
      [] OTHER -> IF local.stamp > remote.stamp THEN "push" ELSE "pull"

\* planSync: local is #meta when the vault exists.
PlanSync(exists, local, remote) ==
    CASE ~exists /\ remote = NoRow -> "noop"
      [] exists /\ remote = NoRow -> "push"
      [] ~exists /\ remote # NoRow -> "pull"
      [] OTHER ->
           CASE ~local.synced -> "pull"
             [] local.synced /\ remote.rev > local.rev ->
                   IF local.dirty /\ local.stamp > remote.stamp THEN "push" ELSE "pull"
             [] local.synced /\ local.rev > remote.rev -> "push"
             [] OTHER -> CASE local.sum = remote.sum -> "noop"
                           [] local.sum # remote.sum /\ local.dirty -> "push"
                           [] OTHER -> "pull"

-----------------------------------------------------------------------------
(* Starting a synchronisation.                                             *)

Accounts(m) == m.storage = "account"

Asked(allowPull, force) ==
    [Idle EXCEPT !.pc = "asked", !.allowPull = allowPull, !.force = force]

\* sync() up to its first await: nothing for a local locker, while another sync
\* is under way, or when signed out (the second alternative).
StartSync(m, allowPull, force) ==
    IF Accounts(m) /\ sync.pc = "idle"
       THEN sync' \in {Asked(allowPull, force), sync}
       ELSE sync' = sync

\* hydrate(), called when the account changes, at start and by the user.
Hydrate ==
    /\ sync.pc = "idle"
    /\ StartSync(meta, db = {}, "none")
    /\ UNCHANGED <<deskVars, cloudVars, clock, used, made, chosen, mishaps>>

-----------------------------------------------------------------------------
(* The user's requests.                                                    *)

\* create: hydrates first if the locker belongs to the account.
Create(e) ==
    /\ task = NoTask
    /\ file = {} /\ db = {}
    /\ e = used + 1
    /\ used' = e
    /\ StartSync(meta, TRUE, "none")
    /\ task' = [stage |-> IF sync' # sync THEN "create" ELSE "making",
                edit |-> {e}, bytes |-> {}]
    /\ UNCHANGED <<file, meta, db, cloudVars, clock, made, chosen, mishaps>>

\* create after createDatabase: the new vault is open and is being encoded.
Made ==
    /\ task.stage = "making"
    /\ db' = task.edit
    /\ task' = [task EXCEPT !.stage = "encoding", !.bytes = task.edit]
    /\ UNCHANGED <<file, meta, sync, cloudVars, clock, used, made, chosen, mishaps>>

\* unlock: hydrates if there is no vault, then reads the file.
Unlock ==
    /\ task = NoTask
    /\ IF file = {} THEN StartSync(meta, db = {}, "none") ELSE UNCHANGED sync
    /\ task' = CASE file # {} -> [NoTask EXCEPT !.stage = "loading", !.bytes = file]
                 [] file = {} /\ sync' # sync -> [NoTask EXCEPT !.stage = "unlock"]
                 [] OTHER -> NoTask
    /\ UNCHANGED <<file, meta, db, cloudVars, clock, used, made, chosen, mishaps>>

\* loadDatabase opens the bytes that were read, or refuses the password.
Loaded ==
    /\ task.stage = "loading"
    /\ db' \in {task.bytes, db}
    /\ task' = NoTask
    /\ UNCHANGED <<file, meta, sync, cloudVars, clock, used, made, chosen, mishaps>>

\* save and every other change of the open vault, up to saveDatabase's await.
Save(e) ==
    /\ task = NoTask
    /\ db # {}
    /\ e = used + 1
    /\ used' = e
    /\ db' = db \cup {e}
    /\ task' = [stage |-> "encoding", edit |-> {e}, bytes |-> db']
    /\ UNCHANGED <<file, meta, sync, cloudVars, clock, made, chosen, mishaps>>

\* lock: by the user, the idle timer, the screen lock.
Lock ==
    /\ db # {}
    /\ db' = {}
    /\ UNCHANGED <<file, meta, task, sync, cloudVars, clock, used, made, chosen, mishaps>>

Saved(m, bytes) ==
    [m EXCEPT !.rev = m.rev + 1, !.stamp = clock + 1, !.sum = bytes, !.dirty = TRUE]

Overlap == IF sync.pc \in {"reading", "uploading", "recording", "recorded"}
              THEN {"overlapped"} ELSE {}

\* A mutated form: a save is not marked as still to be uploaded.
PersistClean ==
    /\ task.stage = "encoding"
    /\ file' = task.bytes
    /\ meta' = [Saved(meta, task.bytes) EXCEPT !.dirty = meta.dirty]
    /\ clock' = clock + 1
    /\ made' = made \cup {<<meta'.rev, file'>>}
    /\ task' = NoTask
    /\ mishaps' = mishaps \cup Overlap
    /\ StartSync(meta', FALSE, "none")
    /\ UNCHANGED <<db, cloudVars, used, chosen>>

\* #persist after saveDatabase: the vault, then its metadata, then a sync.
Persist ==
    /\ task.stage = "encoding"
    /\ file' = task.bytes
    /\ meta' = Saved(meta, task.bytes)
    /\ clock' = clock + 1
    /\ made' = made \cup {<<meta'.rev, file'>>}
    /\ task' = NoTask
    /\ mishaps' = mishaps \cup Overlap
    /\ StartSync(meta', FALSE, "none")
    /\ UNCHANGED <<db, cloudVars, used, chosen>>

\* setStorage("local")
SetLocal ==
    /\ task = NoTask
    /\ meta' = [meta EXCEPT !.storage = "local"]
    /\ chosen' = (sync.pc = "idle")
    /\ UNCHANGED <<file, db, task, sync, cloudVars, clock, used, made, mishaps>>

\* setStorage("account", resolve): "keep-local" forces a push, "keep-cloud" locks
\* and forces a pull; without a choice the cloud is asked first, if a vault exists.
SetAccount(resolve) ==
    /\ task = NoTask
    /\ meta' = [meta EXCEPT !.storage = "account"]
    /\ chosen' = FALSE
    /\ \/ /\ resolve = "keep-local"
          /\ StartSync(meta', FALSE, "push")
          /\ UNCHANGED <<db, task>>
       \/ /\ resolve = "keep-cloud"
          /\ db' = {}
          /\ StartSync(meta', TRUE, "pull")
          /\ UNCHANGED task
       \/ /\ resolve = "ask"
          /\ file # {}
          /\ task' = [NoTask EXCEPT !.stage = "asking"]
          /\ UNCHANGED <<db, sync>>
       \/ /\ resolve = "ask"
          /\ file = {}
          /\ StartSync(meta', db = {}, "none")
          /\ UNCHANGED <<db, task>>
    /\ UNCHANGED <<file, cloudVars, clock, used, made, mishaps>>

\* setStorage("account") after its own pull: a different cloud copy is a conflict
\* for the user to resolve (or the pull failed); otherwise it hydrates.
AccountAnswered ==
    /\ task.stage = "asking"
    /\ task' = NoTask
    /\ \/ UNCHANGED sync
       \/ /\ row = NoRow \/ (meta.sum = row.sum /\ meta.synced)
          /\ StartSync(meta, db = {}, "none")
    /\ UNCHANGED <<file, meta, db, cloudVars, clock, used, made, chosen, mishaps>>

-----------------------------------------------------------------------------
(* The synchronisation.                                                    *)

\* A create or unlock that awaited hydrate() goes on when the sync is over.
Resumed(t, vault) ==
    CASE t.stage = "create" -> IF vault # {} THEN NoTask ELSE [t EXCEPT !.stage = "making"]
      [] t.stage = "unlock" -> IF vault # {}
                                  THEN [t EXCEPT !.stage = "loading", !.bytes = vault]
                                  ELSE NoTask
      [] OTHER -> t

\* The finally block of sync(), with the vault it leaves.
EndSync(vault) == sync' = Idle /\ task' = Resumed(task, vault)

\* The account answers cloud.pull: the row and, through it, the object.
CloudAnswersPull ==
    /\ sync.pc = "asked"
    /\ sync' = [sync EXCEPT !.pc = "answered", !.remote = row]
    /\ UNCHANGED <<deskVars, cloudVars, clock, used, made, chosen, mishaps>>

\* #writeVault
Pulled(remote) ==
    [rev |-> remote.rev, stamp |-> remote.stamp, sum |-> remote.sum, dirty |-> FALSE,
     synced |-> TRUE, storage |-> "account"]

Action == IF sync.force # "none" THEN sync.force
          ELSE PlanSync(file # {}, meta, sync.remote)

MayPull == sync.allowPull /\ db = {} /\ sync.remote # NoRow

\* A request that holds an older copy of the vault than the one written now.
Overtaken == IF task.stage \in {"making", "loading", "encoding"}
                THEN {"overtaken"} ELSE {}

\* A mutated form: the vault is replaced although it is open.
SyncPullsOpen ==
    /\ sync.pc = "answered"
    /\ Action = "pull"
    /\ sync.allowPull /\ sync.remote # NoRow
    /\ file' = sync.remote.sum
    /\ meta' = Pulled(sync.remote)
    /\ mishaps' = mishaps \cup Overtaken
    /\ EndSync(sync.remote.sum)
    /\ UNCHANGED <<db, cloudVars, clock, used, made, chosen>>

\* sync() after the pull: the account's copy replaces the file, unless the vault
\* is open.
SyncPulls ==
    /\ sync.pc = "answered"
    /\ Action = "pull"
    /\ MayPull
    /\ file' = sync.remote.sum
    /\ meta' = Pulled(sync.remote)
    /\ mishaps' = mishaps \cup Overtaken
    /\ EndSync(sync.remote.sum)
    /\ UNCHANGED <<db, cloudVars, clock, used, made, chosen>>

\* A mutated form: the early return leaves #syncing set.
SyncRestsHeld ==
    /\ sync.pc = "answered"
    /\ \/ Action = "noop"
       \/ Action = "pull" /\ ~MayPull
       \/ Action = "push" /\ file = {}
    /\ sync' = sync /\ task' = Resumed(task, file)
    /\ UNCHANGED <<file, meta, db, cloudVars, clock, used, made, chosen, mishaps>>

\* ... or there is nothing to do, or nothing that may be done.
SyncRests ==
    /\ sync.pc = "answered"
    /\ \/ Action = "noop"
       \/ Action = "pull" /\ ~MayPull
       \/ Action = "push" /\ file = {}
    /\ EndSync(file)
    /\ UNCHANGED <<file, meta, db, cloudVars, clock, used, made, chosen, mishaps>>

\* ... or the file is read for a push.
SyncReads ==
    /\ sync.pc = "answered"
    /\ Action = "push"
    /\ file # {}
    /\ sync' = [sync EXCEPT !.pc = "reading", !.bytes = file]
    /\ UNCHANGED <<deskVars, cloudVars, clock, used, made, chosen, mishaps>>

BlobOf(bytes) ==
    [rev |-> meta.rev, stamp |-> meta.stamp,
     sum |-> IF meta.sum = {} THEN bytes ELSE meta.sum]

\* A mutated form: push() does not compare the checksum with the bytes.
PushesUnchecked(bytes) ==
    /\ sync.pc = "reading"
    /\ bytes \in {sync.bytes, file}
    /\ sync' = [sync EXCEPT !.pc = "uploading", !.bytes = bytes,
                            !.blob = [BlobOf(bytes) EXCEPT !.sum = bytes]]
    /\ UNCHANGED <<deskVars, cloudVars, clock, used, made, chosen, mishaps>>

\* The read returns, with the file as it was or as it is now; push() refuses a
\* blob whose checksum is not that of its bytes, or without a revision.
Pushes(bytes) ==
    /\ sync.pc = "reading"
    /\ bytes \in {sync.bytes, file}
    /\ IF BlobOf(bytes).sum = bytes /\ meta.rev > 0
          THEN /\ sync' = [sync EXCEPT !.pc = "uploading", !.bytes = bytes,
                                       !.blob = BlobOf(bytes)]
               /\ UNCHANGED <<file, task>>
          ELSE EndSync(file) /\ UNCHANGED file
    /\ UNCHANGED <<meta, db, cloudVars, clock, used, made, chosen, mishaps>>

\* The object is stored; one of that name that exists already has those bytes.
CloudStoresObject ==
    /\ sync.pc = "uploading"
    /\ objects' = objects \cup {<<sync.blob.rev, sync.bytes>>}
    /\ sync' = [sync EXCEPT !.pc = "recording"]
    /\ UNCHANGED <<deskVars, row, clock, used, made, chosen, mishaps>>

\* The row is replaced, whatever it holds by now.
CloudRecords ==
    /\ sync.pc = "recording"
    /\ row' = sync.blob
    /\ sync' = [sync EXCEPT !.pc = "recorded"]
    /\ UNCHANGED <<deskVars, objects, clock, used, made, chosen, mishaps>>

\* sync() after push(): clean, with the checksum that was pushed.
PushAcknowledged ==
    /\ sync.pc = "recorded"
    /\ meta' = [meta EXCEPT !.dirty = FALSE, !.synced = TRUE, !.sum = sync.blob.sum,
                            !.storage = "account"]
    /\ UNCHANGED file
    /\ EndSync(file)
    /\ UNCHANGED <<db, cloudVars, clock, used, made, chosen, mishaps>>

\* A request fails, or its answer is lost after the account has acted on it.
SyncFails ==
    /\ sync.pc \in {"asked", "uploading", "recording", "recorded"}
    /\ UNCHANGED file
    /\ EndSync(file)
    /\ UNCHANGED <<meta, db, cloudVars, clock, used, made, chosen, mishaps>>

-----------------------------------------------------------------------------
(* The other device, and the end of the process.                           *)

\* Another device adds an edit to the account's version and pushes the result.
PeerPushes(e) ==
    /\ e = used + 1
    /\ used' = e
    /\ clock' = clock + 1
    /\ row' = [rev |-> row.rev + 1, stamp |-> clock', sum |-> row.sum \cup {e}]
    /\ objects' = objects \cup {<<row'.rev, row'.sum>>}
    /\ made' = made \cup {<<row'.rev, row'.sum>>}
    /\ UNCHANGED <<deskVars, sync, chosen, mishaps>>

Ended == db' = {} /\ task' = NoTask /\ sync' = Idle

\* The process ends at an await.
Crash ==
    /\ task # NoTask \/ sync.pc # "idle" \/ db # {}
    /\ Ended
    /\ UNCHANGED <<file, meta, cloudVars, clock, used, made, chosen, mishaps>>

\* It ends between the two writes of #persist or of #writeVault: each is atomic,
\* the pair is not.
CrashBetweenWrites ==
    /\ \/ task.stage = "encoding" /\ file' = task.bytes
       \/ /\ sync.pc = "answered" /\ Action = "pull" /\ MayPull
          /\ file' = sync.remote.sum
    /\ mishaps' = mishaps \cup {"torn"}
    /\ Ended
    /\ UNCHANGED <<meta, cloudVars, clock, used, made, chosen>>

SyncStep ==
    \/ CloudAnswersPull \/ SyncPulls \/ SyncRests \/ SyncReads
    \/ (\E bytes \in {sync.bytes, file} : Pushes(bytes))
    \/ CloudStoresObject \/ CloudRecords \/ PushAcknowledged

Next ==
    \/ Hydrate \/ Unlock \/ Made \/ Loaded \/ Lock \/ Persist \/ SetLocal
    \/ \E e \in Edits : Create(e) \/ Save(e) \/ PeerPushes(e)
    \/ \E resolve \in {"ask", "keep-local", "keep-cloud"} : SetAccount(resolve)
    \/ AccountAnswered \/ SyncStep \/ SyncFails \/ Crash \/ CrashBetweenWrites

\* The account answers or the request fails: the HTTP client gives up on a request
\* that is not answered.
Spec == Init /\ [][Next]_vars /\ WF_vars(SyncStep \/ SyncFails)
-----------------------------------------------------------------------------
(* Properties.                                                             *)

Row == [rev : Nat, stamp : Nat, sum : Vaults]

TypeOK ==
    /\ file \in Vaults /\ db \in Vaults
    /\ meta \in [rev : Nat, stamp : Nat, sum : Vaults, dirty : BOOLEAN,
                 synced : BOOLEAN, storage : {"local", "account"}]
    /\ task \in [stage : {"none", "create", "making", "unlock", "loading", "encoding",
                          "asking"},
                 edit : Vaults, bytes : Vaults]
    /\ sync \in [pc : {"idle", "asked", "answered", "reading", "uploading", "recording",
                       "recorded"},
                 allowPull : BOOLEAN, force : {"none", "push", "pull"}, remote : Row,
                 bytes : Vaults, blob : Row]
    /\ row \in Row
    /\ objects \subseteq Nat \X Vaults
    /\ clock \in Nat
    /\ used \in 0 .. MaxEdits
    /\ made \subseteq Nat \X Vaults
    /\ chosen \in BOOLEAN
    /\ mishaps \subseteq {"overlapped", "overtaken", "torn"}

\* The account can always be restored: the object its row names exists, wherever a
\* push was interrupted.
CloudReadable == row # NoRow => <<row.rev, row.sum>> \in objects

\* What the account holds is a version some device wrote, under the revision it
\* was written with: push() never pairs the bytes of one save with the metadata of
\* another, although a save may come between reading the two.  Excepted is a
\* process that died between the two writes of a version.
CloudHoldsAWrittenVersion ==
    (row # NoRow /\ "torn" \notin mishaps) => <<row.rev, row.sum>> \in made

\* What is in the account can be restored, and is what it says it is.
AccountSound == TypeOK /\ CloudReadable /\ CloudHoldsAWrittenVersion

\* An open vault contains what is on disk, so that the next save drops nothing:
\* a pull never replaces the file under an open vault.  Excepted are pulls that
\* overtake a request which has already read or is already encoding a version.
OpenVaultCurrent ==
    (db # {} /\ "overtaken" \notin mishaps) => file \subseteq db

\* A vault reported as synced is in the account's storage, unless a save
\* overlapped a push or the process died between the two writes of a version.
CleanIsUploaded ==
    (file # {} /\ ~meta.dirty /\ meta.synced /\ mishaps \subseteq {"overtaken"})
        => \E rev \in 1 .. clock : <<rev, file>> \in objects

\* "First link [...] always pulls so a new empty locker cannot overwrite an account
\* vault": unless the user chose to keep this device's copy, what is pushed over
\* a version the sync has seen in the account descends from the account's vault, that
\* is, holds one of its edits.  Excepted are pulls that overtake a request: a create
\* which found a sync under way goes on beside it, and the vault it then writes over the
\* pulled one is pushed over the account's.
FirstLinkYields ==
    (/\ sync.pc \in {"reading", "uploading", "recording"} /\ sync.force = "none"
     /\ sync.remote # NoRow /\ "overtaken" \notin mishaps)
        => sync.bytes \cap sync.remote.sum # {}

\* A locker the user made local while nothing was being synchronised stays local,
\* and nothing of it is sent, until the user chooses the account again.
LocalKept == chosen => meta.storage = "local" /\ sync.pc = "idle"

\* Nothing is pushed that the user has not agreed to push.
PushesAgreed == FirstLinkYields /\ LocalKept

\* #syncing is released whatever happens to the requests: otherwise no later
\* change would ever be uploaded.
SyncReleases == []<>(sync.pc = "idle")
=============================================================================
