-------------------------- MODULE LockerSyncProofs ---------------------------
(***************************************************************************)
(* Proofs about the locker and its copy in the account, for any number of  *)
(* edits on either device.  Between two awaits anything may have happened  *)
(* to the file, its metadata and the account, so the inductive invariant   *)
(* says of each suspended request what it still knows: which version a     *)
(* sync has seen or is pushing, and how the bytes a request holds relate   *)
(* to the file, as long as no recorded mishap has parted them.             *)
(***************************************************************************)
EXTENDS LockerSync, TLAPS

Torn == "torn" \in mishaps
Overlapped == "overlapped" \in mishaps
WasOvertaken == "overtaken" \in mishaps

Metas == [rev : Nat, stamp : Nat, sum : Vaults, dirty : BOOLEAN, synced : BOOLEAN,
          storage : {"local", "account"}]
Tasks == [stage : {"none", "create", "making", "unlock", "loading", "encoding", "asking"},
          edit : Vaults, bytes : Vaults]
Syncs == [pc : {"idle", "asked", "answered", "reading", "uploading", "recording", "recorded"},
          allowPull : BOOLEAN, force : {"none", "push", "pull"}, remote : Row,
          bytes : Vaults, blob : Row]

(* A version that was in the account: it is stored, and was written by a   *)
(* device under its revision unless a process died between two writes.     *)
Sound(v) ==
    v # NoRow => /\ v.rev \in 1 .. clock /\ v.sum # {}
                 /\ <<v.rev, v.sum>> \in objects
                 /\ Torn \/ <<v.rev, v.sum>> \in made

(* The file goes with the revision the metadata names.                     *)
FileWritten ==
    /\ meta.rev <= clock
    /\ meta.rev > 0 => Torn \/ <<meta.rev, file>> \in made

(* A push that reads: what it read is the file, or the metadata describes  *)
(* the file that has replaced it, so that push() refuses what was read.    *)
ReadingOK ==
    sync.pc = "reading" => /\ sync.bytes # {} /\ file # {}
                           /\ sync.bytes = file \/ meta.sum = file

(* A push past its check carries a written version.                        *)
BlobOK ==
    sync.pc \in {"uploading", "recording", "recorded"} =>
        /\ sync.blob.rev \in 1 .. clock
        /\ sync.blob.sum = sync.bytes /\ sync.bytes # {}
        /\ Torn \/ <<sync.blob.rev, sync.bytes>> \in made
        /\ sync.pc # "uploading" => <<sync.blob.rev, sync.bytes>> \in objects

(* Without a save during the push, what is pushed is the file.             *)
PushIsFile ==
    (sync.pc \in {"reading", "uploading", "recording", "recorded"} /\ ~Overlapped)
        => sync.bytes = file

(* What a suspended request holds.                                         *)
TaskOK ==
    /\ task.stage \in {"create", "making"} => task.edit # {}
    /\ task.stage = "encoding" => task.bytes # {} /\ (db # {} => db = task.bytes)

(* Unless a pull has overtaken it, a request knows the file as it is.      *)
TaskCurrent ==
    ~WasOvertaken =>
        /\ task.stage \in {"create", "making"} => file = {}
        /\ task.stage = "loading" => task.bytes = file
        /\ task.stage = "encoding" => file \subseteq task.bytes

(* Unless a pull has overtaken a request, the file of a device that has    *)
(* synchronised descends from the account's vault, and what a sync has     *)
(* seen or pushes lies on the way between the two: the account only grows  *)
(* under a sync that has been answered, and the file under one that pushes.*)
Linked ==
    ~WasOvertaken =>
        /\ meta.synced => file \cap row.sum # {}
        /\ sync.pc = "answered" => /\ sync.remote.sum \subseteq row.sum
                                   /\ meta.synced => file \cap sync.remote.sum # {}
        /\ sync.pc \in {"reading", "uploading", "recording", "recorded"}
               => sync.bytes \subseteq file
        /\ sync.pc = "recorded" => sync.bytes \subseteq row.sum

SyncOK == Sound(sync.remote) /\ ReadingOK /\ BlobOK /\ PushIsFile
DeskOK == FileWritten /\ TaskOK /\ TaskCurrent /\ OpenVaultCurrent

IInv == TypeOK /\ Sound(row) /\ SyncOK /\ DeskOK /\ Linked /\ CleanIsUploaded
        /\ PushesAgreed

-----------------------------------------------------------------------------
(* Types.                                                                  *)

Types ==
    /\ file \in Vaults /\ db \in Vaults /\ meta \in Metas /\ task \in Tasks
    /\ sync \in Syncs /\ row \in Row
    /\ objects \subseteq Nat \X Vaults /\ clock \in Nat /\ used \in 0 .. MaxEdits
    /\ made \subseteq Nat \X Vaults /\ chosen \in BOOLEAN
    /\ mishaps \subseteq {"overlapped", "overtaken", "torn"}

(* The type invariant as the proofs use it, with its record sets named.    *)
LEMMA Typed == (TypeOK <=> Types) /\ (TypeOK' <=> Types')
BY DEF TypeOK, Types, Metas, Tasks, Syncs

(* The empty vault, the absent row, and a device with nothing under way.   *)
LEMMA ConstantRecords ==
  /\ {} \in Vaults
  /\ NoRow \in Row
  /\ NoTask \in Tasks /\ NoTask.stage = "none" /\ NoTask.edit = {} /\ NoTask.bytes = {}
  /\ Idle \in Syncs /\ Idle.pc = "idle" /\ Idle.remote = NoRow /\ Idle.bytes = {}
  /\ EmptyMeta \in Metas
BY DEF NoRow, NoTask, Idle, EmptyMeta, Row, Tasks, Syncs, Metas, Vaults

(* A device without a locker and an account without a row satisfy it.      *)
LEMMA InitIInv == Init => IInv
<1> SUFFICES ASSUME Init PROVE IInv
  OBVIOUS
<1> USE LockerAssumption
<1>1. TypeOK
  <2>1. {} \subseteq Nat \X Vaults /\ 0 \in 0 .. MaxEdits
    OBVIOUS
  <2> QED BY <2>1, ConstantRecords, Typed DEF Types, Init
<1>2. meta.rev = 0 /\ meta.synced = FALSE /\ meta.storage = "account"
  BY DEF Init, EmptyMeta
<1>3. sync.pc = "idle" /\ sync.remote = NoRow /\ task.stage = "none"
  BY ConstantRecords DEF Init
<1>4. SyncOK /\ DeskOK
  BY <1>2, <1>3 DEF Init, SyncOK, DeskOK, Sound, ReadingOK, BlobOK, PushIsFile, FileWritten, TaskOK,
     TaskCurrent, OpenVaultCurrent
<1>5. Sound(row) /\ Linked /\ CleanIsUploaded /\ PushesAgreed
  BY <1>2, <1>3 DEF Init, Sound, Linked, CleanIsUploaded, PushesAgreed, FirstLinkYields, LocalKept
<1> QED BY <1>1, <1>4, <1>5 DEF IInv

(* What a vault in the account is known to be stays known: objects and     *)
(* written versions are never removed, and the clock does not go back.     *)
LEMMA SoundKept ==
  ASSUME TypeOK, clock' \in Nat, clock <= clock', objects \subseteq objects', made \subseteq made',
         mishaps \subseteq mishaps'
  PROVE  \A v \in Row : Sound(v) => Sound(v)'
<1> SUFFICES ASSUME NEW v \in Row, Sound(v), v # NoRow
             PROVE  /\ v.rev \in 1 .. clock' /\ v.sum # {}
                    /\ <<v.rev, v.sum>> \in objects'
                    /\ Torn' \/ <<v.rev, v.sum>> \in made'
  BY DEF Sound
<1>1. v.rev \in 1 .. clock' /\ v.sum # {}
  BY Typed DEF Types, Sound
<1> QED BY <1>1 DEF Sound, Torn

-----------------------------------------------------------------------------
(* The user's requests.                                                    *)

(* sync() begins, or it does not.                                          *)
LEMMA SyncStarts ==
  ASSUME TypeOK, NEW m, NEW a \in BOOLEAN, NEW f \in {"none", "push", "pull"},
         StartSync(m, a, f)
  PROVE  /\ sync' \in Syncs
         /\ \/ sync' = sync
            \/ /\ m.storage = "account" /\ sync.pc = "idle"
               /\ sync'.pc = "asked" /\ sync'.remote = NoRow
<1>1. Asked(a, f) \in Syncs /\ Asked(a, f).pc = "asked" /\ Asked(a, f).remote = NoRow
  BY ConstantRecords DEF Asked, Syncs
<1> QED BY <1>1, Typed DEF Types, StartSync, Accounts

(* A request that leaves the file, the revision, the account and the       *)
(* mishaps alone owes only what it says of its own bytes and of the user's *)
(* choice.                                                                 *)
LEMMA RequestKeeps ==
  ASSUME IInv, TypeOK', UNCHANGED <<file, row, objects, clock, made, mishaps>>,
         meta'.rev = meta.rev, meta'.sum = meta.sum, meta'.dirty = meta.dirty,
         meta'.synced = meta.synced,
         \/ sync' = sync
         \/ sync.pc = "idle" /\ sync'.pc = "asked" /\ sync'.remote = NoRow,
         TaskOK', TaskCurrent', OpenVaultCurrent', LocalKept'
  PROVE  IInv'
<1>1. Sound(row)'
  BY DEF IInv, Sound, Torn
<1>2. SyncOK'
  <2>1. CASE sync' = sync
    BY <2>1 DEF IInv, SyncOK, Sound, ReadingOK, BlobOK, PushIsFile, Torn, Overlapped
  <2>2. CASE sync'.pc = "asked" /\ sync'.remote = NoRow
    BY <2>2 DEF SyncOK, Sound, ReadingOK, BlobOK, PushIsFile
  <2> QED BY <2>1, <2>2
<1>3. DeskOK'
  BY DEF IInv, DeskOK, FileWritten, Torn
<1>4. CleanIsUploaded'
  BY DEF IInv, CleanIsUploaded
<1>5. FirstLinkYields'
  BY DEF IInv, PushesAgreed, FirstLinkYields
<1>6. Linked'
  BY DEF IInv, Linked, WasOvertaken
<1> QED BY <1>1, <1>2, <1>3, <1>4, <1>5, <1>6 DEF IInv, PushesAgreed

(* A locker that is local does not start a sync.                           *)
LEMMA LocalStaysLocal ==
  ASSUME IInv, chosen' = chosen, meta'.storage = meta.storage,
         \/ sync' = sync
         \/ meta.storage = "account" /\ sync.pc = "idle" /\ sync'.pc = "asked"
  PROVE  LocalKept'
BY DEF IInv, PushesAgreed, LocalKept

(* Steps that write neither the file nor the account keep it.              *)
LEMMA RequestsKeep ==
  ASSUME IInv,
         \/ Hydrate \/ Unlock \/ Made \/ Loaded \/ Lock \/ AccountAnswered
         \/ \E e \in Edits : Create(e) \/ Save(e)
  PROVE  IInv'
<1> USE LockerAssumption
<1>0. /\ TypeOK /\ file \in Vaults /\ db \in Vaults /\ task \in Tasks /\ sync \in Syncs
      /\ used \in 0 .. MaxEdits /\ (db = {}) \in BOOLEAN
  BY Typed DEF Types, IInv
<1>1. CASE Hydrate
  <2>1. /\ UNCHANGED <<file, meta, db, task, row, objects, clock, used, made, chosen, mishaps>>
        /\ StartSync(meta, db = {}, "none")
    BY <1>1 DEF Hydrate, deskVars, cloudVars
  <2>2. /\ sync' \in Syncs
        /\ \/ sync' = sync
           \/ /\ meta.storage = "account" /\ sync.pc = "idle"
              /\ sync'.pc = "asked" /\ sync'.remote = NoRow
    BY <1>0, <2>1, SyncStarts
  <2>3. TypeOK'
    BY <1>0, <2>1, <2>2, Typed DEF Types
  <2>4. TaskOK' /\ TaskCurrent' /\ OpenVaultCurrent'
    BY <2>1 DEF IInv, DeskOK, TaskOK, TaskCurrent, OpenVaultCurrent, WasOvertaken
  <2> QED BY <2>1, <2>2, <2>3, <2>4, LocalStaysLocal, RequestKeeps
<1>2. CASE Unlock
  <2>1. /\ UNCHANGED <<file, meta, db, row, objects, clock, used, made, chosen, mishaps>>
        /\ StartSync(meta, db = {}, "none") \/ sync' = sync
    BY <1>2 DEF Unlock, cloudVars
  <2>2. /\ sync' \in Syncs
        /\ \/ sync' = sync
           \/ /\ meta.storage = "account" /\ sync.pc = "idle"
              /\ sync'.pc = "asked" /\ sync'.remote = NoRow
    BY <1>0, <2>1, SyncStarts
  <2>3. \/ task' \in Tasks /\ task'.stage = "loading" /\ task'.bytes = file
        \/ task' \in Tasks /\ task'.stage \in {"unlock", "none"}
    <3>1. CASE file # {}
      <4>1. task' = [NoTask EXCEPT !.stage = "loading", !.bytes = file]
        BY <1>2, <3>1 DEF Unlock
      <4> QED BY <1>0, <4>1, ConstantRecords DEF Tasks
    <3>2. CASE file = {}
      <4>1. task' \in {[NoTask EXCEPT !.stage = "unlock"], NoTask}
        BY <1>2, <3>2 DEF Unlock
      <4> QED BY <4>1, ConstantRecords DEF Tasks
    <3> QED BY <3>1, <3>2
  <2>4. TypeOK'
    BY <1>0, <2>1, <2>2, <2>3, Typed DEF Types
  <2>5. TaskOK' /\ TaskCurrent' /\ OpenVaultCurrent'
    BY <2>1, <2>3 DEF IInv, DeskOK, TaskOK, TaskCurrent, OpenVaultCurrent, WasOvertaken
  <2> QED BY <2>1, <2>2, <2>4, <2>5, LocalStaysLocal, RequestKeeps
<1>3. CASE Made
  <2>1. /\ UNCHANGED <<file, meta, sync, row, objects, clock, used, made, chosen, mishaps>>
        /\ task.stage = "making" /\ db' = task.edit
    BY <1>3 DEF Made, cloudVars
  <2>2. /\ task' \in Tasks /\ task'.stage = "encoding" /\ task'.bytes = task.edit
        /\ task.edit \in Vaults
    BY <1>0, <1>3 DEF Made, Tasks
  <2>3. TypeOK'
    BY <1>0, <2>1, <2>2, Typed DEF Types
  <2>4. TaskOK' /\ TaskCurrent' /\ OpenVaultCurrent'
    BY <2>1, <2>2 DEF IInv, DeskOK, TaskOK, TaskCurrent, OpenVaultCurrent, WasOvertaken
  <2> QED BY <2>1, <2>3, <2>4, LocalStaysLocal, RequestKeeps
<1>4. CASE Loaded
  <2>1. /\ UNCHANGED <<file, meta, sync, row, objects, clock, used, made, chosen, mishaps>>
        /\ task.stage = "loading" /\ db' \in {task.bytes, db} /\ task' = NoTask
    BY <1>4 DEF Loaded, cloudVars
  <2>2. task.bytes \in Vaults /\ task' \in Tasks /\ task'.stage = "none"
    BY <1>0, <2>1, ConstantRecords DEF Tasks
  <2>3. TypeOK'
    BY <1>0, <2>1, <2>2, Typed DEF Types
  <2>4. TaskOK' /\ TaskCurrent' /\ OpenVaultCurrent'
    BY <2>1, <2>2 DEF IInv, DeskOK, TaskOK, TaskCurrent, OpenVaultCurrent, WasOvertaken
  <2> QED BY <2>1, <2>3, <2>4, LocalStaysLocal, RequestKeeps
<1>5. CASE Lock
  <2>1. /\ UNCHANGED <<file, meta, task, sync, row, objects, clock, used, made, chosen, mishaps>>
        /\ db' = {}
    BY <1>5 DEF Lock, cloudVars
  <2>2. TypeOK'
    BY <1>0, <2>1, Typed, ConstantRecords DEF Types
  <2>3. TaskOK' /\ TaskCurrent' /\ OpenVaultCurrent'
    BY <2>1 DEF IInv, DeskOK, TaskOK, TaskCurrent, OpenVaultCurrent, WasOvertaken
  <2> QED BY <2>1, <2>2, <2>3, LocalStaysLocal, RequestKeeps
<1>6. CASE AccountAnswered
  <2>1. /\ UNCHANGED <<file, meta, db, row, objects, clock, used, made, chosen, mishaps>>
        /\ task' = NoTask
        /\ StartSync(meta, db = {}, "none") \/ sync' = sync
    BY <1>6 DEF AccountAnswered, cloudVars
  <2>2. /\ sync' \in Syncs
        /\ \/ sync' = sync
           \/ /\ meta.storage = "account" /\ sync.pc = "idle"
              /\ sync'.pc = "asked" /\ sync'.remote = NoRow
    BY <1>0, <2>1, SyncStarts
  <2>3. TypeOK' /\ task'.stage = "none"
    BY <1>0, <2>1, <2>2, Typed, ConstantRecords DEF Types
  <2>4. TaskOK' /\ TaskCurrent' /\ OpenVaultCurrent'
    BY <2>1, <2>3 DEF IInv, DeskOK, TaskOK, TaskCurrent, OpenVaultCurrent, WasOvertaken
  <2> QED BY <2>1, <2>2, <2>3, <2>4, LocalStaysLocal, RequestKeeps
<1>7. ASSUME NEW e \in Edits, Create(e) PROVE IInv'
  <2>1. /\ UNCHANGED <<file, meta, db, row, objects, clock, made, chosen, mishaps>>
        /\ file = {} /\ used' = e /\ StartSync(meta, TRUE, "none")
    BY <1>7 DEF Create, cloudVars
  <2>2. /\ sync' \in Syncs
        /\ \/ sync' = sync
           \/ /\ meta.storage = "account" /\ sync.pc = "idle"
              /\ sync'.pc = "asked" /\ sync'.remote = NoRow
    BY <1>0, <2>1, SyncStarts
  <2>3. /\ task' \in Tasks /\ task'.stage \in {"create", "making"} /\ task'.edit # {}
        /\ used' \in 0 .. MaxEdits
    <3>1. {e} \in Vaults /\ {} \in Vaults /\ e \in 0 .. MaxEdits
      BY DEF Vaults, Edits
    <3>2. task' = [stage |-> IF sync' # sync THEN "create" ELSE "making", edit |-> {e}, bytes |-> {}]
      BY <1>7 DEF Create
    <3> QED BY <2>1, <3>1, <3>2 DEF Tasks
  <2>4. TypeOK'
    BY <1>0, <2>1, <2>2, <2>3, Typed DEF Types
  <2>5. TaskOK' /\ TaskCurrent' /\ OpenVaultCurrent'
    BY <2>1, <2>3 DEF IInv, DeskOK, TaskOK, TaskCurrent, OpenVaultCurrent, WasOvertaken
  <2> QED BY <2>1, <2>2, <2>4, <2>5, LocalStaysLocal, RequestKeeps
<1>8. ASSUME NEW e \in Edits, Save(e) PROVE IInv'
  <2>1. /\ UNCHANGED <<file, meta, sync, row, objects, clock, made, chosen, mishaps>>
        /\ db # {} /\ used' = e /\ db' = db \cup {e}
    BY <1>8 DEF Save, cloudVars
  <2>2. db' \in Vaults /\ db' # {} /\ used' \in 0 .. MaxEdits /\ {e} \in Vaults
    BY <1>0, <2>1 DEF Vaults, Edits
  <2>3. task' \in Tasks /\ task'.stage = "encoding" /\ task'.bytes = db'
    BY <1>8, <2>2 DEF Save, Tasks
  <2>4. TypeOK'
    BY <1>0, <2>1, <2>2, <2>3, Typed DEF Types
  <2>5. TaskOK' /\ TaskCurrent' /\ OpenVaultCurrent'
    BY <2>1, <2>2, <2>3 DEF IInv, DeskOK, TaskOK, TaskCurrent, OpenVaultCurrent, WasOvertaken
  <2> QED BY <2>1, <2>4, <2>5, LocalStaysLocal, RequestKeeps
<1> QED BY <1>1, <1>2, <1>3, <1>4, <1>5, <1>6, <1>7, <1>8

(* setStorage                                                              *)
LEMMA StorageKeeps ==
  ASSUME IInv, SetLocal \/ \E resolve \in {"ask", "keep-local", "keep-cloud"} : SetAccount(resolve)
  PROVE  IInv'
<1> USE LockerAssumption
<1>0. /\ TypeOK /\ file \in Vaults /\ db \in Vaults /\ meta \in Metas /\ task \in Tasks
      /\ sync \in Syncs /\ (db = {}) \in BOOLEAN
  BY Typed DEF Types, IInv
<1>1. CASE SetLocal
  <2>1. /\ UNCHANGED <<file, db, task, sync, row, objects, clock, used, made, mishaps>>
        /\ chosen' = (sync.pc = "idle") /\ chosen' \in BOOLEAN
    BY <1>1 DEF SetLocal, cloudVars
  <2>2. /\ meta' \in Metas /\ meta'.storage = "local" /\ meta'.rev = meta.rev
        /\ meta'.sum = meta.sum /\ meta'.dirty = meta.dirty /\ meta'.synced = meta.synced
    BY <1>0, <1>1 DEF SetLocal, Metas
  <2>3. TypeOK'
    BY <1>0, <2>1, <2>2, Typed DEF Types
  <2>4. TaskOK' /\ TaskCurrent' /\ OpenVaultCurrent'
    BY <2>1 DEF IInv, DeskOK, TaskOK, TaskCurrent, OpenVaultCurrent, WasOvertaken
  <2>5. LocalKept'
    BY <2>1, <2>2 DEF LocalKept
  <2> QED BY <2>1, <2>2, <2>3, <2>4, <2>5, RequestKeeps
<1>2. ASSUME NEW resolve \in {"ask", "keep-local", "keep-cloud"}, SetAccount(resolve) PROVE IInv'
  <2>1. /\ UNCHANGED <<file, row, objects, clock, used, made, mishaps>>
        /\ chosen' = FALSE /\ db' \in {db, {}}
        /\ task = NoTask /\ task' \in {task, [NoTask EXCEPT !.stage = "asking"]}
    BY <1>2 DEF SetAccount, cloudVars
  <2>2. /\ meta' \in Metas /\ meta'.rev = meta.rev
        /\ meta'.sum = meta.sum /\ meta'.dirty = meta.dirty /\ meta'.synced = meta.synced
    BY <1>0, <1>2 DEF SetAccount, Metas
  <2>3. \/ sync' = sync
        \/ \E a \in BOOLEAN, f \in {"none", "push", "pull"} : StartSync(meta', a, f)
    BY <1>0, <1>2 DEF SetAccount
  <2>4. /\ sync' \in Syncs
        /\ \/ sync' = sync
           \/ sync.pc = "idle" /\ sync'.pc = "asked" /\ sync'.remote = NoRow
    BY <1>0, <2>3, SyncStarts
  <2>5. task' \in Tasks /\ task'.stage \in {"none", "asking"}
    BY <2>1, ConstantRecords DEF Tasks
  <2>6. TypeOK'
    BY <1>0, <2>1, <2>2, <2>4, <2>5, Typed, ConstantRecords DEF Types
  <2>7. TaskOK' /\ TaskCurrent' /\ OpenVaultCurrent' /\ LocalKept'
    BY <2>1, <2>5
    DEF IInv, DeskOK, TaskOK, TaskCurrent, OpenVaultCurrent, WasOvertaken, LocalKept
  <2> QED BY <2>1, <2>2, <2>4, <2>6, <2>7, RequestKeeps
<1> QED BY <1>1, <1>2

(* #persist: the new version is the file, and a push that is under way is  *)
(* known to have been overlapped.                                          *)
LEMMA PersistKeeps == ASSUME IInv, Persist PROVE IInv'
<1> USE LockerAssumption
<1>0. TypeOK /\ Types
  BY Typed DEF IInv
<1>1. /\ task.stage = "encoding" /\ file' = task.bytes /\ clock' = clock + 1 /\ task' = NoTask
      /\ made' = made \cup {<<meta'.rev, file'>>} /\ mishaps' = mishaps \cup Overlap
      /\ StartSync(meta', FALSE, "none")
      /\ UNCHANGED <<db, row, objects, used, chosen>>
  BY DEF Persist, cloudVars
<1>2. task.bytes \in Vaults /\ task.bytes # {} /\ (db # {} => db = task.bytes)
  BY <1>0, <1>1 DEF Types, Tasks, IInv, DeskOK, TaskOK
<1>3. /\ meta' \in Metas /\ meta'.rev = meta.rev + 1 /\ meta'.sum = file' /\ meta'.dirty = TRUE
      /\ meta'.synced = meta.synced /\ meta'.storage = meta.storage
  <2>1. meta' = [meta EXCEPT !.rev = meta.rev + 1, !.stamp = clock + 1, !.sum = task.bytes,
                             !.dirty = TRUE]
    BY DEF Persist, Saved
  <2>2. meta \in Metas /\ meta.rev + 1 \in Nat /\ clock + 1 \in Nat
    BY <1>0 DEF Types, Metas
  <2> QED BY <1>1, <1>2, <2>1, <2>2 DEF Metas
<1>4. /\ sync' \in Syncs
      /\ \/ sync' = sync
         \/ /\ meta.storage = "account" /\ sync.pc = "idle"
            /\ sync'.pc = "asked" /\ sync'.remote = NoRow
  BY <1>0, <1>1, <1>3, SyncStarts
<1>5. /\ mishaps \subseteq mishaps' /\ (Torn' <=> Torn) /\ (WasOvertaken' <=> WasOvertaken)
      /\ mishaps' \subseteq {"overlapped", "overtaken", "torn"}
      /\ sync.pc \in {"reading", "uploading", "recording", "recorded"} => Overlapped'
  <2>1. Overlap \subseteq {"overlapped"}
    BY DEF Overlap
  <2>2. mishaps \subseteq mishaps' /\ mishaps' \subseteq {"overlapped", "overtaken", "torn"}
    BY <1>0, <1>1, <2>1 DEF Types
  <2>3. (Torn' <=> Torn) /\ (WasOvertaken' <=> WasOvertaken)
    BY <1>1, <2>1 DEF Torn, WasOvertaken
  <2>4. sync.pc \in {"reading", "uploading", "recording", "recorded"} => Overlapped'
    BY <1>1 DEF Overlap, Overlapped
  <2> QED BY <2>2, <2>3, <2>4
<1>6. meta.rev \in Nat /\ meta'.rev \in Nat /\ clock' \in Nat /\ clock <= clock'
  BY <1>0, <1>1, <1>3 DEF Types, Metas
<1>7. TypeOK'
  <2>1. made' \subseteq Nat \X Vaults
    BY <1>0, <1>1, <1>2, <1>6 DEF Types
  <2> QED BY <1>0, <1>1, <1>2, <1>3, <1>4, <1>5, <1>6, <2>1, Typed, ConstantRecords DEF Types
<1>8. \A v \in Row : Sound(v) => Sound(v)'
  BY <1>0, <1>1, <1>5, <1>6, SoundKept
<1>9. Sound(row)'
  BY <1>0, <1>1, <1>8 DEF IInv, Types, Sound
<1>10. SyncOK'
  <2>1. CASE sync' = sync
    <3>1. Sound(sync.remote)'
      <4>1. sync.remote \in Row /\ sync'.remote = sync.remote
        BY <1>0, <2>1 DEF Types, Syncs
      <4> QED BY <1>8, <4>1 DEF IInv, SyncOK, Sound
    <3>2. ReadingOK'
      BY <1>1, <1>2, <1>3, <2>1 DEF IInv, SyncOK, ReadingOK
    <3>3. BlobOK'
      BY <1>0, <1>1, <1>5, <1>6, <2>1 DEF IInv, SyncOK, BlobOK, Types, Syncs, Row
    <3>4. PushIsFile'
      BY <1>5, <2>1 DEF PushIsFile
    <3> QED BY <3>1, <3>2, <3>3, <3>4 DEF SyncOK
  <2>2. CASE sync'.pc = "asked" /\ sync'.remote = NoRow
    BY <2>2 DEF SyncOK, Sound, ReadingOK, BlobOK, PushIsFile
  <2> QED BY <1>4, <2>1, <2>2
<1>11. DeskOK'
  <2>1. FileWritten'
    BY <1>0, <1>1, <1>3, <1>6 DEF IInv, DeskOK, FileWritten, Types
  <2>2. TaskOK' /\ TaskCurrent' /\ OpenVaultCurrent'
    BY <1>1, <1>2, ConstantRecords DEF TaskOK, TaskCurrent, OpenVaultCurrent
  <2> QED BY <2>1, <2>2 DEF DeskOK
<1>12. CleanIsUploaded'
  BY <1>3 DEF CleanIsUploaded
<1>13. FirstLinkYields' /\ Linked'
  <2>1. ~WasOvertaken => file \subseteq file'
    BY <1>1 DEF IInv, DeskOK, TaskCurrent
  <2>2. FirstLinkYields'
    BY <1>4, <1>5 DEF IInv, PushesAgreed, FirstLinkYields, WasOvertaken
  <2>3. Linked'
    BY <1>1, <1>3, <1>4, <1>5, <2>1 DEF IInv, Linked
  <2> QED BY <2>2, <2>3
<1>14. LocalKept'
  BY <1>1, <1>3, <1>4, LocalStaysLocal
<1> QED BY <1>7, <1>9, <1>10, <1>11, <1>12, <1>13, <1>14 DEF IInv, PushesAgreed

-----------------------------------------------------------------------------
(* The synchronisation.                                                    *)

(* A request that awaited hydrate() goes on with the vault as it is now.   *)
LEMMA ResumedKeeps ==
  ASSUME IInv, task' = Resumed(task, file), file' = file, db' = db, mishaps' = mishaps
  PROVE  task' \in Tasks /\ TaskOK' /\ TaskCurrent' /\ OpenVaultCurrent'
<1>0. Types
  BY Typed DEF IInv
<1>1. CASE task.stage = "create" /\ file # {}
  <2>1. task' = NoTask
    BY <1>1 DEF Resumed
  <2> QED BY <2>1, ConstantRecords
          DEF IInv, DeskOK, TaskOK, TaskCurrent, OpenVaultCurrent, WasOvertaken
<1>2. CASE task.stage = "create" /\ file = {}
  <2>1. task' = [task EXCEPT !.stage = "making"]
    BY <1>2 DEF Resumed
  <2>2. task' \in Tasks /\ task'.stage = "making" /\ task'.edit = task.edit
    BY <1>0, <2>1 DEF Types, Tasks
  <2> QED BY <1>2, <2>2 DEF IInv, DeskOK, TaskOK, TaskCurrent, OpenVaultCurrent, WasOvertaken
<1>3. CASE task.stage = "unlock" /\ file # {}
  <2>1. task' = [task EXCEPT !.stage = "loading", !.bytes = file]
    BY <1>3 DEF Resumed
  <2>2. task' \in Tasks /\ task'.stage = "loading" /\ task'.bytes = file
    BY <1>0, <2>1 DEF Types, Tasks
  <2> QED BY <2>2 DEF IInv, DeskOK, TaskOK, TaskCurrent, OpenVaultCurrent, WasOvertaken
<1>4. CASE task.stage = "unlock" /\ file = {}
  <2>1. task' = NoTask
    BY <1>4 DEF Resumed
  <2> QED BY <2>1, ConstantRecords
          DEF IInv, DeskOK, TaskOK, TaskCurrent, OpenVaultCurrent, WasOvertaken
<1>5. CASE task.stage \notin {"create", "unlock"}
  <2>1. task' = task
    BY <1>5 DEF Resumed
  <2> QED BY <1>0, <2>1 DEF Types, IInv, DeskOK, TaskOK, TaskCurrent, OpenVaultCurrent, WasOvertaken
<1> QED BY <1>1, <1>2, <1>3, <1>4, <1>5

(* A sync that ends without having written the file or the metadata.       *)
LEMMA EndKeeps ==
  ASSUME IInv, EndSync(file), UNCHANGED <<file, meta, db, row, objects, clock, used, made, chosen, mishaps>>
  PROVE  IInv'
<1>0. Types
  BY Typed DEF IInv
<1>1. sync' = Idle /\ task' = Resumed(task, file)
  BY DEF EndSync
<1>2. task' \in Tasks /\ TaskOK' /\ TaskCurrent' /\ OpenVaultCurrent'
  BY <1>1, ResumedKeeps
<1>3. TypeOK'
  BY <1>0, <1>1, <1>2, ConstantRecords, Typed DEF Types
<1>4. SyncOK'
  BY <1>1, ConstantRecords DEF SyncOK, Sound, ReadingOK, BlobOK, PushIsFile
<1>5. Sound(row)' /\ DeskOK' /\ Linked' /\ CleanIsUploaded'
  BY <1>1, <1>2, ConstantRecords
  DEF IInv, Sound, Torn, DeskOK, FileWritten, Linked, WasOvertaken, CleanIsUploaded
<1>6. PushesAgreed'
  BY <1>1, ConstantRecords DEF IInv, PushesAgreed, FirstLinkYields, LocalKept
<1> QED BY <1>3, <1>4, <1>5, <1>6 DEF IInv

(* A sync goes on to its next await: the desktop's own state is untouched. *)
LEMMA SyncMovesKeep ==
  ASSUME IInv, sync.pc # "idle", sync' \in Syncs, SyncOK', FirstLinkYields', Linked',
         UNCHANGED <<file, meta, db, task, row, objects, clock, used, made, chosen, mishaps>>
  PROVE  IInv'
<1>0. Types
  BY Typed DEF IInv
<1>1. TypeOK'
  BY <1>0, Typed DEF Types
<1>2. Sound(row)' /\ DeskOK' /\ CleanIsUploaded'
  BY DEF IInv, Sound, Torn, DeskOK, FileWritten, TaskOK, TaskCurrent, OpenVaultCurrent, WasOvertaken,
     CleanIsUploaded
<1>3. LocalKept'
  BY DEF IInv, PushesAgreed, LocalKept
<1> QED BY <1>1, <1>2, <1>3 DEF IInv, PushesAgreed

(* The steps of sync() up to the push.                                     *)
LEMMA SyncKeeps ==
  ASSUME IInv,
         \/ CloudAnswersPull \/ SyncRests \/ SyncReads \/ SyncFails
         \/ \E bytes \in {sync.bytes, file} : Pushes(bytes)
  PROVE  IInv'
<1>0. Types
  BY Typed DEF IInv
<1>1. CASE CloudAnswersPull
  <2>1. /\ sync.pc = "asked"
        /\ UNCHANGED <<file, meta, db, task, row, objects, clock, used, made, chosen, mishaps>>
    BY <1>1 DEF CloudAnswersPull, deskVars, cloudVars
  <2>2. sync' \in Syncs /\ sync'.pc = "answered" /\ sync'.remote = row
    BY <1>0, <1>1 DEF CloudAnswersPull, Types, Syncs
  <2>3. SyncOK' /\ FirstLinkYields' /\ Linked'
    BY <2>1, <2>2
    DEF IInv, SyncOK, Sound, Torn, ReadingOK, BlobOK, PushIsFile, FirstLinkYields, Linked, WasOvertaken
  <2> QED BY <2>1, <2>2, <2>3, SyncMovesKeep
<1>2. CASE SyncRests
  BY <1>2, EndKeeps DEF SyncRests, cloudVars
<1>3. CASE SyncFails
  BY <1>3, EndKeeps DEF SyncFails, cloudVars
<1>4. CASE SyncReads
  <2>1. /\ sync.pc = "answered" /\ Action = "push" /\ file # {}
        /\ UNCHANGED <<file, meta, db, task, row, objects, clock, used, made, chosen, mishaps>>
    BY <1>4 DEF SyncReads, deskVars, cloudVars
  <2>2. /\ sync' \in Syncs /\ sync'.pc = "reading" /\ sync'.bytes = file
        /\ sync'.remote = sync.remote /\ sync'.force = sync.force
    BY <1>0, <1>4 DEF SyncReads, Types, Syncs
  <2>3. SyncOK'
    BY <2>1, <2>2 DEF IInv, SyncOK, Sound, Torn, ReadingOK, BlobOK, PushIsFile
  <2>4. sync.force = "none" /\ sync.remote # NoRow => meta.synced
    BY <2>1 DEF Action, PlanSync
  <2>5. FirstLinkYields' /\ Linked'
    BY <2>1, <2>2, <2>4 DEF IInv, FirstLinkYields, Linked, WasOvertaken
  <2> QED BY <2>1, <2>2, <2>3, <2>5, SyncMovesKeep
<1>5. ASSUME NEW bytes \in {sync.bytes, file}, Pushes(bytes) PROVE IInv'
  <2>1. sync.pc = "reading" /\ UNCHANGED <<meta, db, row, objects, clock, used, made, chosen, mishaps>>
    BY <1>5 DEF Pushes, cloudVars
  <2>2. CASE ~(BlobOf(bytes).sum = bytes /\ meta.rev > 0)
    BY <1>5, <2>1, <2>2, EndKeeps DEF Pushes
  <2>3. CASE BlobOf(bytes).sum = bytes /\ meta.rev > 0
    <3>1. /\ sync' = [sync EXCEPT !.pc = "uploading", !.bytes = bytes, !.blob = BlobOf(bytes)]
          /\ UNCHANGED <<file, task>>
      BY <1>5, <2>3 DEF Pushes
    <3>2. bytes # {} /\ bytes = file /\ bytes \in Vaults
      <4>1. sync.bytes # {} /\ file # {} /\ (sync.bytes = file \/ meta.sum = file)
        BY <2>1 DEF IInv, SyncOK, ReadingOK
      <4>2. BlobOf(bytes).sum = IF meta.sum = {} THEN bytes ELSE meta.sum
        BY DEF BlobOf
      <4> QED BY <1>0, <2>3, <4>1, <4>2 DEF Types
    <3>3. BlobOf(bytes) \in Row /\ BlobOf(bytes).rev = meta.rev
      BY <1>0, <3>2 DEF BlobOf, Row, Types, Metas
    <3>4. /\ sync' \in Syncs /\ sync'.pc = "uploading" /\ sync'.bytes = file
          /\ sync'.blob = BlobOf(bytes) /\ sync'.remote = sync.remote /\ sync'.force = sync.force
      BY <1>0, <3>1, <3>2, <3>3 DEF Types, Syncs
    <3>5. meta.rev \in 1 .. clock /\ (Torn \/ <<meta.rev, file>> \in made)
      BY <1>0, <2>3 DEF IInv, DeskOK, FileWritten, Types, Metas
    <3>6. BlobOK'
      BY <2>1, <2>3, <3>1, <3>2, <3>3, <3>4, <3>5 DEF BlobOK, Torn
    <3>7. SyncOK'
      BY <2>1, <3>1, <3>4, <3>6 DEF IInv, SyncOK, Sound, Torn, ReadingOK, PushIsFile
    <3>8. FirstLinkYields' /\ Linked'
      BY <2>1, <3>1, <3>4 DEF IInv, PushesAgreed, FirstLinkYields, Linked, WasOvertaken
    <3> QED BY <2>1, <3>1, <3>4, <3>7, <3>8, SyncMovesKeep
  <2> QED BY <2>2, <2>3
<1> QED BY <1>1, <1>2, <1>3, <1>4, <1>5

(* The account acts on a push.                                             *)
LEMMA CloudKeeps == ASSUME IInv, CloudStoresObject \/ CloudRecords PROVE IInv'
<1>0. TypeOK /\ Types
  BY Typed DEF IInv
<1>1. UNCHANGED <<file, meta, db, task, clock, used, made, chosen, mishaps>>
  BY DEF CloudStoresObject, CloudRecords, deskVars
<1>2. DeskOK'
  BY <1>1 DEF IInv, DeskOK, FileWritten, TaskOK, TaskCurrent, OpenVaultCurrent, WasOvertaken, Torn
<1>3. sync.pc \in {"uploading", "recording"} /\ sync'.pc \in {"recording", "recorded"}
      /\ sync' = [sync EXCEPT !.pc = IF sync.pc = "uploading" THEN "recording" ELSE "recorded"]
  BY <1>0 DEF CloudStoresObject, CloudRecords, Types, Syncs
<1>4. /\ sync' \in Syncs /\ sync'.bytes = sync.bytes /\ sync'.blob = sync.blob
      /\ sync'.remote = sync.remote /\ sync'.force = sync.force
  BY <1>0, <1>3 DEF Types, Syncs
<1>5. PushesAgreed'
  BY <1>1, <1>3, <1>4 DEF IInv, PushesAgreed, FirstLinkYields, LocalKept
<1>6. PushIsFile' /\ ReadingOK'
  BY <1>1, <1>3, <1>4 DEF IInv, SyncOK, PushIsFile, ReadingOK, Overlapped
<1>7. /\ sync.blob \in Row /\ sync.blob.rev \in 1 .. clock /\ sync.blob.sum = sync.bytes
      /\ sync.bytes # {} /\ sync.bytes \in Vaults
      /\ Torn \/ <<sync.blob.rev, sync.bytes>> \in made
  BY <1>0, <1>3 DEF IInv, SyncOK, BlobOK, Types, Syncs
<1>8. CASE CloudStoresObject
  <2>1. objects' = objects \cup {<<sync.blob.rev, sync.bytes>>} /\ row' = row
        /\ sync'.pc = "recording"
    BY <1>0, <1>8 DEF CloudStoresObject, Types, Syncs
  <2>2. \A v \in Row : Sound(v) => Sound(v)'
    BY <1>0, <1>1, <2>1, SoundKept DEF Types
  <2>3. Sound(row)' /\ Sound(sync.remote)'
    BY <1>0, <1>4, <2>1, <2>2 DEF IInv, SyncOK, Sound, Types, Syncs
  <2>4. BlobOK'
    BY <1>1, <1>4, <1>7, <2>1 DEF BlobOK, Torn
  <2>5. <<sync.blob.rev, sync.bytes>> \in Nat \X Vaults
    BY <1>7 DEF Row
  <2>6. TypeOK'
    BY <1>0, <1>1, <1>4, <2>1, <2>5, Typed DEF Types
  <2>7. CleanIsUploaded'
    BY <1>1, <2>1 DEF IInv, CleanIsUploaded
  <2>8. Linked'
    BY <1>1, <1>3, <1>4, <2>1 DEF IInv, Linked, WasOvertaken
  <2> QED BY <1>2, <1>5, <1>6, <2>3, <2>4, <2>6, <2>7, <2>8 DEF IInv, SyncOK
<1>9. CASE CloudRecords
  <2>1. objects' = objects /\ row' = sync.blob /\ sync.pc = "recording"
    BY <1>9 DEF CloudRecords
  <2>2. <<sync.blob.rev, sync.bytes>> \in objects
    BY <2>1 DEF IInv, SyncOK, BlobOK
  <2>3. Sound(row)' /\ Sound(sync.remote)'
    BY <1>1, <1>4, <1>7, <2>1, <2>2 DEF IInv, SyncOK, Sound, Torn
  <2>4. BlobOK'
    BY <1>1, <1>4, <1>7, <2>1, <2>2 DEF BlobOK, Torn
  <2>5. TypeOK'
    BY <1>0, <1>1, <1>4, <1>7, <2>1, Typed DEF Types
  <2>6. CleanIsUploaded'
    BY <1>1, <2>1 DEF IInv, CleanIsUploaded
  <2>7. Linked'
    <3>1. row'.sum = sync.bytes /\ sync.bytes # {} /\ sync'.pc = "recorded"
      BY <1>3, <1>7, <2>1
    <3> QED BY <1>1, <1>4, <2>1, <3>1 DEF IInv, Linked, WasOvertaken
  <2> QED BY <1>2, <1>5, <1>6, <2>3, <2>4, <2>5, <2>6, <2>7 DEF IInv, SyncOK
<1> QED BY <1>8, <1>9

(* The sync's two ends that change the metadata: a pull, and a push that   *)
(* is acknowledged.                                                        *)
LEMMA SyncWritesKeep == ASSUME IInv, SyncPulls \/ PushAcknowledged PROVE IInv'
<1>0. Types
  BY Typed DEF IInv
<1>1. /\ sync' = Idle /\ sync'.pc = "idle" /\ sync'.remote = NoRow /\ sync' \in Syncs
      /\ UNCHANGED <<db, row, objects, clock, used, made, chosen>> /\ sync.pc # "idle"
  BY ConstantRecords DEF SyncPulls, PushAcknowledged, EndSync, cloudVars
<1>2. SyncOK' /\ PushesAgreed'
  BY <1>1 DEF IInv, SyncOK, Sound, ReadingOK, BlobOK, PushIsFile, PushesAgreed, FirstLinkYields,
         LocalKept
<1>3. CASE PushAcknowledged
  <2>1. /\ UNCHANGED <<file, mishaps>> /\ sync.pc = "recorded" /\ task' = Resumed(task, file)
        /\ meta' = [meta EXCEPT !.dirty = FALSE, !.synced = TRUE, !.sum = sync.blob.sum,
                                !.storage = "account"]
    BY <1>3 DEF PushAcknowledged, EndSync
  <2>2. sync.blob.sum \in Vaults
    BY <1>0 DEF Types, Syncs, Row
  <2>3. meta' \in Metas /\ meta'.rev = meta.rev
    BY <1>0, <2>1, <2>2 DEF Types, Metas
  <2>4. task' \in Tasks /\ TaskOK' /\ TaskCurrent' /\ OpenVaultCurrent'
    BY <1>1, <2>1, ResumedKeeps
  <2>5. TypeOK'
    BY <1>0, <1>1, <2>1, <2>3, <2>4, Typed DEF Types
  <2>6. Sound(row)' /\ DeskOK'
    BY <1>1, <2>1, <2>3, <2>4 DEF IInv, Sound, Torn, DeskOK, FileWritten
  <2>7. CleanIsUploaded'
    <3>1. sync.blob.rev \in 1 .. clock /\ <<sync.blob.rev, sync.bytes>> \in objects
      BY <2>1 DEF IInv, SyncOK, BlobOK
    <3>2. mishaps \subseteq {"overtaken"} => sync.bytes = file
      BY <2>1 DEF IInv, SyncOK, PushIsFile, Overlapped
    <3> QED BY <1>1, <2>1, <3>1, <3>2 DEF CleanIsUploaded
  <2>8. Linked'
    <3>1. sync.bytes # {}
      BY <2>1 DEF IInv, SyncOK, BlobOK
    <3>2. ~WasOvertaken => sync.bytes \subseteq file /\ sync.bytes \subseteq row.sum
      BY <2>1 DEF IInv, Linked
    <3> QED BY <1>1, <2>1, <3>1, <3>2 DEF Linked, WasOvertaken
  <2> QED BY <1>2, <2>5, <2>6, <2>7, <2>8 DEF IInv
<1>4. CASE SyncPulls
  <2>1. /\ sync.remote # NoRow /\ db = {} /\ file' = sync.remote.sum
        /\ meta' = Pulled(sync.remote) /\ mishaps' = mishaps \cup Overtaken
        /\ task' = Resumed(task, sync.remote.sum)
    BY <1>4 DEF SyncPulls, MayPull, EndSync
  <2>2. /\ sync.remote \in Row /\ sync.remote.rev \in 1 .. clock /\ sync.remote.sum # {}
        /\ <<sync.remote.rev, sync.remote.sum>> \in objects
        /\ Torn \/ <<sync.remote.rev, sync.remote.sum>> \in made
    BY <1>0, <2>1 DEF IInv, SyncOK, Sound, Types, Syncs
  <2>3. meta' \in Metas /\ meta'.rev = sync.remote.rev
    BY <2>1, <2>2 DEF Pulled, Metas, Row
  <2>4. /\ mishaps \subseteq mishaps' /\ mishaps' \subseteq {"overlapped", "overtaken", "torn"}
        /\ Torn' <=> Torn
        /\ ~WasOvertaken' => task.stage \notin {"making", "loading", "encoding"}
    <3>1. Overtaken \subseteq {"overtaken"}
      BY DEF Overtaken
    <3>2. task.stage \in {"making", "loading", "encoding"} => "overtaken" \in Overtaken
      BY DEF Overtaken
    <3> QED BY <1>0, <2>1, <3>1, <3>2 DEF Types, Torn, WasOvertaken
  <2>5. /\ task' \in Tasks
        /\ \/ task'.stage = "none"
           \/ task'.stage = "loading" /\ task'.bytes = file'
           \/ task' = task /\ task.stage \notin {"create", "unlock"}
    <3>1. CASE task.stage = "create"
      BY <2>1, <2>2, <3>1, ConstantRecords DEF Resumed
    <3>2. CASE task.stage = "unlock"
      <4>1. task' = [task EXCEPT !.stage = "loading", !.bytes = sync.remote.sum]
        BY <2>1, <2>2, <3>2 DEF Resumed
      <4>2. sync.remote.sum \in Vaults
        BY <2>2 DEF Row
      <4> QED BY <1>0, <2>1, <4>1, <4>2 DEF Types, Tasks
    <3>3. CASE task.stage \notin {"create", "unlock"}
      BY <1>0, <2>1, <3>3 DEF Resumed, Types
    <3> QED BY <3>1, <3>2, <3>3
  <2>6. TypeOK'
    BY <1>0, <1>1, <2>1, <2>2, <2>3, <2>4, <2>5, Typed DEF Types, Row
  <2>7. FileWritten'
    BY <1>1, <2>1, <2>2, <2>3, <2>4 DEF FileWritten
  <2>8. TaskOK' /\ TaskCurrent' /\ OpenVaultCurrent'
    BY <1>1, <2>1, <2>4, <2>5 DEF IInv, DeskOK, TaskOK, TaskCurrent, OpenVaultCurrent
  <2>9. Sound(row)'
    BY <1>1, <2>4 DEF IInv, Sound
  <2>10. CleanIsUploaded'
    BY <1>1, <2>1, <2>2 DEF CleanIsUploaded
  <2>11. Linked'
    <3>1. ~WasOvertaken => sync.remote.sum \subseteq row.sum
      BY <1>4 DEF IInv, Linked, SyncPulls
    <3>2. ~WasOvertaken' => ~WasOvertaken
      BY <2>1 DEF WasOvertaken
    <3> QED BY <1>1, <2>1, <2>2, <3>1, <3>2 DEF Linked
  <2> QED BY <1>2, <2>6, <2>7, <2>8, <2>9, <2>10, <2>11 DEF IInv, DeskOK
<1> QED BY <1>3, <1>4

-----------------------------------------------------------------------------
(* The other device, and the end of the process.                           *)

(* A version pushed by another device keeps it.                            *)
LEMMA PeerKeeps == ASSUME IInv, NEW e \in Edits, PeerPushes(e) PROVE IInv'
<1> USE LockerAssumption
<1>0. TypeOK /\ Types
  BY Typed DEF IInv
<1>1. /\ used' = e /\ clock' = clock + 1
      /\ row' = [rev |-> row.rev + 1, stamp |-> clock + 1, sum |-> row.sum \cup {e}]
      /\ objects' = objects \cup {<<row.rev + 1, row.sum \cup {e}>>}
      /\ made' = made \cup {<<row.rev + 1, row.sum \cup {e}>>}
      /\ UNCHANGED <<file, meta, db, task, sync, chosen, mishaps>>
  <2>1. row' = [rev |-> row.rev + 1, stamp |-> clock + 1, sum |-> row.sum \cup {e}]
    BY DEF PeerPushes
  <2>2. row'.rev = row.rev + 1 /\ row'.sum = row.sum \cup {e}
    BY <2>1
  <2> QED BY <2>1, <2>2 DEF PeerPushes, deskVars
<1>2. /\ row.rev \in Nat /\ row.rev <= clock /\ row.sum \in Vaults /\ clock \in Nat
      /\ row.sum \cup {e} \in Vaults /\ e \in 0 .. MaxEdits
  BY <1>0 DEF IInv, Sound, Types, Row, NoRow, Vaults, Edits
<1>3. \A v \in Row : Sound(v) => Sound(v)'
  BY <1>0, <1>1, <1>2, SoundKept
<1>4. TypeOK'
  <2>1. <<row.rev + 1, row.sum \cup {e}>> \in Nat \X Vaults /\ row' \in Row /\ clock' \in Nat
    BY <1>1, <1>2 DEF Row
  <2>2. objects' \subseteq Nat \X Vaults /\ made' \subseteq Nat \X Vaults
    BY <1>0, <1>1, <2>1 DEF Types
  <2> QED BY <1>0, <1>1, <1>2, <2>1, <2>2, Typed DEF Types
<1>5. Sound(row)'
  <2>1. row'.rev = row.rev + 1 /\ row'.sum = row.sum \cup {e}
    BY <1>1
  <2> QED BY <1>1, <1>2, <2>1 DEF Sound
<1>6. SyncOK'
  <2>1. Sound(sync.remote)'
    BY <1>0, <1>1, <1>3 DEF IInv, SyncOK, Sound, Types, Syncs
  <2>2. ReadingOK' /\ PushIsFile'
    BY <1>1 DEF IInv, SyncOK, ReadingOK, PushIsFile, Overlapped
  <2>3. BlobOK'
    BY <1>1, <1>2 DEF IInv, SyncOK, BlobOK, Torn
  <2> QED BY <2>1, <2>2, <2>3 DEF SyncOK
<1>7. DeskOK'
  <2>1. FileWritten'
    BY <1>0, <1>1, <1>2 DEF IInv, DeskOK, FileWritten, Torn, Types, Metas
  <2>2. TaskOK' /\ TaskCurrent' /\ OpenVaultCurrent'
    BY <1>1 DEF IInv, DeskOK, TaskOK, TaskCurrent, OpenVaultCurrent, WasOvertaken
  <2> QED BY <2>1, <2>2 DEF DeskOK
<1>8. CleanIsUploaded'
  BY <1>1, <1>2 DEF IInv, CleanIsUploaded
<1>9. PushesAgreed' /\ Linked'
  <2>1. PushesAgreed'
    BY <1>1 DEF IInv, PushesAgreed, FirstLinkYields, LocalKept
  <2>2. row'.sum = row.sum \cup {e}
    BY <1>1
  <2>3. Linked'
    BY <1>1, <2>2 DEF IInv, Linked, WasOvertaken
  <2> QED BY <2>1, <2>3
<1> QED BY <1>4, <1>5, <1>6, <1>7, <1>8, <1>9 DEF IInv

(* A crash, also one between the two writes of a version, keeps it.        *)
LEMMA CrashKeeps == ASSUME IInv, Crash \/ CrashBetweenWrites PROVE IInv'
<1>0. Types
  BY Typed DEF IInv
<1>1. /\ db' = {} /\ task' = NoTask /\ sync' = Idle
      /\ UNCHANGED <<meta, row, objects, clock, used, made, chosen>>
  BY DEF Crash, CrashBetweenWrites, Ended, cloudVars
<1>2. /\ task' \in Tasks /\ task'.stage = "none"
      /\ sync' \in Syncs /\ sync'.pc = "idle" /\ sync'.remote = NoRow
  BY <1>1, ConstantRecords
<1>3. \/ UNCHANGED <<file, mishaps>>
      \/ mishaps' = mishaps \cup {"torn"} /\ file' \in Vaults
  BY <1>0 DEF Crash, CrashBetweenWrites, Types, Tasks, Syncs, Row
<1>4. TypeOK'
  BY <1>0, <1>1, <1>2, <1>3, ConstantRecords, Typed DEF Types
<1>5. Sound(row)'
  BY <1>1, <1>3 DEF IInv, Sound, Torn
<1>6. SyncOK'
  BY <1>2 DEF SyncOK, Sound, ReadingOK, BlobOK, PushIsFile
<1>7. DeskOK'
  BY <1>1, <1>2, <1>3 DEF IInv, DeskOK, FileWritten, Torn, TaskOK, TaskCurrent, OpenVaultCurrent
<1>8. CleanIsUploaded'
  <2>1. CASE UNCHANGED <<file, mishaps>>
    BY <1>1, <2>1 DEF IInv, CleanIsUploaded
  <2>2. CASE mishaps' = mishaps \cup {"torn"}
    <3>1. ~(mishaps' \subseteq {"overtaken"})
      BY <2>2
    <3> QED BY <3>1 DEF CleanIsUploaded
  <2> QED BY <1>3, <2>1, <2>2
<1>9. PushesAgreed'
  BY <1>1, <1>2 DEF IInv, PushesAgreed, FirstLinkYields, LocalKept
<1>10. Linked'
  <2>1. ~WasOvertaken' => ~WasOvertaken
    BY <1>3 DEF WasOvertaken
  <2>2. ASSUME ~WasOvertaken, meta.synced PROVE file' \cap row.sum # {}
    <3>1. file \cap row.sum # {}
      BY <2>2 DEF IInv, Linked
    <3>2. CASE file' = file
      BY <3>1, <3>2
    <3>3. CASE task.stage = "encoding" /\ file' = task.bytes
      BY <2>2, <3>1, <3>3 DEF IInv, DeskOK, TaskCurrent
    <3>4. CASE sync.pc = "answered" /\ MayPull /\ file' = sync.remote.sum
      <4>1. sync.remote.sum # {} /\ sync.remote.sum \subseteq row.sum
        BY <2>2, <3>4 DEF IInv, Linked, MayPull, SyncOK, Sound
      <4> QED BY <3>4, <4>1
    <3> QED BY <3>2, <3>3, <3>4 DEF Crash, CrashBetweenWrites
  <2> QED BY <1>1, <1>2, <2>1, <2>2 DEF Linked
<1> QED BY <1>4, <1>5, <1>6, <1>7, <1>8, <1>9, <1>10 DEF IInv

-----------------------------------------------------------------------------
(* The theorems.                                                           *)

(* Every step keeps the invariant.                                         *)
LEMMA NextIInv == IInv /\ [Next]_vars => IInv'
<1> SUFFICES ASSUME IInv, [Next]_vars PROVE IInv'
  OBVIOUS
<1>1. CASE Next
  BY <1>1, RequestsKeep, StorageKeeps, PersistKeeps, SyncKeeps, CloudKeeps, SyncWritesKeep, PeerKeeps,
     CrashKeeps DEF Next, SyncStep
<1>2. CASE UNCHANGED vars
  <2>1. TypeOK'
    BY <1>2 DEF vars, IInv, TypeOK
  <2>2. TaskOK' /\ TaskCurrent' /\ OpenVaultCurrent' /\ LocalKept'
    BY <1>2 DEF vars, IInv, DeskOK, TaskOK, TaskCurrent, OpenVaultCurrent, WasOvertaken, PushesAgreed,
       LocalKept
  <2> QED BY <1>2, <2>1, <2>2, RequestKeeps DEF vars
<1> QED BY <1>1, <1>2

(* Hence it holds in every reachable state.                                *)
LEMMA SpecIInv == Spec => []IInv
<1>1. Init => IInv
  BY InitIInv
<1>2. IInv /\ [Next]_vars => IInv'
  BY NextIInv
<1> QED BY <1>1, <1>2, PTL DEF Spec

(* What is in the account can be restored and is what it says it is: the   *)
(* object the row names is stored wherever a push was interrupted, and it  *)
(* is a version some device wrote under that revision, unless a process    *)
(* died between the two writes of a version.                               *)
THEOREM AccountIsSound == Spec => []AccountSound
<1>1. IInv => AccountSound
  BY DEF IInv, Sound, Torn, AccountSound, CloudReadable, CloudHoldsAWrittenVersion
<1> QED BY <1>1, SpecIInv, PTL

(* An open vault contains what is on disk, so that the next save drops     *)
(* nothing, unless a pull has overtaken a request.                         *)
THEOREM OpenVaultStaysCurrent == Spec => []OpenVaultCurrent
<1>1. IInv => OpenVaultCurrent
  BY DEF IInv, DeskOK
<1> QED BY <1>1, SpecIInv, PTL

(* A vault that is reported as synced is stored in the account, unless a   *)
(* save overlapped a push or a process died between two writes.            *)
THEOREM CleanVaultIsUploaded == Spec => []CleanIsUploaded
<1>1. IInv => CleanIsUploaded
  BY DEF IInv
<1> QED BY <1>1, SpecIInv, PTL

(* Nothing is pushed that the user has not agreed to push: what goes over  *)
(* a version seen in the account descends from the account's vault, unless *)
(* the user chose this device's copy or a pull has overtaken a request;    *)
(* and a locker made local with no sync under way stays local.             *)
THEOREM PushesAreAgreed == Spec => []PushesAgreed
<1>1. IInv => PushesAgreed
  BY DEF IInv
<1> QED BY <1>1, SpecIInv, PTL
=============================================================================
