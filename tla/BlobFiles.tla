----------------------------- MODULE BlobFiles ------------------------------
(***************************************************************************)
(* What the operations do to the namespace directory, one file-system call *)
(* at a time, on Unix and on Windows, with calls that fail, a process that *)
(* is killed between any two of them, and a store opened again afterwards. *)
(*                                                                         *)
(* The engine runs at most one operation per key and runs cleanup alone    *)
(* (Engine: SameKeyOrder, MaintenanceBarrier); that is assumed here.  The  *)
(* contents of a file are the value whose envelope it holds and whether    *)
(* the envelope is whole.                                                  *)
(***************************************************************************)
EXTENDS Integers, FiniteSets

CONSTANTS
  Keys,
  Values,     \* payloads
  Ids,        \* what random_identifier can return
  NoId,       \* canonical names carry no identifier
  NoFile,     \* nothing under that name
  Absent,     \* the state of a key without a blob
  Windows,    \* TRUE for the Windows backend, FALSE for Unix
  MaxClock,   \* bound on the time
  MaxBack,    \* bound on how far the clock is set back
  MinAge      \* minimum_age of cleanup_stale_temporary_files

ASSUME BlobFilesAssumption ==
  /\ Windows \in BOOLEAN
  /\ {MaxClock, MaxBack} \subseteq Nat
  /\ MinAge \in Nat \ {0}
  /\ NoId \notin Ids
  /\ Absent \notin Values

VARIABLES
  store,       \* "closed", "creating" (namespace made, root not synced), "open"
  namespace,   \* the namespace directory exists
  rootDirty,   \* its entry in the root has not been synchronized
  dir,         \* the files of the namespace, by name
  dirty,       \* keys whose canonical entry changed since the last sync
  op,          \* per key, the operation a worker is running
  cleanup,     \* the entries cleanup still has to look at, and its time
  clock,       \* the time that has passed
  behind,      \* by how much the system's clock has been set back
  believed,    \* history: the states of each key its callers must reckon with
  succeeded,   \* history: the kind of the last operation if it succeeded
  diagnosed,   \* history: the quarantined files callers were told about
  debris       \* history: staging names given up by failed or killed work

vars == <<store, namespace, rootDirty, dir, dirty, op, cleanup, clock,
          behind, believed, succeeded, diagnosed, debris>>
fileVars == <<store, namespace, rootDirty, clock, behind, cleanup>>

Name(kind, k, i) == <<kind, k, i>>
Blob(k) == Name("blob", k, NoId)
Names == {Blob(k) : k \in Keys}
           \cup ({"save", "clear", "quarantine"} \X Keys \X Ids)

(* is_owned_temporary_filename: names ending in .tmp-v1.save.<id> or       *)
(* .tmp-v1.clear.<id>.  On Unix "save" names stand for the temporary files *)
(* of atomic-write-file.                                                   *)
\* mutant: every name with an identifier is taken for a staging file
OwnedTemporaryAny(n) == n[1] # "blob"
OwnedTemporary(n) == n[1] \in {"save", "clear"}

(* The system's clock, which may have been set back.                       *)
Wall == clock - behind
WallTimes == (-MaxBack)..MaxClock

File == [value : Values, whole : BOOLEAN, mtime : WallTimes, begun : 0..MaxClock]

ASSUME NoFileAssumption == NoFile \notin File

Idle == [pc |-> "idle"]
Kinds == {"save", "saveStream", "clear", "quarantine"}
Pcs == {"open", "write", "commit", "replace", "refresh", "remove", "sync", "delete"}
Op == [pc : Pcs, kind : Kinds, value : Values \cup {Absent}, name : Names, begun : 0..MaxClock]

NoCleanup == [running |-> FALSE]

TypeOK ==
  /\ store \in {"closed", "creating", "open"}
  /\ namespace \in BOOLEAN
  /\ rootDirty \in BOOLEAN
  /\ dir \in [Names -> File \cup {NoFile}]
  /\ dirty \subseteq Keys
  /\ op \in [Keys -> Op \cup {Idle}]
  /\ cleanup \in {NoCleanup} \cup
       [running : {TRUE}, todo : SUBSET Names, now : WallTimes]
  /\ clock \in 0..MaxClock
  /\ behind \in 0..MaxBack
  /\ believed \in [Keys -> SUBSET (Values \cup {Absent})]
  /\ succeeded \in [Keys -> Kinds \cup {"none"}]
  /\ diagnosed \subseteq (Names \X Values)
  /\ debris \subseteq Names

Init ==
  /\ store = "closed"
  /\ namespace = FALSE
  /\ rootDirty = FALSE
  /\ dir = [n \in Names |-> NoFile]
  /\ dirty = {}
  /\ op = [k \in Keys |-> Idle]
  /\ cleanup = NoCleanup
  /\ clock = 0
  /\ behind = 0
  /\ believed = [k \in Keys |-> {Absent}]
  /\ succeeded = [k \in Keys |-> "none"]
  /\ diagnosed = {}
  /\ debris = {}

-----------------------------------------------------------------------------
(* Opening the store: initialize_platform.                                 *)

OpenStore ==
  /\ store = "closed"
  /\ namespace' = TRUE
  /\ store' = IF namespace \/ Windows THEN "open" ELSE "creating"
  /\ rootDirty' = (rootDirty \/ ~namespace)
  /\ UNCHANGED <<dir, dirty, op, cleanup, clock, behind, believed, succeeded, diagnosed, debris>>

(* On Unix a created namespace is followed by a sync of the root.          *)
SyncRoot(ok) ==
  /\ store = "creating"
  /\ store' = IF ok THEN "open" ELSE "closed"
  /\ rootDirty' = ~ok
  /\ UNCHANGED <<namespace, dir, dirty, op, cleanup, clock, behind, believed, succeeded,
                 diagnosed, debris>>

-----------------------------------------------------------------------------
(* Operations.                                                             *)

(* What the caller of an operation may conclude from its result.           *)
Conclusion(k, r) ==
  CASE r \in {"Ok", "SyncNamespaceDirectory", "RemoveTemporaryFile",
              "QuarantineNamespaceSync"} -> {op[k].value}
    [] r = "AtomicCommit"                -> believed[k] \cup {op[k].value}
    [] r = "QuarantineSourceMissing"     -> {Absent}
    [] OTHER                             -> believed[k]

Staging(o) == {o.name} \cap ({"save", "clear"} \X Keys \X Ids)

(* The operation returns r to the worker, which reports it to the caller.  *)
Return(k, r) ==
  /\ op' = [op EXCEPT ![k] = Idle]
  /\ believed' = [believed EXCEPT ![k] = Conclusion(k, r)]
  /\ succeeded' = [succeeded EXCEPT ![k] = IF r = "Ok" THEN op[k].kind ELSE "none"]
  /\ debris' = IF r = "Ok" THEN debris ELSE debris \cup Staging(op[k])

Goto(k, pc, n) ==
  /\ op' = [op EXCEPT ![k].pc = pc, ![k].name = n]
  /\ debris' = debris \ {n}
  /\ UNCHANGED <<believed, succeeded>>

At(k, pc) == store = "open" /\ op[k].pc = pc

(* A retry on AlreadyExists is another draw of the identifier.             *)
Free(n) == dir[n] = NoFile

(* A worker starts an operation that is to leave the key in state v.       *)
Begin(k, kind, v) ==
  /\ At(k, "idle")
  /\ kind \in {"save", "saveStream"} <=> v \in Values
  /\ ~cleanup.running
  /\ op' = [op EXCEPT ![k] =
       [pc |-> CASE kind \in {"save", "saveStream"} -> "open"
                 [] kind = "clear" /\ Windows       -> "refresh"
                 [] OTHER                           -> "remove",
        kind |-> kind, value |-> v, name |-> Blob(k), begun |-> clock]]
  /\ UNCHANGED <<fileVars, dir, dirty, believed, succeeded, diagnosed, debris>>

-----------------------------------------------------------------------------
(* save and save_from.                                                     *)

\* mutant: the envelope is written in place
InPlaceName(k, i) == Blob(k)
StagingName(k, i) == Name("save", k, i)

(* The staging file is created under a name nobody has.                    *)
SaveOpen(k, ok) ==
  /\ At(k, "open")
  /\ IF ok
       THEN \E i \in Ids :
              LET n == StagingName(k, i) IN
              /\ Free(n)
              /\ dir' = [dir EXCEPT ![n] =
                   [value |-> op[k].value, whole |-> FALSE, mtime |-> Wall,
                    begun |-> op[k].begun]]
              /\ Goto(k, "write", n)
       ELSE Return(k, "OpenAtomicWriter") /\ UNCHANGED dir
  /\ UNCHANGED <<fileVars, dirty, diagnosed>>

(* What a failed write leaves under the staging name: Unix drops the       *)
(* writer, which removes it; on Windows a streaming save tries to delete   *)
(* it and an ordinary save leaves it to cleanup.                           *)
AfterFailedWrite(k) ==
  CASE ~Windows                              -> {NoFile}
    [] Windows /\ op[k].kind = "saveStream"  -> {NoFile, dir[op[k].name]}
    [] OTHER                                 -> {dir[op[k].name]}

(* The envelope is written and flushed, or the write fails or the stream   *)
(* ends early, is too long or is cancelled.                                *)
SaveWrite(k, ok) ==
  /\ At(k, "write")
  /\ IF ok
       THEN /\ dir' = [dir EXCEPT ![op[k].name].whole = TRUE, ![op[k].name].mtime = Wall]
            /\ Goto(k, "commit", op[k].name)
       ELSE /\ \E f \in AfterFailedWrite(k) : dir' = [dir EXCEPT ![op[k].name] = f]
            /\ Return(k, "WriteEnvelope")
  /\ UNCHANGED <<fileVars, dirty, diagnosed>>

\* mutant: a failed commit is reported like a failed write
CommitErrorAsWrite == "WriteEnvelope"
CommitError == "AtomicCommit"

Rename(n, m) == [dir EXCEPT ![n] = NoFile, ![m] = dir[n]]

(* Unix: AtomicWriteFile::commit renames over the canonical path and       *)
(* synchronizes the directory; an error does not say how far it got.       *)
UnixCommit(k, ok) ==
  /\ ~Windows
  /\ At(k, "commit")
  /\ \E moved \in IF ok THEN {TRUE} ELSE BOOLEAN :
       /\ dir' = IF moved THEN Rename(op[k].name, Blob(k))
                 ELSE [dir EXCEPT ![op[k].name] = NoFile]
       /\ dirty' = IF ok THEN {} ELSE IF moved THEN dirty \cup {k} ELSE dirty
  /\ Return(k, IF ok THEN "Ok" ELSE CommitError)
  /\ UNCHANGED <<fileVars, diagnosed>>

(* Windows: a move that replaces nothing, then one that replaces.          *)
\* mutant: the old blob is deleted to make room
DeleteBeforeReplace(k) == [dir EXCEPT ![Blob(k)] = NoFile]
BeforeReplace(k) == dir

WindowsMove(k, ok) ==
  /\ Windows
  /\ At(k, "commit") \/ At(k, "replace")
  /\ CASE ~ok ->
            Return(k, CommitError) /\ UNCHANGED <<dir, dirty>>
       [] ok /\ op[k].pc = "commit" /\ ~Free(Blob(k)) ->
            /\ Goto(k, "replace", op[k].name)
            /\ dir' = BeforeReplace(k)
            /\ UNCHANGED dirty
       [] OTHER ->
            /\ dir' = Rename(op[k].name, Blob(k))
            /\ dirty' = dirty \cup {k}
            /\ Goto(k, "sync", op[k].name)
  /\ UNCHANGED <<fileVars, diagnosed>>

-----------------------------------------------------------------------------
(* clear and quarantine.                                                   *)

(* Windows: the blob's modification time is set to now, so that cleanup    *)
(* does not take the staged blob for an old file.  An error may come from  *)
(* the flush, after the time was set.                                      *)
\* mutant: the modification time is left alone
KeepClearAge(k) == [dir[Blob(k)] EXCEPT !.begun = op[k].begun]
RefreshClearAge(k) == [dir[Blob(k)] EXCEPT !.mtime = Wall, !.begun = op[k].begun]

ClearRefresh(k, ok) ==
  /\ At(k, "refresh")
  /\ CASE Free(Blob(k)) ->
            Return(k, IF ok THEN "Ok" ELSE "InspectNamespace") /\ UNCHANGED dir
       [] ok /\ ~Free(Blob(k)) ->
            /\ dir' = [dir EXCEPT ![Blob(k)] = RefreshClearAge(k)]
            /\ Goto(k, "remove", Blob(k))
       [] OTHER ->
            /\ dir' \in {dir, [dir EXCEPT ![Blob(k)] = RefreshClearAge(k)]}
            /\ Return(k, "RefreshClearStagingAge")
  /\ UNCHANGED <<fileVars, dirty, diagnosed>>

(* Unix removes the blob; Windows first moves it to a clear staging name.  *)
ClearRemove(k, ok) ==
  /\ At(k, "remove") /\ op[k].kind = "clear"
  /\ CASE Free(Blob(k)) ->
            Return(k, IF ok THEN "Ok" ELSE "InspectNamespace") /\ UNCHANGED <<dir, dirty>>
       [] ~ok /\ ~Free(Blob(k)) ->
            Return(k, "RemoveBlob") /\ UNCHANGED <<dir, dirty>>
       [] OTHER ->
            /\ \/ /\ ~Windows
                  /\ dir' = [dir EXCEPT ![Blob(k)] = NoFile]
                  /\ Goto(k, "sync", Blob(k))
               \/ /\ Windows
                  /\ \E i \in Ids :
                       LET n == Name("clear", k, i) IN
                       /\ Free(n)
                       /\ dir' = Rename(Blob(k), n)
                       /\ Goto(k, "sync", n)
            /\ dirty' = dirty \cup {k}
  /\ UNCHANGED <<fileVars, diagnosed>>

(* The blob is moved to a quarantine name that does not exist yet.         *)
QuarantineFree(n) == Free(n)

Quarantine(k, ok) ==
  /\ At(k, "remove") /\ op[k].kind = "quarantine"
  /\ CASE Free(Blob(k)) ->
            /\ Return(k, IF ok THEN "QuarantineSourceMissing" ELSE "InspectNamespace")
            /\ UNCHANGED <<dir, dirty>>
       [] ~ok /\ ~Free(Blob(k)) ->
            Return(k, "QuarantineCommit") /\ UNCHANGED <<dir, dirty>>
       [] OTHER ->
            \E i \in Ids :
              LET n == Name("quarantine", k, i) IN
              /\ QuarantineFree(n)
              /\ dir' = Rename(Blob(k), n)
              /\ dirty' = dirty \cup {k}
              /\ Goto(k, "sync", n)
  /\ UNCHANGED <<fileVars, diagnosed>>

(* The keys whose entries are not synchronized after a directory sync.     *)
\* mutant: the directory is opened but not synchronized
SyncForgotten(ok) == dirty
AfterSync(ok) == IF ok THEN {} ELSE dirty

(* Windows: the blob a clear moved aside still has to be deleted.          *)
\* mutant: it is left to cleanup
NeedsNoDelete(k) == FALSE
NeedsDelete(k) == Windows /\ op[k].kind = "clear"

(* sync_directory, sync_windows_directory, sync_quarantine_namespace: the  *)
(* sync covers every entry.  Quarantine reports its diagnostic path with   *)
(* the error too.                                                          *)
SyncNamespace(k, ok) ==
  /\ At(k, "sync")
  /\ dirty' = AfterSync(ok)
  /\ diagnosed' = IF op[k].kind = "quarantine"
                    THEN diagnosed \cup {<<op[k].name, dir[op[k].name].value>>}
                    ELSE diagnosed
  /\ CASE ok /\ NeedsDelete(k)  -> Goto(k, "delete", op[k].name)
       [] ok /\ ~NeedsDelete(k) -> Return(k, "Ok")
       [] OTHER -> Return(k, IF op[k].kind = "quarantine"
                               THEN "QuarantineNamespaceSync"
                               ELSE "SyncNamespaceDirectory")
  /\ UNCHANGED <<fileVars, dir>>

DeleteStaging(k, ok) ==
  /\ At(k, "delete")
  /\ dir' = IF ok THEN [dir EXCEPT ![op[k].name] = NoFile] ELSE dir
  /\ Return(k, IF ok THEN "Ok" ELSE "RemoveTemporaryFile")
  /\ UNCHANGED <<fileVars, dirty, diagnosed>>

-----------------------------------------------------------------------------
(* load and inspect only look, and tell the caller which state it is.      *)
Content(k) == IF Free(Blob(k)) THEN Absent ELSE dir[Blob(k)].value

Load(k) ==
  /\ At(k, "idle")
  /\ ~cleanup.running
  /\ believed' = [believed EXCEPT ![k] = {Content(k)}]
  /\ succeeded' = [succeeded EXCEPT ![k] = "none"]
  /\ UNCHANGED <<fileVars, dir, dirty, op, diagnosed, debris>>

-----------------------------------------------------------------------------
(* cleanup_stale_temporary_files, on Windows.                              *)

CleanupBegin ==
  /\ Windows
  /\ store = "open"
  /\ ~cleanup.running
  /\ \A k \in Keys : op[k] = Idle
  /\ cleanup' = [running |-> TRUE, now |-> Wall,
                 todo |-> {n \in Names : ~Free(n) /\ OwnedTemporary(n)}]
  /\ UNCHANGED <<store, namespace, rootDirty, dir, dirty, op, clock, behind, believed,
                 succeeded, diagnosed, debris>>

(* duration_since fails for a file from the future: it is skipped.         *)
OldEnough(f, now) == now - f.mtime >= MinAge

(* One owned name: removed if it is old enough and the deletion succeeds.  *)
CleanupEntry(n, ok) ==
  /\ cleanup.running
  /\ n \in cleanup.todo
  /\ cleanup' = [cleanup EXCEPT !.todo = @ \ {n}]
  /\ dir' = IF ok /\ OldEnough(dir[n], cleanup.now)
              THEN [dir EXCEPT ![n] = NoFile] ELSE dir
  /\ UNCHANGED <<store, namespace, rootDirty, dirty, op, clock, behind, believed,
                 succeeded, diagnosed, debris>>

CleanupEnd ==
  /\ cleanup.running
  /\ cleanup.todo = {}
  /\ cleanup' = NoCleanup
  /\ UNCHANGED <<store, namespace, rootDirty, dir, dirty, op, clock, behind, believed,
                 succeeded, diagnosed, debris>>

-----------------------------------------------------------------------------
(* The process is killed; what it did to the file system stays.            *)
Killed(k) == op[k] # Idle

Crash ==
  /\ store # "closed"
  /\ store' = "closed"
  /\ op' = [k \in Keys |-> Idle]
  /\ cleanup' = NoCleanup
  /\ believed' = [k \in Keys |-> IF Killed(k) THEN believed[k] \cup {op[k].value}
                                 ELSE believed[k]]
  /\ succeeded' = [k \in Keys |-> IF Killed(k) THEN "none" ELSE succeeded[k]]
  /\ debris' = debris \cup UNION {Staging(op[k]) : k \in {k \in Keys : Killed(k)}}
  /\ UNCHANGED <<namespace, rootDirty, dir, dirty, clock, behind, diagnosed>>

Tick ==
  /\ clock < MaxClock
  /\ clock' = clock + 1
  /\ UNCHANGED <<behind, store, namespace, rootDirty, dir, dirty, op, cleanup, believed,
                 succeeded, diagnosed, debris>>

(* The system's clock is set back.                                         *)
SetBack ==
  /\ behind < MaxBack
  /\ behind' = behind + 1
  /\ UNCHANGED <<store, namespace, rootDirty, dir, dirty, op, cleanup, clock,
                 believed, succeeded, diagnosed, debris>>

Step(k, ok) ==
  \/ SaveOpen(k, ok) \/ SaveWrite(k, ok) \/ UnixCommit(k, ok) \/ WindowsMove(k, ok)
  \/ ClearRefresh(k, ok) \/ ClearRemove(k, ok) \/ Quarantine(k, ok)
  \/ SyncNamespace(k, ok) \/ DeleteStaging(k, ok)

Next ==
  \/ OpenStore
  \/ \E ok \in BOOLEAN : SyncRoot(ok)
  \/ \E k \in Keys, kind \in Kinds, v \in Values \cup {Absent} : Begin(k, kind, v)
  \/ \E k \in Keys, ok \in BOOLEAN : Step(k, ok)
  \/ \E k \in Keys : Load(k)
  \/ CleanupBegin
  \/ \E n \in Names, ok \in BOOLEAN : CleanupEntry(n, ok)
  \/ CleanupEnd
  \/ Crash
  \/ Tick \/ SetBack

Spec == Init /\ [][Next]_vars

-----------------------------------------------------------------------------
(* Properties.                                                             *)

(* A canonical path never holds an incomplete envelope, whatever fails and *)
(* wherever the process is killed.                                         *)
CanonicalComplete == \A k \in Keys : ~Free(Blob(k)) => dir[Blob(k)].whole

(* Old or new: the state of a key is one that the results its callers have *)
(* seen leave open, or the one the running operation is about to make.  In *)
(* particular only AtomicCommit is ambiguous, every other error says       *)
(* whether the operation took effect.                                      *)
ResultsTellTheTruth ==
  \A k \in Keys :
    Content(k) \in believed[k] \cup (IF op[k] = Idle THEN {} ELSE {op[k].value})

(* A blob reported as quarantined, with or without the namespace sync,     *)
(* stays complete at its diagnostic path: no later quarantine and no       *)
(* cleanup touches it.                                                     *)
QuarantineKeepsBlobs ==
  \A d \in diagnosed : ~Free(d[1]) /\ dir[d[1]].whole /\ dir[d[1]].value = d[2]

(* A staging file belongs to the operation that is running or was given up *)
(* by one that failed or was killed: success leaves nothing behind.        *)
SuccessLeavesNoStaging ==
  \A n \in Names : OwnedTemporary(n) /\ ~Free(n) =>
    n \in debris \/ \E k \in Keys : op[k] # Idle /\ op[k].name = n

(* Cleanup removes a staging file only when the operation that made it     *)
(* began at least the minimum age ago, the old blob a clear moved aside    *)
(* included, also when the system's clock was set back meanwhile, and      *)
(* never a canonical or quarantined blob.                                  *)
CleanupSparesTheYoung ==
  [][\A n \in Names :
       cleanup.running /\ ~Free(n) /\ dir'[n] = NoFile
         => n[1] \in {"save", "clear"} /\ clock - dir[n].begun >= MinAge]_vars

(* A save or a quarantine that succeeded has been synchronized.            *)
CommitIsSynced ==
  \A k \in Keys :
    op[k] = Idle /\ succeeded[k] \in {"save", "saveStream", "quarantine"}
      => k \notin dirty

(* "synchronizes directories after namespace creation and clear": a clear  *)
(* that succeeded has been synchronized.                                   *)
ClearIsSynced ==
  \A k \in Keys :
    op[k] = Idle /\ succeeded[k] = "clear" => k \notin dirty

(* "synchronizes directories after namespace creation and clear": the      *)
(* namespace of a store that was opened successfully has been synchronized *)
(* into the root.                                                          *)
NamespaceIsSynced == store = "open" => ~rootDirty
=============================================================================
