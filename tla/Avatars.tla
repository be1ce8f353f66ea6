------------------------------ MODULE Avatars ------------------------------
(***************************************************************************)
(* The avatar of one user: AvatarService of apps/api/src/users over the    *)
(* StoragePort (local disk or S3; a save overwrites, a delete of what is   *)
(* not there does nothing).                                                *)
(*                                                                         *)
(* An upload saves its two files under a new key, names them in the user's *)
(* row and deletes those the row named before; a deletion does it the      *)
(* other way round.  A step is one statement or one storage call.  Storage *)
(* has no transactions: a call can end after any step.                     *)
(*                                                                         *)
(* Abstracted: the picture (too large, of another type or unreadable: the  *)
(* call ends before its first step), the URLs derived from the key.        *)
(***************************************************************************)
EXTENDS Integers, FiniteSets

CONSTANTS Handlers, MaxKeys

VARIABLES
    files,      \* storage: pairs of a key and "main" or "thumb"
    storageKey, \* the row's avatarStorageKey, 0 for none
    keys,       \* keys drawn so far
    pc, new, previous,  \* per call: next step, key of its own, key it has read
    doomed,     \* keys a deletion has read
    disturbed   \* two calls overlapped, one failed half-way, or a delete was lost

vars == <<files, storageKey, keys, pc, new, previous, doomed, disturbed>>

-----------------------------------------------------------------------------
Files(k) == IF k = 0 THEN {} ELSE {k} \X {"main", "thumb"}

Init ==
    /\ files = {}
    /\ storageKey = 0
    /\ keys = 0
    /\ pc = [h \in Handlers |-> "idle"]
    /\ new = [h \in Handlers |-> 0]
    /\ previous = [h \in Handlers |-> 0]
    /\ doomed = {}
    /\ disturbed = FALSE

Go(h, from, to) ==
    /\ pc[h] = from
    /\ pc' = [pc EXCEPT ![h] = to]

Start(h, to) ==
    /\ Go(h, "idle", to)
    /\ disturbed' = (disturbed \/ \E g \in Handlers : pc[g] # "idle")

\* storage.delete(...).catch(() => undefined)
Remove(k, size) ==
    \/ files' = files \ {<<k, size>>} /\ UNCHANGED disturbed
    \/ UNCHANGED files /\ disturbed' = TRUE

-----------------------------------------------------------------------------
(* uploadAvatar *)

Upload(h) ==
    /\ keys < MaxKeys
    /\ Start(h, "main")
    /\ keys' = keys + 1
    /\ new' = [new EXCEPT ![h] = keys + 1]
    /\ UNCHANGED <<files, storageKey, previous, doomed>>

SaveMain(h) ==
    /\ Go(h, "main", "thumb")
    /\ files' = files \cup {<<new[h], "main">>}
    /\ UNCHANGED <<storageKey, keys, new, previous, doomed, disturbed>>

SaveThumbnail(h) ==
    /\ Go(h, "thumb", "read")
    /\ files' = files \cup {<<new[h], "thumb">>}
    /\ UNCHANGED <<storageKey, keys, new, previous, doomed, disturbed>>

ReadPrevious(h) ==
    /\ Go(h, "read", "update")
    /\ previous' = [previous EXCEPT ![h] = storageKey]
    /\ UNCHANGED <<files, storageKey, keys, new, doomed, disturbed>>

\* Mutant of UpdateRow: the key to clean up is taken from the updated row.
MutantUpdatedKey(h) ==
    /\ Go(h, "update", IF previous[h] = 0 THEN "idle" ELSE "oldMain")
    /\ storageKey' = new[h]
    /\ previous' = [previous EXCEPT ![h] = new[h]]
    /\ UNCHANGED <<files, keys, new, doomed, disturbed>>

UpdateRow(h) ==
    /\ Go(h, "update", IF previous[h] = 0 THEN "idle" ELSE "oldMain")
    /\ storageKey' = new[h]
    /\ UNCHANGED <<files, keys, new, previous, doomed, disturbed>>

DeleteOldMain(h) ==
    /\ Go(h, "oldMain", "oldThumb")
    /\ Remove(previous[h], "main")
    /\ UNCHANGED <<storageKey, keys, new, previous, doomed>>

\* Mutant of DeleteOldThumbnail: the key is used as it is.
MutantMainAgain(h) ==
    /\ Go(h, "oldThumb", "idle")
    /\ Remove(previous[h], "main")
    /\ UNCHANGED <<storageKey, keys, new, previous, doomed>>

DeleteOldThumbnail(h) ==
    /\ Go(h, "oldThumb", "idle")
    /\ Remove(previous[h], "thumb")
    /\ UNCHANGED <<storageKey, keys, new, previous, doomed>>

-----------------------------------------------------------------------------
(* deleteAvatar *)

Delete(h) ==
    /\ Start(h, IF storageKey = 0 THEN "clear" ELSE "dropMain")
    /\ previous' = [previous EXCEPT ![h] = storageKey]
    /\ doomed' = doomed \cup {storageKey}
    /\ UNCHANGED <<files, storageKey, keys, new>>

DropMain(h) ==
    /\ Go(h, "dropMain", "dropThumb")
    /\ Remove(previous[h], "main")
    /\ UNCHANGED <<storageKey, keys, new, previous, doomed>>

DropThumbnail(h) ==
    /\ Go(h, "dropThumb", "clear")
    /\ Remove(previous[h], "thumb")
    /\ UNCHANGED <<storageKey, keys, new, previous, doomed>>

\* Whatever the row names by now.
ClearRow(h) ==
    /\ Go(h, "clear", "idle")
    /\ storageKey' = 0
    /\ UNCHANGED <<files, keys, new, previous, doomed, disturbed>>

-----------------------------------------------------------------------------
\* A save or a statement fails, or the process dies.
Fail(h) ==
    /\ pc[h] # "idle"
    /\ pc' = [pc EXCEPT ![h] = "idle"]
    /\ disturbed' = TRUE
    /\ UNCHANGED <<files, storageKey, keys, new, previous, doomed>>

Step(h) ==
    \/ SaveMain(h) \/ SaveThumbnail(h) \/ ReadPrevious(h) \/ UpdateRow(h)
    \/ DeleteOldMain(h) \/ DeleteOldThumbnail(h)
    \/ DropMain(h) \/ DropThumbnail(h) \/ ClearRow(h)

Next == \E h \in Handlers : Upload(h) \/ Delete(h) \/ Step(h) \/ Fail(h)

Spec == Init /\ [][Next]_vars

-----------------------------------------------------------------------------
TypeOK ==
    /\ files \subseteq (1 .. keys) \X {"main", "thumb"}
    /\ storageKey \in 0 .. keys
    /\ keys \in 0 .. MaxKeys
    /\ pc \in [Handlers -> {"idle", "main", "thumb", "read", "update", "oldMain",
                            "oldThumb", "dropMain", "dropThumb", "clear"}]
    /\ new \in [Handlers -> 0 .. keys]
    /\ previous \in [Handlers -> 0 .. keys]
    /\ doomed \subseteq 0 .. keys
    /\ disturbed \in BOOLEAN

\* The picture a profile names can be fetched, through every overlap and every
\* failure of uploads.  Only a deletion takes away files the row still names,
\* before it clears the row (avatar.service.ts:95-117).
NamedFilesExist == storageKey \in doomed \/ Files(storageKey) \subseteq files

\* One call at a time leaves storage with exactly the files of the row; what an
\* overlap or a failure leaves behind, nothing ever collects.
NothingLeftBehind ==
    ~disturbed /\ (\A h \in Handlers : pc[h] = "idle") => files = Files(storageKey)
=============================================================================
