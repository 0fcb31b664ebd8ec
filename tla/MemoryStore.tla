----------------------------- MODULE MemoryStore -----------------------------
(***************************************************************************)
(* The storage of the MEM module: the metadata of the memories with its    *)
(* indexes by id and by token, the file they are saved to after every      *)
(* change and its backup, the vector index and the two maps between its    *)
(* positions and the memories.                                             *)
(*                                                                         *)
(* An entry is its id: the token it belongs to is fixed when it is made    *)
(* and the file keeps it.  The order of the entries, which numbers them    *)
(* when the maps are rebuilt, is any order.  All operations hold one lock, *)
(* so one runs at a time; the process may die between any two steps.       *)
(***************************************************************************)
EXTENDS Naturals, FiniteSets

CONSTANTS
    Ids,            \* memory ids, each a fresh uuid
    Tokens,         \* identities' memory tokens
    TokenOf,        \* the token a memory is stored under
    MaxCrashes      \* bound on how often the process dies

ASSUME StoreAssumption ==
    /\ TokenOf \in [Ids -> Tokens]
    /\ IsFiniteSet(Ids)
    /\ MaxCrashes \in Nat

VARIABLES
    faults,         \* what this machine's files are exposed to
    up,             \* initialize has returned
    cache, byId,    \* metadata_cache and cache_by_id
    byToken,        \* cache_by_token
    vectors,        \* _vector_count of the FAISS index
    indexMap,       \* _index_metadata_map: position -> memory
    vectorMap,      \* _memory_vector_map: memory -> position
    op,             \* the operation that holds _sync_lock, and on which ids
    saving,         \* how far _save_metadata is
    file, backup,   \* what metadata_file and backup_file hold
    used,           \* ids made so far
    crashes,
    saved,          \* ghost: what the last save that went through wrote
    spoilt,         \* ghost: a torn file was left in use, or met at a start
    loaded          \* ghost: this process started with memories in the file

disk == <<file, backup, saved, spoilt>>
index == <<vectors, indexMap, vectorMap>>
metadata == <<cache, byId, byToken>>
fixed == <<faults, used, crashes>>
vars == <<faults, up, cache, byId, byToken, vectors, indexMap, vectorMap,
          op, saving, file, backup, used, crashes, saved, spoilt, loaded>>

\* A rename does not put a file over another one (Windows), so the move
\* copies; a file that is there cannot be opened now and then.
Faults == {"copies", "unreadable"}

NoOp == [kind |-> "none", on |-> {}]

\* A file is missing, torn off in the middle of a copy, or holds a set whole.
NoFile == [is |-> "missing", has |-> {}]
Torn == [is |-> "torn", has |-> {}]
Whole(S) == [is |-> "whole", has |-> S]
Files == [is : {"missing", "torn", "whole"}, has : SUBSET Ids]

Init ==
    /\ faults \in SUBSET Faults
    /\ cache = {} /\ byId = {}
    /\ byToken = [t \in Tokens |-> {}]
    /\ vectors = 0
    /\ indexMap = [n \in {} |-> 0]
    /\ vectorMap = [i \in {} |-> 0]
    /\ up = FALSE /\ loaded = FALSE /\ spoilt = FALSE
    /\ op = NoOp /\ saving = "no"
    /\ file = NoFile /\ backup = NoFile /\ saved = NoFile
    /\ used = {} /\ crashes = 0

Idle == up /\ op = NoOp

\* A running operation whose save, if any, is over.
Running(kind) == op.kind = kind /\ saving = "no"

-----------------------------------------------------------------------------
(* _save_metadata: the whole cache to a temporary file, the present file   *)
(* copied over the backup, the temporary file moved over the present one.  *)

\* Mutant: no backup is made.
WriteTempOnly ==
    /\ saving = "temp"
    /\ saving' = "move"
    /\ UNCHANGED <<fixed, up, metadata, index, op, disk, loaded>>

WriteTemp ==
    /\ saving = "temp"
    /\ saving' = IF file = NoFile THEN "move" ELSE "backup"
    /\ UNCHANGED <<fixed, up, metadata, index, op, disk, loaded>>

\* copy2 truncates the backup before it has the copy.
BackUp ==
    /\ saving = "backup"
    /\ backup' = Torn
    /\ saving' = "backing"
    /\ UNCHANGED <<fixed, up, metadata, index, op, file, saved, spoilt, loaded>>

BackedUp ==
    /\ saving = "backing"
    /\ backup' = file
    /\ saving' = "move"
    /\ UNCHANGED <<fixed, up, metadata, index, op, file, saved, spoilt, loaded>>

\* shutil.move renames when nothing is there or rename replaces it.
Rename ==
    /\ saving = "move"
    /\ file = NoFile \/ "copies" \notin faults
    /\ file' = Whole(cache)
    /\ saved' = Whole(cache)
    /\ saving' = "no"
    /\ UNCHANGED <<fixed, up, metadata, index, op, backup, spoilt, loaded>>

\* ... and otherwise copies over it.
CopyOver ==
    /\ saving = "move"
    /\ file # NoFile /\ "copies" \in faults
    /\ file' = Torn
    /\ saving' = "copying"
    /\ UNCHANGED <<fixed, up, metadata, index, op, backup, saved, spoilt, loaded>>

Copied ==
    /\ saving = "copying"
    /\ file' = Whole(cache)
    /\ saved' = Whole(cache)
    /\ saving' = "no"
    /\ UNCHANGED <<fixed, up, metadata, index, op, backup, spoilt, loaded>>

\* Any step of a save may raise: the files stay as they are, and whoever
\* asked for the save ignores its result.
SaveFails ==
    /\ saving # "no"
    /\ saving' = "no"
    /\ spoilt' = (spoilt \/ saving = "copying")
    /\ UNCHANGED <<fixed, up, metadata, index, op, file, backup, saved, loaded>>

Save == WriteTemp \/ BackUp \/ BackedUp \/ Rename \/ CopyOver \/ Copied \/ SaveFails

-----------------------------------------------------------------------------
(* initialize: the file is read, or an empty one made where there is none  *)
(* that can be read; the index file is never written, so the vector index  *)
(* is new; the maps are numbered from the entries.                         *)

\* Mutant: the backup is preferred.
LoadBackup ==
    /\ ~up /\ op = NoOp
    /\ op' = [kind |-> "init", on |-> {}]
    /\ \/ /\ file.is = "whole"
          /\ cache' = IF backup.is = "whole" THEN backup.has ELSE file.has
          /\ UNCHANGED <<saving, spoilt>>
       \/ /\ file.is = "whole" => "unreadable" \in faults
          /\ saving' = "temp"
          /\ spoilt' = (spoilt \/ file = Torn)
          /\ UNCHANGED cache
    /\ UNCHANGED <<fixed, up, byId, byToken, index, file, backup, saved, loaded>>

Load ==
    /\ ~up /\ op = NoOp
    /\ op' = [kind |-> "init", on |-> {}]
    /\ \/ /\ file.is = "whole"
          /\ cache' = file.has
          /\ UNCHANGED <<saving, spoilt>>
       \/ /\ file.is = "whole" => "unreadable" \in faults
          /\ saving' = "temp"
          /\ spoilt' = (spoilt \/ file = Torn)
          /\ UNCHANGED cache
    /\ UNCHANGED <<fixed, up, byId, byToken, index, file, backup, saved, loaded>>

\* Each position once, each memory once.
Numbering(f, S) ==
    /\ \A i \in S : f[i] < Cardinality(S)
    /\ \A i, j \in S : i # j => f[i] # f[j]

Reverse(f) == [n \in {f[i] : i \in DOMAIN f} |-> CHOOSE i \in DOMAIN f : f[i] = n]

Ready ==
    /\ Running("init")
    /\ byId' = cache
    /\ byToken' = [t \in Tokens |-> {i \in cache : TokenOf[i] = t}]
    /\ vectors' = 0
    /\ \E f \in [cache -> 0 .. Cardinality(cache)] :
          /\ Numbering(f, cache)
          /\ vectorMap' = f
          /\ indexMap' = Reverse(f)
    /\ up' = TRUE
    /\ loaded' = (cache # {})
    /\ op' = NoOp
    /\ UNCHANGED <<fixed, cache, saving, disk>>

-----------------------------------------------------------------------------
(* store_memory, search_memories, delete_memory.                           *)

\* delete_memory of the metadata manager; the save comes next.
DropMetadata(i) ==
    /\ cache' = cache \ {i}
    /\ byId' = byId \ {i}
    /\ byToken' = [byToken EXCEPT ![TokenOf[i]] = @ \ {i}]
    /\ saving' = "temp"

Store(i) ==
    /\ Idle /\ i \notin used
    /\ used' = used \cup {i}
    /\ cache' = cache \cup {i}
    /\ byId' = byId \cup {i}
    /\ byToken' = [byToken EXCEPT ![TokenOf[i]] = @ \cup {i}]
    /\ saving' = "temp"
    /\ op' = [kind |-> "store", on |-> {i}]
    /\ UNCHANGED <<faults, up, index, disk, crashes, loaded>>

\* Mutant: the position is taken before the index has counted the vector.
AddVectorEarly(i) ==
    /\ Running("store") /\ i \in op.on
    /\ vectors' = vectors + 1
    /\ indexMap' = [n \in DOMAIN indexMap \cup {vectors - 1} |->
                        IF n = vectors - 1 THEN i ELSE indexMap[n]]
    /\ vectorMap' = [j \in DOMAIN vectorMap \cup {i} |->
                        IF j = i THEN vectors - 1 ELSE vectorMap[j]]
    /\ op' = NoOp
    /\ UNCHANGED <<fixed, up, metadata, saving, disk, loaded>>

\* The vector goes to the index; the maps follow the index's count.
AddVector(i) ==
    /\ Running("store") /\ i \in op.on
    /\ vectors' = vectors + 1
    /\ indexMap' = [n \in DOMAIN indexMap \cup {vectors} |->
                        IF n = vectors THEN i ELSE indexMap[n]]
    /\ vectorMap' = [j \in DOMAIN vectorMap \cup {i} |->
                        IF j = i THEN vectors ELSE vectorMap[j]]
    /\ op' = NoOp
    /\ UNCHANGED <<fixed, up, metadata, saving, disk, loaded>>

\* Mutant: the metadata stay when the index refuses the vector.
RollBackNothing(i) ==
    /\ Running("store") /\ i \in op.on
    /\ op' = [kind |-> "rollback", on |-> {i}]
    /\ UNCHANGED <<fixed, up, metadata, index, saving, disk, loaded>>

\* The index refuses the vector: the metadata is taken back.
RollBack(i) ==
    /\ Running("store") /\ i \in op.on
    /\ DropMetadata(i)
    /\ op' = [kind |-> "rollback", on |-> {i}]
    /\ UNCHANGED <<fixed, up, index, disk, loaded>>

RolledBack ==
    /\ Running("rollback")
    /\ op' = NoOp
    /\ UNCHANGED <<fixed, up, metadata, index, saving, disk, loaded>>

Delete(i) ==
    /\ Idle /\ i \in byId
    /\ DropMetadata(i)
    /\ op' = [kind |-> "delete", on |-> {i}]
    /\ UNCHANGED <<fixed, up, index, disk, loaded>>

\* The maps forget the memory; its vector stays in the index.
Deleted(i) ==
    /\ Running("delete") /\ i \in op.on
    /\ vectorMap' = [j \in DOMAIN vectorMap \ {i} |-> vectorMap[j]]
    /\ indexMap' = [n \in DOMAIN indexMap \ {vectorMap[j] : j \in DOMAIN vectorMap \cap {i}}
                        |-> indexMap[n]]
    /\ op' = NoOp
    /\ UNCHANGED <<fixed, up, metadata, vectors, saving, disk, loaded>>

\* What a search of one token's memories found; each is then touched.
Search(t) ==
    /\ Idle
    /\ \E found \in SUBSET byToken[t] : op' = [kind |-> "search", on |-> found]
    /\ UNCHANGED <<fixed, up, metadata, index, saving, disk, loaded>>

\* The access count of a result is raised, which saves everything again.
Touch(i) ==
    /\ Running("search") /\ i \in op.on
    /\ op' = [op EXCEPT !.on = @ \ {i}]
    /\ saving' = IF i \in byId THEN "temp" ELSE saving
    /\ UNCHANGED <<fixed, up, metadata, index, disk, loaded>>

Searched ==
    /\ Running("search") /\ op.on = {}
    /\ op' = NoOp
    /\ UNCHANGED <<fixed, up, metadata, index, saving, disk, loaded>>

-----------------------------------------------------------------------------
\* The process dies, or the module is unloaded: nothing more is saved.
Crash ==
    /\ crashes < MaxCrashes
    /\ crashes' = crashes + 1
    /\ cache' = {} /\ byId' = {}
    /\ byToken' = [t \in Tokens |-> {}]
    /\ vectors' = 0
    /\ indexMap' = [n \in {} |-> 0]
    /\ vectorMap' = [i \in {} |-> 0]
    /\ up' = FALSE /\ loaded' = FALSE
    /\ op' = NoOp /\ saving' = "no"
    /\ UNCHANGED <<faults, used, disk>>

Next ==
    \/ Save \/ Load \/ Ready \/ RolledBack \/ Searched \/ Crash
    \/ \E i \in Ids :
          Store(i) \/ AddVector(i) \/ RollBack(i) \/ Delete(i) \/ Deleted(i) \/ Touch(i)
    \/ \E t \in Tokens : Search(t)

Spec == Init /\ [][Next]_vars

-----------------------------------------------------------------------------
\* The values of the storage managers' fields and of the files.
TypeOK ==
    /\ faults \in SUBSET Faults /\ up \in BOOLEAN
    /\ spoilt \in BOOLEAN /\ loaded \in BOOLEAN
    /\ cache \in SUBSET Ids /\ byId \in SUBSET Ids
    /\ byToken \in [Tokens -> SUBSET Ids]
    /\ vectors \in Nat
    /\ DOMAIN indexMap \subseteq Nat
    /\ indexMap \in [DOMAIN indexMap -> Ids]
    /\ DOMAIN vectorMap \subseteq Ids
    /\ vectorMap \in [DOMAIN vectorMap -> Nat]
    /\ op \in [kind : {"none", "init", "store", "rollback", "delete", "search"},
               on : SUBSET Ids]
    /\ saving \in {"no", "temp", "backup", "backing", "move", "copying"}
    /\ file \in Files /\ backup \in Files /\ saved \in Files
    /\ used \in SUBSET Ids
    /\ crashes \in 0 .. MaxCrashes

\* Whenever no operation runs, the entries, the index by id, the index by
\* token and the vector map hold the same memories, whichever saves failed
\* and whichever vector the index refused; and as long as the process started
\* with no memories, the two maps are each other's inverse
\* (storage_manager.py:133, 551).  After a start with memories they are not:
\* the new index counts from 0, over the numbers the loaded memories have.
StoresAgree ==
    Idle =>
        /\ byId = cache
        /\ \A t \in Tokens : byToken[t] = {i \in cache : TokenOf[i] = t}
        /\ DOMAIN vectorMap = cache
        /\ ~loaded =>
              /\ \A i \in cache : vectorMap[i] \in DOMAIN indexMap
                                  /\ indexMap[vectorMap[i]] = i
              /\ \A n \in DOMAIN indexMap : indexMap[n] \in cache
                                            /\ vectorMap[indexMap[n]] = n

\* A crash or an error at any step of a save leaves what was saved last in
\* the file or in the backup (metadata_storage.py:127); not so once a copy
\* over the file failed, or a start met a torn file: the next save copies the
\* torn file over the good backup, which nothing ever reads.
SomeCompleteCopy ==
    ~spoilt => saved \in {file, backup}

\* The memories of the process and those a restart would bring back.
Store_live == IF up THEN cache ELSE {}
Store_kept == file.has
Store_safe == faults = {}

\* The storage keeps what DurableStore promises: a restart brings back what
\* the process held at the last save that went through, entirely, and that
\* is lost only where a rename does not replace a file, or where a file that
\* could not be read is taken for none (metadata_storage.py:64, 127).
Durable == INSTANCE DurableStore
    WITH on <- up, live <- Store_live, kept <- Store_kept, safe <- Store_safe
ImplementsStore == Durable!Spec
=============================================================================
