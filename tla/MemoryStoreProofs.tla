------------------------- MODULE MemoryStoreProofs -------------------------
(***************************************************************************)
(* Proofs about MemoryStore for any memories, tokens and number of         *)
(* crashes: types, the agreement of the stores, the complete copy on disk, *)
(* and that the storage implements DurableStore.                           *)
(*                                                                         *)
(* The invariant has a part for each question.  Holders says which         *)
(* operation holds the lock when, and on what; Metadata and Mapped follow  *)
(* the indexes and the maps through the middle of an operation, where they *)
(* disagree in a known way; Copies follows the two files through a save;   *)
(* Starting says what a start may have read.                               *)
(***************************************************************************)
EXTENDS MemoryStore, TLAPS, FiniteSetTheorems

Holders ==
    /\ op.kind = "init" => ~up
    /\ op.kind \notin {"none", "init"} => up
    /\ op.kind = "none" => op = NoOp /\ saving = "no"
    /\ op.kind \in {"store", "rollback", "delete"} => \E i \in Ids : op.on = {i}
    /\ op.kind = "store" => op.on \subseteq cache
    /\ op.kind \in {"rollback", "delete"} => op.on \cap cache = {}

\* The indexes of the entries follow them at once.
Metadata ==
    up => /\ byId = cache
          /\ \A t \in Tokens : byToken[t] = {i \in cache : TokenOf[i] = t}

\* The map lags behind the entries while an operation is between them.
Mapped ==
    up => DOMAIN vectorMap = CASE op.kind = "store"  -> cache \ op.on
                               [] op.kind = "delete" -> cache \cup op.on
                               [] OTHER              -> cache

\* Positions below the index's count, each map undoing the other.
Paired ==
    up /\ ~loaded =>
        /\ \A i \in DOMAIN vectorMap :
              vectorMap[i] \in DOMAIN indexMap /\ indexMap[vectorMap[i]] = i
        /\ \A n \in DOMAIN indexMap :
              /\ n < vectors
              /\ indexMap[n] \in DOMAIN vectorMap /\ vectorMap[indexMap[n]] = n

\* No id is in the store or in its file before it was made.
Made == cache \subseteq used /\ file.has \subseteq used

\* What is in the file and its backup, save by save.
Copies ==
    /\ ~spoilt => \/ file = saved
                  \/ /\ file = Torn /\ backup = saved
                     /\ saving = "copying" \/ (~up /\ op.kind = "none")
    /\ saving = "move" => file = NoFile \/ backup = file
    /\ saving = "copying" => file = Torn
    /\ file.is # "whole" => file.has = {}

\* A start has what the file has, or nothing where it could not read it.
Starting ==
    /\ ~up /\ op.kind = "none" => cache = {}
    /\ op.kind = "init" => \/ cache = file.has
                           \/ cache = {} /\ faults # {}
    /\ op.kind = "init" /\ saving # "no" => cache = {}

Inv == /\ TypeOK /\ Holders /\ Metadata /\ Mapped /\ Paired
       /\ Made /\ Copies /\ Starting

-----------------------------------------------------------------------------
(* The invariant. *)

LEMMA EmptyMap ==
    ASSUME NEW S, NEW f, f = [n \in {} |-> 0]
    PROVE  DOMAIN f = {} /\ f \in [DOMAIN f -> S]
OBVIOUS

LEMMA InvInit == Init => Inv
<1> SUFFICES ASSUME Init PROVE Inv
  OBVIOUS
<1>1. TypeOK
  <2>1. /\ DOMAIN indexMap = {} /\ indexMap \in [DOMAIN indexMap -> Ids]
        /\ DOMAIN vectorMap = {} /\ vectorMap \in [DOMAIN vectorMap -> Nat]
    BY EmptyMap DEF Init
  <2>2. byToken \in [Tokens -> SUBSET Ids] /\ crashes \in 0 .. MaxCrashes
    BY StoreAssumption DEF Init
  <2>3. /\ op \in [kind : {"none", "init", "store", "rollback", "delete", "search"},
                    on : SUBSET Ids]
        /\ file \in Files /\ backup \in Files /\ saved \in Files
    BY DEF Init, NoOp, NoFile, Files
  <2> QED BY <2>1, <2>2, <2>3 DEF Init, TypeOK
<1>2. Holders /\ Metadata /\ Mapped /\ Paired
  BY DEF Init, Holders, Metadata, Mapped, Paired, NoOp
<1>3. Made /\ Copies /\ Starting
  BY DEF Init, Made, Copies, Starting, NoOp, NoFile
<1> QED BY <1>1, <1>2, <1>3 DEF Inv

\* A step of a save changes the files only.
LEMMA SaveKeeps ==
    ASSUME Inv, Save
    PROVE  Inv'
<1> USE DEF Inv, fixed, metadata, index, disk
<1>1. CASE WriteTemp
  <2> USE <1>1 DEF WriteTemp
  <2>1. TypeOK'
    BY DEF TypeOK, Files, Torn, Whole
  <2>2. Holders' /\ Metadata' /\ Mapped' /\ Paired'
    BY DEF Holders, Metadata, Mapped, Paired
  <2>3. Made' /\ Copies' /\ Starting'
    BY DEF TypeOK, Files, Holders, Made, Copies, Starting, Torn, Whole, NoFile, NoOp
  <2> QED BY <2>1, <2>2, <2>3
<1>2. CASE BackUp
  <2> USE <1>2 DEF BackUp
  <2>1. TypeOK'
    BY DEF TypeOK, Files, Torn, Whole
  <2>2. Holders' /\ Metadata' /\ Mapped' /\ Paired'
    BY DEF Holders, Metadata, Mapped, Paired
  <2>3. Made' /\ Copies' /\ Starting'
    BY DEF TypeOK, Files, Holders, Made, Copies, Starting, Torn, Whole, NoFile, NoOp
  <2> QED BY <2>1, <2>2, <2>3
<1>3. CASE BackedUp
  <2> USE <1>3 DEF BackedUp
  <2>1. TypeOK'
    BY DEF TypeOK, Files, Torn, Whole
  <2>2. Holders' /\ Metadata' /\ Mapped' /\ Paired'
    BY DEF Holders, Metadata, Mapped, Paired
  <2>3. Made' /\ Copies' /\ Starting'
    BY DEF TypeOK, Files, Holders, Made, Copies, Starting, Torn, Whole, NoFile, NoOp
  <2> QED BY <2>1, <2>2, <2>3
<1>4. CASE Rename
  <2> USE <1>4 DEF Rename
  <2>1. TypeOK'
    BY DEF TypeOK, Files, Torn, Whole
  <2>2. Holders' /\ Metadata' /\ Mapped' /\ Paired'
    BY DEF Holders, Metadata, Mapped, Paired
  <2>3. Made' /\ Copies' /\ Starting'
    BY DEF TypeOK, Files, Holders, Made, Copies, Starting, Torn, Whole, NoFile, NoOp
  <2> QED BY <2>1, <2>2, <2>3
<1>5. CASE CopyOver
  <2> USE <1>5 DEF CopyOver
  <2>1. TypeOK'
    BY DEF TypeOK, Files, Torn, Whole
  <2>2. Holders' /\ Metadata' /\ Mapped' /\ Paired'
    BY DEF Holders, Metadata, Mapped, Paired
  <2>3. Made' /\ Copies' /\ Starting'
    BY DEF TypeOK, Files, Holders, Made, Copies, Starting, Torn, Whole, NoFile, NoOp
  <2> QED BY <2>1, <2>2, <2>3
<1>6. CASE Copied
  <2> USE <1>6 DEF Copied
  <2>1. TypeOK'
    BY DEF TypeOK, Files, Torn, Whole
  <2>2. Holders' /\ Metadata' /\ Mapped' /\ Paired'
    BY DEF Holders, Metadata, Mapped, Paired
  <2>3. Made' /\ Copies' /\ Starting'
    BY DEF TypeOK, Files, Holders, Made, Copies, Starting, Torn, Whole, NoFile, NoOp
  <2> QED BY <2>1, <2>2, <2>3
<1>7. CASE SaveFails
  <2> USE <1>7 DEF SaveFails
  <2>1. TypeOK'
    BY DEF TypeOK, Files, Torn, Whole
  <2>2. Holders' /\ Metadata' /\ Mapped' /\ Paired'
    BY DEF Holders, Metadata, Mapped, Paired
  <2>3. Made' /\ Copies' /\ Starting'
    BY DEF TypeOK, Files, Holders, Made, Copies, Starting, Torn, Whole, NoFile, NoOp
  <2> QED BY <2>1, <2>2, <2>3
<1> QED BY <1>1, <1>2, <1>3, <1>4, <1>5, <1>6, <1>7 DEF Save

\* A numbering has a reverse.
LEMMA Numbered ==
    ASSUME NEW S \in SUBSET Ids, NEW f \in [S -> 0 .. Cardinality(S)], Numbering(f, S)
    PROVE  /\ DOMAIN Reverse(f) \subseteq Nat
           /\ Reverse(f) \in [DOMAIN Reverse(f) -> Ids]
<1>1. Cardinality(S) \in Nat
  BY StoreAssumption, FS_Subset, FS_CardinalityType
<1>2. DOMAIN f = S /\ \A i \in S : f[i] \in Nat
  BY <1>1
<1>3. DOMAIN Reverse(f) = {f[i] : i \in S}
  BY <1>2 DEF Reverse
<1>4. ASSUME NEW n \in DOMAIN Reverse(f) PROVE Reverse(f)[n] \in Ids
  <2>1. \E i \in DOMAIN f : f[i] = n
    BY <1>2, <1>3
  <2>2. Reverse(f)[n] = CHOOSE i \in DOMAIN f : f[i] = n
    BY <1>2, <1>3 DEF Reverse
  <2> QED BY <1>2, <2>1, <2>2
<1> QED BY <1>2, <1>3, <1>4 DEF Reverse

\* A start reads the file, or makes an empty one; then the maps are built.
LEMMA StartKeeps ==
    ASSUME Inv, Load \/ Ready \/ Crash
    PROVE  Inv'
<1> USE DEF Inv, fixed, metadata, index, disk
<1>1. CASE Load
  <2> USE <1>1 DEF Load
  <2>1. TypeOK'
    BY DEF TypeOK, Files
  <2>2. Holders' /\ Metadata' /\ Mapped' /\ Paired'
    BY DEF Holders, Metadata, Mapped, Paired, NoOp
  <2>3. ~up' /\ op'.kind = "init" /\ cache = {} /\ file' = file /\ saving # "copying"
    BY DEF Starting, NoOp, Holders
  <2>4. Made' /\ Starting'
    BY <2>3 DEF Made, Copies, Starting, Holders, NoOp
  <2>5. Copies'
    <3>1. UNCHANGED <<file, backup, saved>> /\ (~spoilt' => ~spoilt /\ file # Torn)
      <4>1. UNCHANGED <<file, backup, saved>> /\ (file.is = "whole" => file # Torn)
        BY DEF Torn
      <4>2. CASE file.is = "whole" /\ UNCHANGED spoilt
        BY <4>1, <4>2
      <4>3. CASE spoilt' = (spoilt \/ file = Torn)
        BY <4>1, <4>3, Zenon
      <4> QED BY <4>1, <4>2, <4>3
    <3>2. ~spoilt => file = saved \/ file = Torn
      BY DEF Copies
    <3>3. saving' # "move" /\ saving' # "copying"
      BY DEF Holders, NoOp
    <3>4. file.is # "whole" => file.has = {}
      BY DEF Copies
    <3> QED BY <3>1, <3>2, <3>3, <3>4 DEF Copies
  <2> QED BY <2>1, <2>2, <2>4, <2>5
<1>2. CASE Ready
  <2> USE <1>2 DEF Ready, Running
  <2>1. PICK f \in [cache -> 0 .. Cardinality(cache)] :
           Numbering(f, cache) /\ vectorMap' = f /\ indexMap' = Reverse(f)
    OBVIOUS
  <2>2. cache \in SUBSET Ids /\ Cardinality(cache) \in Nat
    BY StoreAssumption, FS_Subset, FS_CardinalityType DEF TypeOK
  <2>3. DOMAIN vectorMap' = cache /\ vectorMap' \in [cache -> Nat]
    BY <2>1, <2>2
  <2>4. DOMAIN indexMap' \subseteq Nat /\ indexMap' \in [DOMAIN indexMap' -> Ids]
    BY <2>1, <2>2, Numbered
  <2>5. byToken' \in [Tokens -> SUBSET Ids]
    BY <2>2
  <2>6. TypeOK'
    BY <2>2, <2>3, <2>4, <2>5 DEF TypeOK, NoOp
  <2>7. Paired'
    <3>1. CASE cache # {}
      BY <3>1 DEF Paired
    <3>2. CASE cache = {}
      <4>1. DOMAIN indexMap' = {}
        BY <2>1, <3>2 DEF Reverse
      <4> QED BY <2>3, <3>2, <4>1 DEF Paired
    <3> QED BY <3>1, <3>2
  <2>8. Holders' /\ Metadata' /\ Mapped'
    BY <2>3 DEF Holders, Metadata, Mapped, NoOp
  <2>9. Made' /\ Copies' /\ Starting'
    BY DEF Made, Copies, Starting, NoOp
  <2> QED BY <2>6, <2>7, <2>8, <2>9
<1>3. CASE Crash
  <2> USE <1>3 DEF Crash
  <2>1. TypeOK'
    <3>1. /\ DOMAIN indexMap' = {} /\ indexMap' \in [DOMAIN indexMap' -> Ids]
          /\ DOMAIN vectorMap' = {} /\ vectorMap' \in [DOMAIN vectorMap' -> Nat]
      BY EmptyMap
    <3>2. byToken' \in [Tokens -> SUBSET Ids] /\ crashes' \in 0 .. MaxCrashes
      BY StoreAssumption DEF TypeOK
    <3>3. /\ op' \in [kind : {"none", "init", "store", "rollback", "delete", "search"},
                       on : SUBSET Ids]
          /\ vectors' \in Nat /\ cache' \in SUBSET Ids /\ byId' \in SUBSET Ids
      BY DEF NoOp
    <3> QED BY <3>1, <3>2, <3>3 DEF TypeOK
  <2>2. Holders' /\ Metadata' /\ Mapped' /\ Paired'
    BY DEF Holders, Metadata, Mapped, Paired, NoOp
  <2>3. Made' /\ Copies' /\ Starting'
    BY DEF Made, Copies, Starting, NoOp
  <2> QED BY <2>1, <2>2, <2>3
<1> QED BY <1>1, <1>2, <1>3

\* The three operations, and a search's touches.
LEMMA OperationKeeps ==
    ASSUME Inv, NEW i \in Ids,
           \/ Store(i) \/ AddVector(i) \/ RollBack(i)
           \/ Delete(i) \/ Deleted(i) \/ Touch(i)
    PROVE  Inv'
<1> USE DEF Inv, fixed, metadata, index, disk
<1>1. CASE Store(i)
  <2> USE <1>1 DEF Store, Idle
  <2>1. i \notin cache /\ op = NoOp /\ up
    BY DEF Made
  <2>2. TypeOK'
    BY StoreAssumption DEF TypeOK
  <2>3. Holders' /\ Mapped' /\ Paired'
    BY <2>1 DEF Holders, Mapped, Paired, NoOp
  <2>4. Metadata'
    BY <2>1, StoreAssumption DEF Metadata, TypeOK
  <2>5. Made' /\ Copies' /\ Starting'
    BY <2>1 DEF Made, Copies, Starting, Holders, NoOp
  <2> QED BY <2>2, <2>3, <2>4, <2>5
<1>2. CASE AddVector(i)
  <2> USE <1>2 DEF AddVector, Running
  <2>1. op.on = {i} /\ up /\ i \in cache /\ DOMAIN vectorMap = cache \ {i}
    BY DEF Holders, Mapped
  <2>2. TypeOK'
    BY DEF TypeOK, NoOp
  <2>3. Holders' /\ Metadata' /\ Mapped'
    BY <2>1 DEF Holders, Metadata, Mapped, NoOp
  <2>4. Paired'
    BY <2>1 DEF Paired, TypeOK
  <2>5. Made' /\ Copies' /\ Starting'
    BY <2>1 DEF Made, Copies, Starting, NoOp
  <2> QED BY <2>2, <2>3, <2>4, <2>5
<1>3. CASE RollBack(i)
  <2> USE <1>3 DEF RollBack, DropMetadata, Running
  <2>1. op.on = {i} /\ up /\ DOMAIN vectorMap = cache \ {i}
    BY DEF Holders, Mapped
  <2>2. TypeOK'
    BY StoreAssumption DEF TypeOK
  <2>3. Holders' /\ Mapped' /\ Paired'
    BY <2>1 DEF Holders, Mapped, Paired
  <2>4. Metadata'
    BY <2>1, StoreAssumption DEF Metadata, TypeOK
  <2>5. Made' /\ Copies' /\ Starting'
    BY <2>1 DEF Made, Copies, Starting, Holders
  <2> QED BY <2>2, <2>3, <2>4, <2>5
<1>4. CASE Delete(i)
  <2> USE <1>4 DEF Delete, DropMetadata, Idle
  <2>1. i \in cache /\ op = NoOp /\ up
    BY DEF Metadata
  <2>2. TypeOK'
    BY StoreAssumption DEF TypeOK
  <2>3. Holders' /\ Mapped' /\ Paired'
    BY <2>1 DEF Holders, Mapped, Paired, NoOp
  <2>4. Metadata'
    BY <2>1, StoreAssumption DEF Metadata, TypeOK
  <2>5. Made' /\ Copies' /\ Starting'
    BY <2>1 DEF Made, Copies, Starting, Holders, NoOp
  <2> QED BY <2>2, <2>3, <2>4, <2>5
<1>5. CASE Deleted(i)
  <2> USE <1>5 DEF Deleted, Running
  <2>1. op.on = {i} /\ up /\ i \notin cache /\ DOMAIN vectorMap = cache \cup {i}
    BY DEF Holders, Mapped
  <2>2. TypeOK'
    BY DEF TypeOK, NoOp
  <2>3. Holders' /\ Metadata' /\ Mapped'
    BY <2>1 DEF Holders, Metadata, Mapped, NoOp
  <2>4. Paired'
    BY <2>1 DEF Paired
  <2>5. Made' /\ Copies' /\ Starting'
    BY <2>1 DEF Made, Copies, Starting, NoOp
  <2> QED BY <2>2, <2>3, <2>4, <2>5
<1>6. CASE Touch(i)
  <2> USE <1>6 DEF Touch, Running
  <2>1. op'.kind = "search" /\ up
    BY DEF Holders, TypeOK
  <2>2. TypeOK'
    BY DEF TypeOK
  <2>3. Holders' /\ Metadata' /\ Mapped' /\ Paired'
    BY <2>1 DEF Holders, Metadata, Mapped, Paired
  <2>4. Made' /\ Copies' /\ Starting'
    BY <2>1 DEF Made, Copies, Starting
  <2> QED BY <2>2, <2>3, <2>4
<1> QED BY <1>1, <1>2, <1>3, <1>4, <1>5, <1>6

\* The end of an operation, and the start of a search.
LEMMA RestKeeps ==
    ASSUME Inv, RolledBack \/ Searched \/ \E t \in Tokens : Search(t)
    PROVE  Inv'
<1> USE DEF Inv, fixed, metadata, index, disk
<1>1. CASE RolledBack \/ Searched
  <2> USE <1>1 DEF RolledBack, Searched, Running
  <2>1. TypeOK'
    BY DEF TypeOK, NoOp
  <2>2. Holders' /\ Metadata' /\ Mapped' /\ Paired'
    BY DEF Holders, Metadata, Mapped, Paired, NoOp
  <2>3. Made' /\ Copies' /\ Starting'
    BY DEF Holders, Made, Copies, Starting, NoOp
  <2> QED BY <2>1, <2>2, <2>3
<1>2. ASSUME NEW t \in Tokens, Search(t) PROVE Inv'
  <2> USE <1>2 DEF Search, Idle
  <2>1. PICK found \in SUBSET byToken[t] : op' = [kind |-> "search", on |-> found]
    OBVIOUS
  <2>2. found \subseteq Ids
    BY DEF TypeOK
  <2>3. TypeOK'
    BY <2>1, <2>2 DEF TypeOK
  <2>4. Holders' /\ Metadata' /\ Mapped' /\ Paired'
    BY <2>1 DEF Holders, Metadata, Mapped, Paired, NoOp
  <2>5. Made' /\ Copies' /\ Starting'
    BY <2>1 DEF Made, Copies, Starting, NoOp
  <2> QED BY <2>3, <2>4, <2>5
<1> QED BY <1>1, <1>2

LEMMA InvStep == Inv /\ [Next]_vars => Inv'
<1> SUFFICES ASSUME Inv, [Next]_vars PROVE Inv'
  OBVIOUS
<1>1. CASE Next
  BY <1>1, SaveKeeps, StartKeeps, OperationKeeps, RestKeeps DEF Next
<1>2. CASE UNCHANGED vars
  BY <1>2 DEF vars, Inv, TypeOK, Holders, Metadata, Mapped, Paired, Made, Copies, Starting
<1> QED BY <1>1, <1>2

LEMMA InvAlways == Spec => []Inv
BY InvInit, InvStep, PTL DEF Spec

-----------------------------------------------------------------------------
\* The fields of the storage managers and the files keep their types.
THEOREM TypeCorrect == Spec => []TypeOK
BY InvAlways, PTL DEF Inv

\* Between operations the entries, both indexes and the maps agree, whatever
\* failed on the way (storage_manager.py:133, 551).
THEOREM StoresAgreeAlways == Spec => []StoresAgree
<1>1. Inv => StoresAgree
  BY DEF Inv, StoresAgree, Idle, NoOp, Metadata, Mapped, Paired
<1> QED BY <1>1, InvAlways, PTL

\* What was saved last is whole in the file or in the backup, at every step
\* of a save (metadata_storage.py:127).
THEOREM SomeCompleteCopyAlways == Spec => []SomeCompleteCopy
<1>1. Inv => SomeCompleteCopy
  BY DEF Inv, SomeCompleteCopy, Copies
<1> QED BY <1>1, InvAlways, PTL

-----------------------------------------------------------------------------
(* The refinement: a store, a deletion and a rollback change one memory; a *)
(* save that goes through keeps, one that copies over the file first loses *)
(* it; the end of a start starts; everything else changes nothing.         *)

LEMMA SaveImplements ==
    ASSUME Inv, Save
    PROVE  [Durable!Next]_(Durable!vars)
<1> USE DEF fixed, metadata, index, disk, Store_live, Store_kept, Store_safe
<1>1. CASE WriteTemp \/ BackUp \/ BackedUp \/ SaveFails
  BY <1>1 DEF WriteTemp, BackUp, BackedUp, SaveFails, Durable!vars
<1>2. CASE Rename \/ Copied
  <2> USE <1>2 DEF Rename, Copied, Whole
  <2>1. UNCHANGED <<up, cache, faults>> /\ file'.has = cache
    OBVIOUS
  <2>2. CASE up
    BY <2>1, <2>2 DEF Durable!Next, Durable!Keep
  <2>3. CASE ~up
    <3>1. op.kind = "init" /\ cache = {}
      BY <2>3 DEF Inv, Holders, Starting
    <3>2. file.has = {} \/ faults # {}
      BY <3>1 DEF Inv, Starting
    <3>3. CASE file.has = {}
      BY <2>1, <2>3, <3>1, <3>3 DEF Durable!vars
    <3>4. CASE faults # {}
      BY <2>1, <2>3, <3>1, <3>4 DEF Durable!Next, Durable!Lose
    <3> QED BY <3>2, <3>3, <3>4
  <2> QED BY <2>2, <2>3
<1>3. CASE CopyOver
  BY <1>3 DEF CopyOver, Torn, Durable!Next, Durable!Lose
<1> QED BY <1>1, <1>2, <1>3 DEF Save

LEMMA StartImplements ==
    ASSUME Inv, Load \/ Ready \/ Crash
    PROVE  [Durable!Next]_(Durable!vars)
<1> USE DEF fixed, metadata, index, disk, Store_live, Store_kept, Store_safe
<1>1. CASE Load
  BY <1>1 DEF Load, Durable!vars
<1>2. CASE Ready
  <2>1. ~up /\ up' /\ (cache = file.has \/ (cache = {} /\ faults # {}))
    BY <1>2 DEF Ready, Running, Inv, Holders, Starting
  <2> QED BY <1>2, <2>1 DEF Ready, Durable!Next, Durable!Start
<1>3. CASE Crash
  BY <1>3 DEF Crash, Durable!Next, Durable!Crash
<1> QED BY <1>1, <1>2, <1>3

LEMMA OperationImplements ==
    ASSUME Inv, NEW i \in Ids,
           \/ Store(i) \/ AddVector(i) \/ RollBack(i)
           \/ Delete(i) \/ Deleted(i) \/ Touch(i)
    PROVE  [Durable!Next]_(Durable!vars)
<1> USE DEF fixed, metadata, index, disk, Store_live, Store_kept, Store_safe
<1>1. CASE Store(i)
  BY <1>1 DEF Store, Idle, Durable!Next, Durable!Change
<1>2. CASE RollBack(i) \/ Delete(i)
  <2>1. up
    BY <1>2 DEF RollBack, Running, Delete, Idle, Inv, Holders
  <2> QED BY <1>2, <2>1 DEF RollBack, Delete, DropMetadata, Durable!Next, Durable!Change
<1>3. CASE AddVector(i) \/ Deleted(i) \/ Touch(i)
  BY <1>3 DEF AddVector, Deleted, Touch, Durable!vars
<1> QED BY <1>1, <1>2, <1>3

\* A restart brings back what the last completed save wrote, whole, and a
\* disk without faults never loses it (metadata_storage.py:64, 127).
THEOREM StoreIsDurable == Spec => ImplementsStore
<1>1. Init => Durable!Init
  BY DEF Init, NoFile, Durable!Init, Store_live, Store_kept, Store_safe
<1>2. Inv /\ [Next]_vars => [Durable!Next]_(Durable!vars)
  <2> SUFFICES ASSUME Inv, [Next]_vars PROVE [Durable!Next]_(Durable!vars)
    OBVIOUS
  <2>1. CASE RolledBack \/ Searched \/ \E t \in Tokens : Search(t)
    BY <2>1 DEF RolledBack, Searched, Search, fixed, metadata, disk, Durable!vars,
                Store_live, Store_kept, Store_safe
  <2>2. CASE UNCHANGED vars
    BY <2>2 DEF vars, Durable!vars, Store_live, Store_kept, Store_safe
  <2> QED BY <2>1, <2>2, SaveImplements, StartImplements, OperationImplements DEF Next
<1> QED BY <1>1, <1>2, InvAlways, PTL DEF Spec, ImplementsStore, Durable!Spec
=============================================================================
