---------------------------- MODULE CatalogProofs ----------------------------
(***************************************************************************)
(* Proofs about Catalog: tables that were answered for stay, and why a     *)
(* process refuses the database, and that schemas are read back as they    *)
(* were written.                                                           *)
(***************************************************************************)
EXTENDS Catalog, SequenceTheorems, FiniteSetTheorems, WellFoundedInduction, TLAPS

\* The induction of the proofs about data: the numbers for which a claim
\* fails are a set, and its least member leads to a contradiction.
LEMMA LeastNatural ==
  ASSUME NEW T \in SUBSET Nat, T # {}
  PROVE  \E x \in T : \A y \in T : x <= y
<1> DEFINE R == OpToRel(<, Nat)
<1>1. \A x, y \in Nat : x < y => <<x, y>> \in R
  BY DEF OpToRel
<1>2. PICK x \in T : \A y \in T : <<y, x>> \notin R
  <2>1. IsWellFoundedOn(R, Nat)
    BY NatLessThanWellFounded
  <2> HIDE DEF R
  <2> QED
    BY <2>1, WFMin
<1> HIDE DEF R
<1>3. ASSUME NEW y \in T PROVE x <= y
  <2>1. ~(y < x)
    BY <1>1, <1>2
  <2> QED
    BY <2>1
<1> QED
  BY <1>3

LEMMA GreatestNatural ==
  ASSUME NEW n \in Nat, NEW T \in SUBSET (0 .. n), T # {}
  PROVE  \E x \in T : \A y \in T : y <= x
<1> DEFINE D == {n - x : x \in T}
<1>1. D \in SUBSET Nat /\ D # {}
  <2>1. \A x \in T : n - x \in Nat
    OBVIOUS
  <2>2. D \subseteq Nat
    BY <2>1
  <2>3. PICK x \in T : TRUE
    OBVIOUS
  <2>4. n - x \in D
    OBVIOUS
  <2> QED
    BY <2>2, <2>4
<1>2. PICK d \in D : \A e \in D : d <= e
  <2> HIDE DEF D
  <2> QED
    BY <1>1, LeastNatural
<1>3. PICK x \in T : d = n - x
  BY <1>2
<1>4. ASSUME NEW y \in T PROVE y <= x
  <2>1. n - y \in D
    OBVIOUS
  <2> QED
    BY <1>2, <1>3, <2>1
<1> QED
  BY <1>4

-----------------------------------------------------------------------------
(* The inductive invariant: the history created is about all processes, so *)
(* it has to be tied to the files while no process runs, to what has been   *)
(* opened so far while one opens the database, and to frames throughout.    *)

Counted ==
  /\ IsFiniteSet(buffer_pools_) /\ IsFiniteSet(DOMAIN opened_tables_)
  /\ IsFiniteSet(DOMAIN created) /\ Cardinality(DOMAIN created) <= NumFrames

\* CREATE TABLE runs in an opened database, on a name without a table; its meta
\* file is there, and whole after WriteMeta.
Creates ==
  /\ creating \in {NoTable} \cup [step : {"serialize", "create", "header", "open"},
                                  table : Table, attrs : Attrs]
  /\ creating # NoTable =>
       /\ process = "runs" /\ db = "opened"
       /\ creating.table \notin DOMAIN opened_tables_
       /\ meta_files[creating.table] # Absent
       /\ creating.step # "serialize" => meta_files[creating.table] # Torn

\* The files of a table that was answered for are whole.
CreatedWhole ==
  \A t \in DOMAIN created :
    meta_files[t] # Absent /\ meta_files[t] # Torn /\ data_files[t] = "header"

Cleared ==
  process = "none" => /\ path = "bin" /\ db = "closed" /\ todo = {} /\ buffer_pools_ = {}
                      /\ DOMAIN opened_tables_ = {} /\ creating = NoTable

\* Before a process tries to open the database it has nothing; afterwards the
\* database is closed only if it was refused.
Closed ==
  db = "closed" => /\ creating = NoTable
                   /\ path = "bin" => buffer_pools_ = {} /\ DOMAIN opened_tables_ = {}
                   /\ process = "runs" => (refused <=> path # "bin")

\* While the database is being opened, each open file is the data file of a table
\* opened so far, and each table answered for is among those opened or to open.
Opening ==
  db = "opening" =>
    /\ process = "runs" /\ path # "bin" /\ ~refused /\ creating = NoTable
    /\ DOMAIN created \subseteq todo \cup DOMAIN opened_tables_
    /\ todo \cap DOMAIN opened_tables_ = {}
    /\ buffer_pools_ = {DataFile(t) : t \in DOMAIN opened_tables_}
    /\ Cardinality(buffer_pools_) = Cardinality(DOMAIN opened_tables_)
    /\ \A t \in todo \cup DOMAIN opened_tables_ : meta_files[t] # Absent

Opened ==
  db = "opened" =>
    /\ process = "runs" /\ path # "bin" /\ ~refused
    /\ Cardinality(DOMAIN opened_tables_) <= Cardinality(buffer_pools_)

IInv == /\ TypeOK /\ Counted /\ Creates /\ CreatedWhole /\ Cleared
        /\ Closed /\ Opening /\ Opened /\ CreatedStays /\ RefusedForCause

-----------------------------------------------------------------------------
LEMMA FilesDiffer ==
  /\ Absent # Torn
  /\ \A meta : Serialize(meta) # Absent /\ Serialize(meta) # Torn
<1>1. Absent.is = "absent" /\ Torn.is = "torn"
  BY DEF Absent, Torn
<1>2. \A meta : Serialize(meta).is = "json"
  BY DEF Serialize
<1> QED
  BY <1>1, <1>2

LEMMA NamesDiffer ==
  ASSUME NEW t, NEW u, DataFile(t) = DataFile(u)
  PROVE  t = u
BY DEF DataFile

LEMMA Nothing ==
  /\ DOMAIN <<>> = {} /\ IsFiniteSet({}) /\ Cardinality({}) = 0
BY FS_EmptySet

\* One more element: the set stays finite and grows by at most one.
LEMMA OneMore ==
  ASSUME NEW S, IsFiniteSet(S), NEW x
  PROVE  /\ IsFiniteSet(S \cup {x})
         /\ Cardinality(S) \in Nat /\ Cardinality(S \cup {x}) \in Nat
         /\ Cardinality(S \cup {x}) <= Cardinality(S) + 1
         /\ x \notin S => Cardinality(S \cup {x}) = Cardinality(S) + 1
<1>1. IsFiniteSet(S \cup {x})
  BY FS_AddElement
<1>2. Cardinality(S \cup {x}) = IF x \in S THEN Cardinality(S) ELSE Cardinality(S) + 1
  BY FS_AddElement
<1>3. Cardinality(S) \in Nat
  BY FS_CardinalityType
<1> QED
  BY <1>1, <1>2, <1>3

LEMMA InitIInv == Init => IInv
<1> SUFFICES ASSUME Init PROVE IInv
  OBVIOUS
<1> USE CatalogAssumption, Nothing DEF Init
<1>1. TypeOK
  <2>1. data_files \in [Table -> {"absent", "empty", "header"}] /\ DOMAIN meta_files = Table
    OBVIOUS
  <2>2. Cardinality(buffer_pools_) <= NumFrames
    OBVIOUS
  <2>3. DOMAIN opened_tables_ = {} /\ DOMAIN created = {}
    OBVIOUS
  <2>4. index_files \subseteq {IndexFile(t, i) : t \in Table, i \in Index}
        /\ buffer_pools_ \subseteq {DataFile(t) : t \in Table} \cup index_files
    OBVIOUS
  <2>5. refused \in BOOLEAN
    OBVIOUS
  <2> HIDE Nothing
  <2> QED
    BY <2>1, <2>2, <2>3, <2>4, <2>5 DEF TypeOK
<1>2. Counted /\ Creates /\ CreatedWhole /\ Cleared
  BY DEF Counted, Creates, CreatedWhole, Cleared
<1>3. Closed /\ Opening /\ Opened /\ CreatedStays /\ RefusedForCause
  BY DEF Closed, Opening, Opened, CreatedStays, RefusedForCause
<1> QED
  BY <1>1, <1>2, <1>3 DEF IInv

-----------------------------------------------------------------------------
(* Steps *)

\* Without a process, and in a new one, only the files and created count.
LEMMA Forgets ==
  ASSUME IInv, NoMemory, UNCHANGED <<files, created>>,
         process' \in {"none", "runs"}, refused' \in BOOLEAN, RefusedForCause',
         process' = "runs" => ~refused'
  PROVE  IInv'
<1> USE CatalogAssumption, Nothing
<1>1. DOMAIN opened_tables_' = {} /\ buffer_pools_' = {} /\ todo' = {} /\ db' = "closed"
      /\ path' = "bin" /\ creating' = NoTable
  BY DEF NoMemory
<1>2. /\ meta_files' = meta_files /\ data_files' = data_files
      /\ index_files' = index_files /\ created' = created
  BY DEF files
<1>3. TypeOK'
  BY <1>1, <1>2 DEF IInv, TypeOK
<1>4. Counted'
  BY <1>1, <1>2 DEF IInv, Counted
<1>5. Creates' /\ CreatedWhole' /\ Cleared'
  BY <1>1, <1>2 DEF IInv, Creates, CreatedWhole, Cleared
<1>6. Closed' /\ Opening' /\ Opened' /\ CreatedStays'
  BY <1>1 DEF Closed, Opening, Opened, CreatedStays
<1> QED
  BY <1>3, <1>4, <1>5, <1>6 DEF IInv

LEMMA ProcessSteps ==
  ASSUME IInv, Start \/ Crash \/ Exit
  PROVE  IInv'
<1>1. NoMemory /\ UNCHANGED <<files, created>> /\ process' \in {"none", "runs"}
  BY DEF Start, Crash, Exit
<1>2. refused' = FALSE \/ refused' = refused
  BY DEF Start, Crash, Exit
<1>3. /\ meta_files' = meta_files /\ created' = created
      /\ refused \in BOOLEAN /\ RefusedForCause
  BY <1>1 DEF files, IInv, TypeOK
<1>4. refused' \in BOOLEAN
  <2>1. CASE refused' = FALSE
    BY <2>1
  <2>2. CASE refused' = refused
    BY <2>2, <1>3
  <2> QED
    BY <2>1, <2>2, <1>2
<1>5. RefusedForCause'
  BY <1>2, <1>3 DEF RefusedForCause
<1>6. process' = "runs" => ~refused'
  BY DEF Start, Crash, Exit
<1> QED
  BY <1>1, <1>4, <1>5, <1>6, Forgets

LEMMA DiesStep ==
  ASSUME IInv, NEW t \in Table, OpenTableDies(t)
  PROVE  IInv'
<1>1. NoMemory /\ UNCHANGED <<files, created>> /\ process' = "none" /\ refused' = TRUE
  BY DEF OpenTableDies
<1>2. meta_files[t] # Absent /\ t \notin DOMAIN created
  BY DEF OpenTableDies, IInv, Opening, CreatedWhole
<1>3. RefusedForCause'
  BY <1>1, <1>2 DEF RefusedForCause, files
<1> QED
  BY <1>1, <1>3, Forgets

LEMMA GetDbStep ==
  ASSUME IInv, GetDb
  PROVE  IInv'
<1> USE DEF IInv
<1>1. CASE path = "bin"
  <2>1. /\ db' = "opening" /\ todo' = {t \in Table : meta_files[t] # Absent}
        /\ path' = "bin/sys" /\ UNCHANGED <<opened_tables_, refused>>
    BY <1>1 DEF GetDb, Appended
  <2>2. /\ db = "closed" /\ process = "runs" /\ creating = NoTable
        /\ UNCHANGED <<files, process, buffer_pools_, creating, created>>
    BY DEF GetDb, Runs
  <2>3. buffer_pools_ = {} /\ DOMAIN opened_tables_ = {} /\ ~refused
    BY <1>1, <2>2 DEF Closed
  <2>4. TypeOK' /\ Counted' /\ Creates' /\ CreatedWhole' /\ Cleared'
    BY <2>1, <2>2 DEF TypeOK, Counted, Creates, CreatedWhole, Cleared, files
  <2>5. Opening'
    BY <1>1, <2>1, <2>2, <2>3, Nothing
       DEF TypeOK, CreatedWhole, Opening, Refuse, GetDb, Appended, files
  <2> QED
    BY <2>1, <2>2, <2>4, <2>5 DEF Closed, Opened, CreatedStays, RefusedForCause, files
<1>2. CASE path # "bin"
  <2>1. db' = "closed" /\ todo' = {} /\ opened_tables_' = <<>> /\ refused' = TRUE
        /\ path' = "bin/sys/sys"
    BY <1>2 DEF GetDb, Appended, Refuse
  <2>2. /\ db = "closed" /\ process = "runs" /\ creating = NoTable
        /\ UNCHANGED <<files, process, buffer_pools_, creating, created>>
    BY DEF GetDb, Runs
  <2>3. refused
    BY <1>2, <2>2 DEF Closed
  <2>4. TypeOK' /\ Counted' /\ Creates' /\ CreatedWhole' /\ Cleared'
    BY <2>1, <2>2, Nothing DEF TypeOK, Counted, Creates, CreatedWhole, Cleared, files
  <2> QED
    BY <2>1, <2>2, <2>3, <2>4 DEF Closed, Opening, Opened, CreatedStays, RefusedForCause, files
<1> QED
  BY <1>1, <1>2

LEMMA OpenTableStep ==
  ASSUME IInv, NEW t \in Table, OpenTable(t)
  PROVE  IInv'
<1> USE DEF IInv
<1> DEFINE opened == DOMAIN opened_tables_
<1>1. /\ process = "runs" /\ creating = NoTable /\ db = "opening" /\ t \in todo
      /\ DataFile(t) \notin buffer_pools_ /\ Cardinality(buffer_pools_) < NumFrames
      /\ buffer_pools_' = buffer_pools_ \cup {DataFile(t)}
      /\ todo' = todo \ {t}
      /\ UNCHANGED <<files, process, path, db, creating, created, refused>>
  BY DEF OpenTable, Runs, CanOpenFile, FrameLeft
<1>2. (DOMAIN opened_tables_)' = opened \cup {t}
  BY DEF OpenTable
<1>3. /\ meta_files' = meta_files /\ data_files' = data_files /\ index_files' = index_files
      /\ created' = created /\ refused' = refused /\ path' = path /\ db' = db
      /\ process' = process /\ creating' = creating
  BY <1>1 DEF files
<1>4. t \notin opened /\ ~refused /\ path # "bin"
  BY <1>1 DEF Opening
<1>5. /\ IsFiniteSet(buffer_pools_)' /\ IsFiniteSet(opened)'
      /\ Cardinality(buffer_pools_)' = Cardinality(buffer_pools_) + 1
      /\ Cardinality(opened)' = Cardinality(opened) + 1
      /\ Cardinality(buffer_pools_) \in Nat
  <2>1. IsFiniteSet(buffer_pools_) /\ IsFiniteSet(opened)
    BY DEF Counted
  <2>2. /\ IsFiniteSet(buffer_pools_ \cup {DataFile(t)}) /\ Cardinality(buffer_pools_) \in Nat
        /\ Cardinality(buffer_pools_ \cup {DataFile(t)}) = Cardinality(buffer_pools_) + 1
    BY <1>1, <2>1, OneMore
  <2>3. /\ IsFiniteSet(opened \cup {t})
        /\ Cardinality(opened \cup {t}) = Cardinality(opened) + 1
    BY <1>4, <2>1, OneMore
  <2> QED
    BY <1>1, <1>2, <2>2, <2>3
<1>6. TypeOK'
  <2>1. /\ (DOMAIN opened_tables_)' \subseteq Table /\ todo' \subseteq Table
        /\ buffer_pools_' \subseteq {DataFile(u) : u \in Table} \cup index_files
    BY <1>1, <1>2 DEF TypeOK
  <2>2. Cardinality(buffer_pools_)' <= NumFrames
    BY <1>1, <1>5, CatalogAssumption
  <2> QED
    BY <1>3, <2>1, <2>2 DEF TypeOK
<1>7. Counted' /\ Creates' /\ CreatedWhole' /\ Cleared'
  BY <1>1, <1>3, <1>5 DEF Counted, Creates, CreatedWhole, Cleared
<1>8. Opening'
  <2>1. buffer_pools_' = {DataFile(u) : u \in DOMAIN opened_tables_'}
    BY <1>1, <1>2 DEF Opening
  <2>2. /\ DOMAIN created \subseteq todo' \cup DOMAIN opened_tables_'
        /\ todo' \cap DOMAIN opened_tables_' = {}
        /\ todo' \cup DOMAIN opened_tables_' = todo \cup opened
    BY <1>1, <1>2 DEF Opening
  <2>3. Cardinality(buffer_pools_') = Cardinality(DOMAIN opened_tables_')
    BY <1>1, <1>5 DEF Opening
  <2>4. \A u \in todo' \cup DOMAIN opened_tables_' : meta_files'[u] # Absent
    BY <1>1, <1>3, <2>2 DEF Opening
  <2> QED
    BY <1>1, <1>3, <1>4, <2>1, <2>2, <2>3, <2>4 DEF Opening
<1> QED
  BY <1>1, <1>3, <1>6, <1>7, <1>8 DEF Closed, Opened, CreatedStays, RefusedForCause

\* No frame is missing as long as every table in the files was answered for: each
\* of them had its frame when the last of them was created.
LEMMA OpenTableFailsStep ==
  ASSUME IInv, NEW t \in Table, OpenTableFails(t)
  PROVE  IInv'
<1> USE DEF IInv
<1>1. /\ process = "runs" /\ creating = NoTable /\ db = "opening" /\ t \in todo
      /\ db' = "closed" /\ todo' = {} /\ opened_tables_' = <<>> /\ refused' = TRUE
      /\ UNCHANGED <<files, process, path, buffer_pools_, creating, created>>
  BY DEF OpenTableFails, Runs, Refuse
<1>2. /\ meta_files' = meta_files /\ data_files' = data_files /\ index_files' = index_files
      /\ created' = created /\ path' = path /\ buffer_pools_' = buffer_pools_
      /\ process' = process /\ creating' = creating
  BY <1>1 DEF files
<1>3. /\ path # "bin" /\ t \notin DOMAIN opened_tables_
      /\ \A u \in todo \cup DOMAIN opened_tables_ : meta_files[u] # Absent
      /\ buffer_pools_ = {DataFile(u) : u \in DOMAIN opened_tables_}
      /\ Cardinality(buffer_pools_) = Cardinality(DOMAIN opened_tables_)
  BY <1>1 DEF Opening
<1>4. \E u \in Table : meta_files[u] # Absent /\ u \notin DOMAIN created
  <2>1. CASE meta_files[t] = Torn \/ data_files[t] # "header"
    BY <1>1, <1>3, <2>1 DEF CreatedWhole
  <2>2. CASE ~FrameLeft
    <3> SUFFICES ASSUME \A u \in Table : meta_files[u] # Absent => u \in DOMAIN created
                 PROVE  FALSE
      OBVIOUS
    <3>1. DOMAIN opened_tables_ \cup {t} \in SUBSET DOMAIN created
      BY <1>1, <1>3 DEF TypeOK
    <3>2. Cardinality(DOMAIN opened_tables_ \cup {t}) <= Cardinality(DOMAIN created)
      BY <3>1, FS_Subset DEF Counted
    <3>3. Cardinality(DOMAIN opened_tables_ \cup {t}) = Cardinality(DOMAIN opened_tables_) + 1
      BY <1>3, OneMore DEF Counted
    <3>4. /\ Cardinality(DOMAIN opened_tables_) \in Nat /\ Cardinality(DOMAIN created) \in Nat
          /\ Cardinality(DOMAIN created) <= NumFrames
      BY FS_CardinalityType DEF Counted
    <3>5. Cardinality(buffer_pools_) >= NumFrames
      BY <2>2, <1>3, <3>4, CatalogAssumption DEF FrameLeft
    <3> QED
      BY <1>3, <3>2, <3>3, <3>4, <3>5, CatalogAssumption
  <2>3. DataFile(t) \notin buffer_pools_
    BY <1>3, NamesDiffer
  <2> QED
    BY <2>1, <2>2, <2>3 DEF OpenTableFails, CanOpenFile
<1>5. TypeOK' /\ Counted' /\ Creates' /\ CreatedWhole' /\ Cleared'
  BY <1>1, <1>2, Nothing DEF TypeOK, Counted, Creates, CreatedWhole, Cleared
<1>6. RefusedForCause'
  BY <1>2, <1>4 DEF RefusedForCause
<1> QED
  BY <1>1, <1>2, <1>3, <1>5, <1>6 DEF Closed, Opening, Opened, CreatedStays

LEMMA AllOpenedStep ==
  ASSUME IInv, AllOpened
  PROVE  IInv'
<1> USE DEF IInv
<1>1. /\ process = "runs" /\ creating = NoTable /\ db = "opening" /\ todo = {}
      /\ db' = "opened"
      /\ UNCHANGED <<files, process, path, todo, opened_tables_, buffer_pools_, creating,
                     created, refused>>
  BY DEF AllOpened, Runs
<1>2. /\ meta_files' = meta_files /\ data_files' = data_files /\ index_files' = index_files
  BY <1>1 DEF files
<1>3. TypeOK' /\ Counted' /\ Creates' /\ CreatedWhole' /\ Cleared' /\ RefusedForCause'
  BY <1>1, <1>2 DEF TypeOK, Counted, Creates, CreatedWhole, Cleared, RefusedForCause
<1>4. Opened' /\ CreatedStays'
  <2>1. Cardinality(DOMAIN opened_tables_) \in Nat
    BY FS_CardinalityType DEF Counted
  <2> QED
    BY <1>1, <2>1 DEF Opening, Opened, CreatedStays
<1> QED
  BY <1>1, <1>3, <1>4 DEF Closed, Opening

LEMMA CreateTableStep ==
  ASSUME IInv, NEW t \in Table, NEW attrs \in Attrs, CreateTable(t, attrs)
  PROVE  IInv'
<1> USE DEF IInv
<1>1. /\ process = "runs" /\ creating = NoTable /\ db = "opened"
      /\ t \notin DOMAIN opened_tables_ /\ meta_files[t] = Absent
      /\ meta_files' = [meta_files EXCEPT ![t] = Torn]
      /\ creating' = [step |-> "serialize", table |-> t, attrs |-> attrs]
      /\ UNCHANGED <<data_files, index_files, process, path, db, todo, opened_tables_,
                     buffer_pools_, created, refused>>
  BY DEF CreateTable, Runs
<1>2. /\ DOMAIN meta_files' = Table /\ meta_files'[t] = Torn
      /\ \A u \in Table \ {t} : meta_files'[u] = meta_files[u]
  BY <1>1 DEF TypeOK
<1>3. TypeOK' /\ Counted' /\ Cleared'
  BY <1>1, <1>2 DEF TypeOK, Counted, Cleared
<1>4. Creates'
  BY <1>1, <1>2, FilesDiffer DEF Creates
<1>5. CreatedWhole'
  <2>1. t \notin DOMAIN created /\ DOMAIN created \subseteq Table
    BY <1>1 DEF CreatedStays, TypeOK
  <2> QED
    BY <1>1, <1>2, <2>1 DEF CreatedWhole
<1> QED
  BY <1>1, <1>3, <1>4, <1>5 DEF Closed, Opening, Opened, CreatedStays, RefusedForCause

LEMMA WriteMetaStep ==
  ASSUME IInv, WriteMeta
  PROVE  IInv'
<1> USE DEF IInv
<1> DEFINE t == creating.table
<1>1. /\ creating.step = "serialize" /\ process = "runs"
      /\ meta_files' = [meta_files EXCEPT ![t] = Serialize(TableMeta(t, creating.attrs))]
      /\ creating' = [creating EXCEPT !.step = "create"]
      /\ UNCHANGED <<data_files, index_files, process, path, db, todo, opened_tables_,
                     buffer_pools_, created, refused>>
  BY DEF WriteMeta, Written
<1>2. /\ creating # NoTable /\ db = "opened" /\ t \in Table
      /\ t \notin DOMAIN opened_tables_
      /\ creating' \in [step : {"create"}, table : {t}, attrs : Attrs]
      /\ creating' # NoTable
  BY <1>1 DEF Creates, NoTable
<1>3. /\ DOMAIN meta_files' = Table /\ meta_files'[t] # Torn /\ meta_files'[t] # Absent
      /\ \A u \in Table \ {t} : meta_files'[u] = meta_files[u]
  BY <1>1, <1>2, FilesDiffer DEF TypeOK
<1>4. TypeOK' /\ Counted' /\ Cleared'
  BY <1>1, <1>2, <1>3 DEF TypeOK, Counted, Cleared
<1>5. Creates'
  <2>1. creating'.table = t /\ creating' \in [step : {"create"}, table : Table, attrs : Attrs]
    BY <1>2
  <2> QED
    BY <1>1, <1>2, <1>3, <2>1 DEF Creates
<1>6. CreatedWhole'
  BY <1>1, <1>3 DEF CreatedWhole, TypeOK
<1> QED
  BY <1>1, <1>2, <1>4, <1>5, <1>6 DEF Closed, Opening, Opened, CreatedStays, RefusedForCause

LEMMA DataFileSteps ==
  ASSUME IInv, CreateFile \/ WriteHeader
  PROVE  IInv'
<1> USE DEF IInv
<1> DEFINE t == creating.table
<1>1. /\ creating.step \in {"create", "header"} /\ process = "runs"
      /\ UNCHANGED <<meta_files, index_files, process, path, db, todo, opened_tables_,
                     buffer_pools_, created, refused>>
  BY DEF CreateFile, WriteHeader
<1>2. /\ creating # NoTable /\ db = "opened" /\ t \in Table
      /\ t \notin DOMAIN opened_tables_
      /\ creating \in [step : {"create", "header"}, table : Table, attrs : Attrs]
      /\ meta_files[t] # Absent /\ meta_files[t] # Torn
  BY <1>1 DEF Creates, NoTable
<1>3. \/ creating' = NoTable
      \/ /\ creating' \in [step : {"header", "open"}, table : Table, attrs : Attrs]
         /\ creating'.table = t
  BY <1>2 DEF CreateFile, WriteHeader
<1>4. /\ data_files' \in [Table -> {"absent", "empty", "header"}]
      /\ \A u \in Table : data_files[u] = "header" => data_files'[u] = "header"
  BY <1>2 DEF CreateFile, WriteHeader, TypeOK
<1>5. TypeOK' /\ Counted' /\ Cleared'
  BY <1>1, <1>4 DEF TypeOK, Counted, Cleared
<1>6. Creates'
  BY <1>1, <1>2, <1>3 DEF Creates
<1>7. CreatedWhole'
  BY <1>1, <1>4 DEF CreatedWhole, TypeOK
<1> QED
  BY <1>1, <1>2, <1>5, <1>6, <1>7 DEF Closed, Opening, Opened, CreatedStays, RefusedForCause

LEMMA InitRecordHandlerStep ==
  ASSUME IInv, InitRecordHandler
  PROVE  IInv'
<1> USE DEF IInv
<1> DEFINE t == creating.table
<1>1. /\ creating.step = "open" /\ process = "runs" /\ creating' = NoTable
      /\ UNCHANGED <<files, process, path, db, todo, refused>>
  BY DEF InitRecordHandler
<1>2. /\ creating # NoTable /\ db = "opened" /\ t \in Table
      /\ t \notin DOMAIN opened_tables_
      /\ meta_files[t] # Absent /\ meta_files[t] # Torn
  BY <1>1 DEF Creates, NoTable
<1>3. /\ meta_files' = meta_files /\ data_files' = data_files /\ index_files' = index_files
  BY <1>1 DEF files
<1>4. CASE UNCHANGED <<buffer_pools_, opened_tables_, created>>
  <2>1. TypeOK' /\ Counted' /\ Creates' /\ CreatedWhole' /\ Cleared'
    BY <1>1, <1>3, <1>4 DEF TypeOK, Counted, Creates, CreatedWhole, Cleared
  <2> QED
    BY <1>1, <1>2, <1>3, <1>4, <2>1
       DEF Closed, Opening, Opened, CreatedStays, RefusedForCause
<1>5. CASE ~ UNCHANGED <<buffer_pools_, opened_tables_, created>>
  <2>1. /\ DataFile(t) \notin buffer_pools_ /\ data_files[t] = "header"
        /\ Cardinality(buffer_pools_) < NumFrames
        /\ buffer_pools_' = buffer_pools_ \cup {DataFile(t)}
        /\ DOMAIN opened_tables_' = DOMAIN opened_tables_ \cup {t}
        /\ DOMAIN created' = DOMAIN created \cup {t}
    BY <1>5 DEF InitRecordHandler, CanOpenFile, FrameLeft
  <2>2. /\ IsFiniteSet(buffer_pools_') /\ IsFiniteSet(DOMAIN opened_tables_')
        /\ Cardinality(buffer_pools_) \in Nat
        /\ Cardinality(buffer_pools_') = Cardinality(buffer_pools_) + 1
        /\ Cardinality(DOMAIN opened_tables_') <= Cardinality(buffer_pools_')
    <3>1. IsFiniteSet(buffer_pools_) /\ IsFiniteSet(DOMAIN opened_tables_)
          /\ Cardinality(DOMAIN opened_tables_) <= Cardinality(buffer_pools_)
      BY <1>2 DEF Counted, Opened
    <3>2. /\ IsFiniteSet(buffer_pools_ \cup {DataFile(t)})
          /\ Cardinality(buffer_pools_) \in Nat
          /\ Cardinality(buffer_pools_ \cup {DataFile(t)}) = Cardinality(buffer_pools_) + 1
      BY <2>1, <3>1, OneMore
    <3>3. /\ IsFiniteSet(DOMAIN opened_tables_ \cup {t})
          /\ Cardinality(DOMAIN opened_tables_) \in Nat
          /\ Cardinality(DOMAIN opened_tables_ \cup {t}) = Cardinality(DOMAIN opened_tables_) + 1
      BY <1>2, <3>1, OneMore
    <3> QED
      BY <2>1, <3>1, <3>2, <3>3
  <2>3. /\ IsFiniteSet(DOMAIN created') /\ Cardinality(DOMAIN created') <= NumFrames
    <3>1. DOMAIN created' \in SUBSET DOMAIN opened_tables_'
      BY <1>2, <2>1 DEF CreatedStays
    <3>2. /\ IsFiniteSet(DOMAIN created')
          /\ Cardinality(DOMAIN created') <= Cardinality(DOMAIN opened_tables_')
      BY <2>2, <3>1, FS_Subset
    <3>3. Cardinality(DOMAIN created') \in Nat /\ Cardinality(DOMAIN opened_tables_') \in Nat
      BY <2>2, <3>2, FS_CardinalityType
    <3> QED
      BY <2>1, <2>2, <3>2, <3>3, CatalogAssumption
  <2>4. TypeOK'
    <3>1. /\ buffer_pools_' \subseteq {DataFile(u) : u \in Table} \cup index_files
          /\ DOMAIN opened_tables_' \subseteq Table /\ DOMAIN created' \subseteq Table
      BY <1>2, <2>1 DEF TypeOK
    <3>2. Cardinality(buffer_pools_') <= NumFrames
      BY <2>1, <2>2, CatalogAssumption
    <3> QED
      BY <1>1, <1>3, <3>1, <3>2 DEF TypeOK
  <2>5. Counted' /\ Creates' /\ Cleared'
    BY <1>1, <2>2, <2>3 DEF Counted, Creates, Cleared
  <2>6. CreatedWhole'
    BY <1>2, <1>3, <2>1 DEF CreatedWhole
  <2>7. Opened' /\ CreatedStays'
    BY <1>1, <1>2, <2>1, <2>2 DEF Opened, CreatedStays
  <2> QED
    BY <1>1, <1>2, <2>4, <2>5, <2>6, <2>7 DEF Closed, Opening, Opened, RefusedForCause
<1> QED
  BY <1>4, <1>5

LEMMA CreateIndexStep ==
  ASSUME IInv, NEW t \in Table, NEW i \in Index, CreateIndex(t, i)
  PROVE  IInv'
<1> USE DEF IInv
<1> DEFINE f == IndexFile(t, i)
<1>1. /\ process = "runs" /\ creating = NoTable /\ db = "opened"
      /\ index_files \subseteq index_files' /\ index_files' \subseteq index_files \cup {f}
      /\ \/ /\ Cardinality(buffer_pools_) + 1 < NumFrames
            /\ buffer_pools_' = buffer_pools_ \cup {f} /\ f \in index_files'
         \/ buffer_pools_' = buffer_pools_
      /\ UNCHANGED <<meta_files, data_files, process, path, db, todo, opened_tables_,
                     creating, created, refused>>
  BY DEF CreateIndex, Runs
<1>2. /\ IsFiniteSet(buffer_pools_') /\ buffer_pools_ \subseteq buffer_pools_'
      /\ Cardinality(buffer_pools_') <= NumFrames
      /\ Cardinality(buffer_pools_) <= Cardinality(buffer_pools_')
  <2> DEFINE more == buffer_pools_ \cup {f}
  <2>1. IsFiniteSet(buffer_pools_) /\ Cardinality(buffer_pools_) <= NumFrames
    BY DEF Counted, TypeOK
  <2>2. /\ IsFiniteSet(more) /\ Cardinality(buffer_pools_) \in Nat /\ Cardinality(more) \in Nat
        /\ Cardinality(more) <= Cardinality(buffer_pools_) + 1
    BY <2>1, OneMore
  <2>3. buffer_pools_ \in SUBSET more
    OBVIOUS
  <2>4. Cardinality(buffer_pools_) <= Cardinality(more)
    BY <2>2, <2>3, FS_Subset
  <2>5. CASE buffer_pools_' = buffer_pools_
    BY <2>1, <2>2, <2>5
  <2>6. CASE buffer_pools_' = more /\ Cardinality(buffer_pools_) + 1 < NumFrames
    <3>1. Cardinality(more) <= NumFrames
      BY <2>2, <2>6, CatalogAssumption
    <3> QED
      BY <2>2, <2>3, <2>4, <2>6, <3>1
  <2> QED
    BY <1>1, <2>5, <2>6
<1>3. TypeOK'
  <2>1. index_files' \subseteq {IndexFile(u, j) : u \in Table, j \in Index}
    BY <1>1 DEF TypeOK
  <2>2. buffer_pools_' \subseteq {DataFile(u) : u \in Table} \cup index_files'
    BY <1>1 DEF TypeOK
  <2> QED
    BY <1>1, <1>2, <2>1, <2>2 DEF TypeOK
<1>4. Counted' /\ Creates' /\ CreatedWhole' /\ Cleared' /\ RefusedForCause'
  BY <1>1, <1>2 DEF Counted, Creates, CreatedWhole, Cleared, RefusedForCause
<1>5. Opened' /\ CreatedStays'
  <2>1. Cardinality(DOMAIN opened_tables_) \in Nat /\ Cardinality(buffer_pools_) \in Nat
        /\ Cardinality(buffer_pools_') \in Nat
    BY <1>2, FS_CardinalityType DEF Counted
  <2> QED
    BY <1>1, <1>2, <2>1 DEF Opened, CreatedStays
<1> QED
  BY <1>1, <1>3, <1>4, <1>5 DEF Closed, Opening

LEMMA NextIInv == IInv /\ [Next]_vars => IInv'
<1> SUFFICES ASSUME IInv, [Next]_vars PROVE IInv'
  OBVIOUS
<1>1. CASE Start \/ Crash \/ Exit
  BY <1>1, ProcessSteps
<1>2. CASE GetDb
  BY <1>2, GetDbStep
<1>3. CASE AllOpened
  BY <1>3, AllOpenedStep
<1>4. ASSUME NEW t \in Table, OpenTable(t) \/ OpenTableFails(t) \/ OpenTableDies(t)
      PROVE  IInv'
  BY <1>4, OpenTableStep, OpenTableFailsStep, DiesStep
<1>5. ASSUME NEW t \in Table, NEW attrs \in Attrs, CreateTable(t, attrs)
      PROVE  IInv'
  BY <1>5, CreateTableStep
<1>6. CASE WriteMeta \/ CreateFile \/ WriteHeader \/ InitRecordHandler
  BY <1>6, WriteMetaStep, DataFileSteps, InitRecordHandlerStep
<1>7. ASSUME NEW t \in Table, NEW i \in Index, CreateIndex(t, i)
      PROVE  IInv'
  BY <1>7, CreateIndexStep
<1>8. CASE UNCHANGED vars
  BY <1>8 DEF vars, files, memory, IInv, TypeOK, Counted, Creates, CreatedWhole, Cleared,
              Closed, Opening, Opened, CreatedStays, RefusedForCause
<1> QED
  BY <1>1, <1>2, <1>3, <1>4, <1>5, <1>6, <1>7, <1>8 DEF Next

-----------------------------------------------------------------------------
(* Schemas: what Serialize writes of a TableMeta, Deserialize reads back.   *)

LEMMA TypeNames ==
  /\ DOMAIN ATTR_TYPE_NAME = 1 .. 5
  /\ \A i, j \in 1 .. 5 : ATTR_TYPE_NAME[i] = ATTR_TYPE_NAME[j] => i = j
BY DEF ATTR_TYPE_NAME

\* The name of a type names that type.
LEMMA CastBack ==
  ASSUME NEW type \in 0 .. 4
  PROVE  CastStringAttrType(CastAttrTypeString(type)) = type
<1> DEFINE s == ATTR_TYPE_NAME[type + 1]
           k == CHOOSE i \in DOMAIN ATTR_TYPE_NAME : ATTR_TYPE_NAME[i] = s
<1>1. type + 1 \in DOMAIN ATTR_TYPE_NAME
  BY TypeNames
<1>2. k \in DOMAIN ATTR_TYPE_NAME /\ ATTR_TYPE_NAME[k] = s
  BY <1>1
<1>3. CastStringAttrType(CastAttrTypeString(type)) = k - 1
  BY DEF CastStringAttrType, CastAttrTypeString
<1> HIDE DEF k
<1>4. k = type + 1
  BY <1>1, <1>2, TypeNames
<1> QED
  BY <1>3, <1>4

LEMMA FieldBack ==
  ASSUME NEW name, NEW type \in 0 .. 4, NEW offset, NEW len, NEW visible
  PROVE  FromJson(ToJson(FieldMeta(name, type, offset, len, visible))) =
           FieldMeta(name, type, offset, len, visible)
<1> DEFINE s == CastAttrTypeString(type)
<1>1. ToJson(FieldMeta(name, type, offset, len, visible)) =
        [name |-> name, type |-> s, offset |-> offset, len |-> len, visible |-> visible]
  BY DEF ToJson, FieldMeta
<1> HIDE DEF s
<1>2. CastStringAttrType(s) = type
  BY CastBack DEF s
<1> QED
  BY <1>1, <1>2 DEF FromJson, FieldMeta

-----------------------------------------------------------------------------
(* The offsets of the fields. *)

OffsetStep(attrs, w, n) ==
  IF n = 1 THEN SysField.offset + SysField.len ELSE w[n - 1] + attrs[n - 1].len
Offsets(attrs) == CHOOSE w : w = [n \in 1 .. Len(attrs) + 1 |-> OffsetStep(attrs, w, n)]

LEMMA OffsetsDefined ==
  ASSUME NEW attrs \in Attrs
  PROVE  Offsets(attrs) = [n \in 1 .. Len(attrs) + 1 |-> OffsetStep(attrs, Offsets(attrs), n)]
<1> DEFINE N == Len(attrs)
           F(w, k) == w = [n \in 1 .. k |-> OffsetStep(attrs, w, n)]
           T == {k \in 0 .. N + 1 : ~\E w : F(w, k)}
<1>0. N \in Nat
  BY AttrsAssumption
<1> HIDE DEF N
<1>1. T = {}
  <2> SUFFICES ASSUME T # {} PROVE FALSE
    OBVIOUS
  <2>1. PICK k \in T : \A j \in T : k <= j
    <3>1. T \in SUBSET Nat
      BY <1>0
    <3> HIDE DEF T
    <3> QED
      BY <3>1, LeastNatural
  <2>2. k \in 0 .. N + 1 /\ ~\E w : F(w, k)
    BY <2>1
  <2>3. k # 0
    <3>1. F([n \in 1 .. 0 |-> 0], 0)
      OBVIOUS
    <3> QED
      BY <2>2, <3>1
  <2>4. PICK g : F(g, k - 1)
    <3>1. k - 1 \in 0 .. N + 1 /\ ~(k <= k - 1)
      BY <1>0, <2>2, <2>3
    <3>2. k - 1 \notin T
      BY <2>1, <3>1
    <3> QED
      BY <3>1, <3>2
  <2> DEFINE h == [n \in 1 .. k |-> OffsetStep(attrs, g, n)]
  <2>5. ASSUME NEW n \in 1 .. k PROVE OffsetStep(attrs, h, n) = OffsetStep(attrs, g, n)
    <3>1. CASE n = 1
      BY <3>1 DEF OffsetStep
    <3>2. CASE n # 1
      <4>1. n - 1 \in 1 .. k - 1 /\ n - 1 \in 1 .. k
        BY <1>0, <2>2, <3>2
      <4>2. h[n - 1] = g[n - 1]
        BY <2>4, <4>1
      <4> QED
        BY <3>2, <4>2 DEF OffsetStep
    <3> QED
      BY <3>1, <3>2
  <2>6. F(h, k)
    BY <2>5
  <2> QED
    BY <2>2, <2>6
<1>2. \E w : F(w, N + 1)
  <2>1. N + 1 \in 0 .. N + 1
    BY <1>0
  <2> HIDE DEF F
  <2> QED
    BY <1>1, <2>1
<1>3. \E w : w = [n \in 1 .. Len(attrs) + 1 |-> OffsetStep(attrs, w, n)]
  BY <1>2 DEF N
<1> HIDE DEF F, T
<1> QED
  BY <1>3 DEF Offsets

\* The first attribute comes after the transaction id, the next after its length.
LEMMA OffsetsAddUp ==
  ASSUME NEW attrs \in Attrs
  PROVE  /\ Len(attrs) \in Nat
         /\ OffsetOf(attrs, 1) = 4
         /\ \A i \in 1 .. Len(attrs) : OffsetOf(attrs, i + 1) = OffsetOf(attrs, i) + attrs[i].len
<1>1. \A i \in 1 .. Len(attrs) + 1 : OffsetOf(attrs, i) = Offsets(attrs)[i]
  BY DEF OffsetOf, Offsets, OffsetStep
<1>2. Len(attrs) \in Nat
  BY AttrsAssumption
<1>3. \A i \in 1 .. Len(attrs) + 1 : OffsetOf(attrs, i) = OffsetStep(attrs, Offsets(attrs), i)
  BY <1>1, OffsetsDefined
<1>4. OffsetOf(attrs, 1) = 4
  <2>1. SysField.offset + SysField.len = 4
    BY DEF SysField, FieldMeta
  <2> QED
    BY <1>2, <1>3, <2>1 DEF OffsetStep
<1>5. ASSUME NEW i \in 1 .. Len(attrs)
      PROVE  OffsetOf(attrs, i + 1) = OffsetOf(attrs, i) + attrs[i].len
  <2>1. i + 1 \in 1 .. Len(attrs) + 1 /\ i \in 1 .. Len(attrs) + 1 /\ i + 1 # 1 /\ (i + 1) - 1 = i
    BY <1>2
  <2>2. OffsetOf(attrs, i + 1) = Offsets(attrs)[(i + 1) - 1] + attrs[(i + 1) - 1].len
    BY <1>3, <2>1 DEF OffsetStep
  <2> QED
    BY <1>1, <2>1, <2>2
<1> QED
  BY <1>2, <1>4, <1>5

LEMMA OffsetsIncrease ==
  ASSUME NEW attrs \in Attrs
  PROVE  /\ \A i \in 1 .. Len(attrs) + 1 : OffsetOf(attrs, i) \in Nat /\ OffsetOf(attrs, i) > 0
         /\ \A i, j \in 1 .. Len(attrs) + 1 : i < j => OffsetOf(attrs, i) < OffsetOf(attrs, j)
<1> DEFINE N == Len(attrs)
           P(j) == /\ OffsetOf(attrs, j) \in Nat /\ OffsetOf(attrs, j) > 0
                   /\ \A i \in 1 .. N + 1 : i < j => OffsetOf(attrs, i) < OffsetOf(attrs, j)
           T == {j \in 1 .. N + 1 : ~P(j)}
<1>1. /\ N \in Nat /\ OffsetOf(attrs, 1) = 4
      /\ \A i \in 1 .. N : OffsetOf(attrs, i + 1) = OffsetOf(attrs, i) + attrs[i].len
  BY OffsetsAddUp
<1>2. \A i \in 1 .. N : attrs[i].len \in Nat /\ attrs[i].len > 0
  BY AttrsAssumption
<1> HIDE DEF N
<1>3. ASSUME T # {} PROVE FALSE
  <2>1. PICK j \in T : \A k \in T : j <= k
    <3>1. T \in SUBSET Nat
      BY <1>1
    <3> HIDE DEF T
    <3> QED
      BY <1>3, <3>1, LeastNatural
  <2>2. j \in 1 .. N + 1 /\ ~P(j)
    BY <2>1
  <2>3. j # 1
    <3>1. P(1)
      BY <1>1
    <3> QED
      BY <2>2, <3>1
  <2> DEFINE k == j - 1
  <2>4. k \in 1 .. N /\ k \in 1 .. N + 1 /\ k < j /\ k + 1 = j
    BY <1>1, <2>2, <2>3
  <2>5. P(k)
    <3>1. k \notin T
      BY <1>1, <2>1, <2>2, <2>4
    <3> QED
      BY <2>4, <3>1
  <2>6. OffsetOf(attrs, j) = OffsetOf(attrs, k) + attrs[k].len
    BY <1>1, <2>4
  <2>7. /\ OffsetOf(attrs, j) \in Nat /\ OffsetOf(attrs, j) > 0
        /\ OffsetOf(attrs, k) < OffsetOf(attrs, j) /\ OffsetOf(attrs, k) \in Nat
    BY <1>2, <2>4, <2>5, <2>6
  <2>8. ASSUME NEW i \in 1 .. N + 1, i < j PROVE OffsetOf(attrs, i) < OffsetOf(attrs, j)
    <3>1. i = k \/ i < k
      BY <1>1, <2>2, <2>8
    <3>2. CASE i = k
      BY <2>7, <3>2
    <3>3. CASE i < k
      <4>1. OffsetOf(attrs, i) < OffsetOf(attrs, k)
        BY <2>5, <3>3
      <4>2. OffsetOf(attrs, i) \in Nat
        <5>1. i \notin T
          BY <1>1, <2>1, <2>2, <2>8
        <5> QED
          BY <5>1
      <4> QED
        BY <2>7, <4>1, <4>2
    <3> QED
      BY <3>1, <3>2, <3>3
  <2> QED
    BY <2>2, <2>7, <2>8
<1>4. \A j \in 1 .. N + 1 : P(j)
  BY <1>3
<1> QED
  BY <1>4 DEF N

\* Sorting what is sorted changes nothing: a permutation that keeps the order
\* moves no field.
Sorts(fields, D, p) ==
  \A i, j \in D : /\ p[i] = p[j] => i = j
                  /\ i < j => fields[p[i]].offset <= fields[p[j]].offset

LEMMA SortedStays ==
  ASSUME NEW fields, NEW n \in Nat, fields = [i \in 1 .. n |-> fields[i]],
         \A i \in 1 .. n : fields[i].offset \in Nat,
         \A i, j \in 1 .. n : i < j => fields[i].offset < fields[j].offset
  PROVE  ByOffset(fields) = fields
<1> DEFINE D == 1 .. n
           order == CHOOSE p \in [D -> D] : Sorts(fields, D, p)
<1>1. DOMAIN fields = D
  OBVIOUS
<1>2. ByOffset(fields) = [i \in D |-> fields[order[i]]]
  BY <1>1 DEF ByOffset, Sorts
<1>3. order \in [D -> D] /\ Sorts(fields, D, order)
  <2> DEFINE same == [i \in D |-> i]
  <2>1. same \in [D -> D] /\ \A i \in D : same[i] = i
    OBVIOUS
  <2> HIDE DEF same
  <2>2. ASSUME NEW i \in D, NEW j \in D
        PROVE  /\ same[i] = same[j] => i = j
               /\ i < j => fields[same[i]].offset <= fields[same[j]].offset
    <3>1. fields[i].offset \in Nat /\ fields[j].offset \in Nat
      OBVIOUS
    <3>2. i < j => fields[i].offset < fields[j].offset
      OBVIOUS
    <3> QED
      BY <2>1, <3>1, <3>2
  <2>3. Sorts(fields, D, same)
    BY <2>2 DEF Sorts
  <2>4. \E p \in [D -> D] : Sorts(fields, D, p)
    BY <2>1, <2>3
  <2> QED
    BY <2>4
<1> HIDE DEF order
<1>4. \A i, j \in D : i < j => order[i] < order[j]
  <2> SUFFICES ASSUME NEW i \in D, NEW j \in D, i < j PROVE order[i] < order[j]
    OBVIOUS
  <2>1. order[i] \in D /\ order[j] \in D
    BY <1>3
  <2>2. order[i] # order[j] /\ fields[order[i]].offset <= fields[order[j]].offset
    <3>1. \A k, l \in D : /\ order[k] = order[l] => k = l
                          /\ k < l => fields[order[k]].offset <= fields[order[l]].offset
      BY <1>3 DEF Sorts
    <3>2. i # j
      OBVIOUS
    <3> HIDE DEF D
    <3> QED
      BY <3>1, <3>2
  <2>3. ~(order[j] < order[i])
    <3>1. fields[order[i]].offset \in Nat /\ fields[order[j]].offset \in Nat
      BY <2>1
    <3>2. order[j] < order[i] => fields[order[j]].offset < fields[order[i]].offset
      BY <2>1
    <3> QED
      BY <2>2, <3>1, <3>2
  <2> QED
    BY <2>1, <2>2, <2>3
<1>5. \A i \in D : order[i] >= i
  <2> DEFINE T == {i \in D : ~(order[i] >= i)}
  <2>1. ASSUME T # {} PROVE FALSE
    <3>1. PICK i \in T : \A j \in T : i <= j
      <4>1. T \in SUBSET Nat
        OBVIOUS
      <4> HIDE DEF T
      <4> QED
        BY <2>1, <4>1, LeastNatural
    <3>2. i \in D /\ order[i] \in D /\ order[i] < i
      BY <1>3, <3>1
    <3>3. order[i] \notin T
      BY <3>1, <3>2
    <3>4. order[order[i]] \in D /\ order[order[i]] >= order[i]
      BY <1>3, <3>2, <3>3
    <3>5. order[order[i]] < order[i]
      BY <1>4, <3>2
    <3> QED
      BY <3>2, <3>4, <3>5
  <2> QED
    BY <2>1
<1>6. \A i \in D : order[i] <= i
  <2> DEFINE T == {i \in D : ~(order[i] <= i)}
  <2>1. ASSUME T # {} PROVE FALSE
    <3>1. PICK i \in T : \A j \in T : j <= i
      <4>1. T \in SUBSET (0 .. n)
        OBVIOUS
      <4> HIDE DEF T
      <4> QED
        BY <2>1, <4>1, GreatestNatural
    <3>2. i \in D /\ order[i] \in D /\ i < order[i]
      BY <1>3, <3>1
    <3>3. order[i] \notin T
      BY <3>1, <3>2
    <3>4. order[order[i]] \in D /\ order[order[i]] <= order[i]
      BY <1>3, <3>2, <3>3
    <3>5. order[i] < order[order[i]]
      BY <1>4, <3>2
    <3> QED
      BY <3>2, <3>4, <3>5
  <2> QED
    BY <2>1
<1>7. \A i \in D : order[i] = i
  <2> SUFFICES ASSUME NEW i \in D PROVE order[i] = i
    OBVIOUS
  <2>1. order[i] \in D
    BY <1>3
  <2> QED
    BY <1>5, <1>6, <2>1
<1>8. [i \in D |-> fields[order[i]]] = [i \in D |-> fields[i]]
  BY <1>7
<1> QED
  BY <1>2, <1>8

Fields(t, attrs) == TableMeta(t, attrs).fields

\* The transaction id first, then a field for each attribute.
LEMMA FieldsOf ==
  ASSUME NEW t, NEW attrs \in Attrs
  PROVE  /\ Fields(t, attrs) = [i \in 1 .. Len(attrs) + 1 |-> Fields(t, attrs)[i]]
         /\ Len(Fields(t, attrs)) = Len(attrs) + 1
         /\ Fields(t, attrs)[1] = SysField
         /\ \A i \in 1 .. Len(attrs) :
              Fields(t, attrs)[i + 1] =
                FieldMeta(attrs[i].name, attrs[i].type, OffsetOf(attrs, i), attrs[i].len, TRUE)
<1> DEFINE N == Len(attrs)
           F == Fields(t, attrs)
           G(i) == FieldMeta(attrs[i].name, attrs[i].type, OffsetOf(attrs, i), attrs[i].len, TRUE)
           more == [i \in 1 .. N |-> G(i)]
           S == {SysField} \cup {G(i) : i \in 1 .. N}
<1>1. N \in Nat /\ DOMAIN attrs = 1 .. N
  BY AttrsAssumption
<1>2. F = <<SysField>> \o more
  BY <1>1 DEF TableMeta, Fields
<1>3. more \in Seq(S) /\ Len(more) = N /\ \A i \in 1 .. N : more[i] = G(i)
  <2>1. more \in [1 .. N -> S] /\ \A i \in 1 .. N : more[i] = G(i)
    <3> HIDE DEF G, N
    <3> QED
      OBVIOUS
  <2> HIDE DEF more, S, G, N
  <2>2. more \in Seq(S)
    BY <1>1, <2>1
  <2>3. Len(more) = N
    BY <1>1, <2>1, <2>2
  <2> QED
    BY <2>1, <2>2, <2>3
<1>4. <<SysField>> \in Seq(S) /\ Len(<<SysField>>) = 1 /\ <<SysField>>[1] = SysField
  <2>1. SysField \in S
    OBVIOUS
  <2> HIDE DEF S
  <2> QED
    BY <2>1
<1> HIDE DEF more, S, G, N, F
<1>5. /\ F \in Seq(S) /\ Len(F) = 1 + N
      /\ \A i \in 1 .. 1 + N : F[i] = IF i <= 1 THEN <<SysField>>[i] ELSE more[i - 1]
  BY <1>2, <1>3, <1>4, ConcatProperties
<1>6. F[1] = SysField
  BY <1>1, <1>4, <1>5
<1>7. ASSUME NEW i \in 1 .. N PROVE F[i + 1] = G(i)
  <2>1. i + 1 \in 1 .. 1 + N /\ ~(i + 1 <= 1) /\ (i + 1) - 1 = i
    BY <1>1
  <2>2. F[i + 1] = more[(i + 1) - 1]
    BY <1>5, <2>1
  <2> QED
    BY <1>3, <2>1, <2>2
<1>8. F = [i \in 1 .. N + 1 |-> F[i]] /\ Len(F) = N + 1
  <2>1. 1 + N = N + 1
    BY <1>1
  <2>2. DOMAIN F = 1 .. N + 1
    BY <1>5, <2>1
  <2> QED
    BY <1>5, <2>1, <2>2
<1> QED
  BY <1>6, <1>7, <1>8 DEF G, N, F

\* What is written of the meta data of a table is read back as it was.
LEMMA ReadBack ==
  ASSUME NEW t, NEW attrs \in Attrs
  PROVE  Deserialize(Serialize(TableMeta(t, attrs))) = TableMeta(t, attrs)
<1> DEFINE N == Len(attrs)
           F == Fields(t, attrs)
           file == Serialize(TableMeta(t, attrs))
           read == [i \in DOMAIN file.fields |-> FromJson(file.fields[i])]
<1>1. /\ F = [i \in 1 .. N + 1 |-> F[i]] /\ Len(F) = N + 1 /\ F[1] = SysField
      /\ \A i \in 1 .. N :
           F[i + 1] = FieldMeta(attrs[i].name, attrs[i].type, OffsetOf(attrs, i), attrs[i].len, TRUE)
  BY FieldsOf
<1>2. /\ TableMeta(t, attrs) = [table_name |-> t, fields |-> F, record_size |-> OffsetOf(attrs, N + 1)]
  BY DEF TableMeta, Fields
<1>3. /\ file.table_name = t
      /\ file.fields = [i \in DOMAIN F |-> ToJson(F[i])]
  BY <1>2 DEF Serialize
<1> HIDE DEF F, file
<1>4. /\ N \in Nat /\ DOMAIN F = 1 .. N + 1
      /\ \A i \in 1 .. N : attrs[i].type \in 0 .. 4 /\ attrs[i].len \in Nat
  BY <1>1, AttrsAssumption
<1>5. /\ OffsetOf(attrs, 1) = 4
      /\ \A i \in 1 .. N : OffsetOf(attrs, i + 1) = OffsetOf(attrs, i) + attrs[i].len
  BY OffsetsAddUp
<1>6. /\ \A i \in 1 .. N + 1 : OffsetOf(attrs, i) \in Nat /\ OffsetOf(attrs, i) > 0
      /\ \A i, j \in 1 .. N + 1 : i < j => OffsetOf(attrs, i) < OffsetOf(attrs, j)
  BY OffsetsIncrease
<1>7. SysField.offset = 0 /\ SysField.len = 4
  BY DEF SysField, FieldMeta
<1>8. ASSUME NEW i \in 1 .. N
      PROVE  F[i + 1].offset = OffsetOf(attrs, i) /\ F[i + 1].len = attrs[i].len
  <2>1. F[i + 1] = FieldMeta(attrs[i].name, attrs[i].type, OffsetOf(attrs, i), attrs[i].len, TRUE)
    BY <1>1
  <2> QED
    BY <2>1 DEF FieldMeta
<1> HIDE DEF N
<1>9. read = F
  <2>1. ASSUME NEW i \in 1 .. N + 1 PROVE FromJson(ToJson(F[i])) = F[i]
    <3>1. CASE i = 1
      <4>1. F[i] = FieldMeta("__txn", 2, 0, 4, FALSE) /\ 2 \in 0 .. 4
        <5>1. F[i] = SysField
          BY <1>1, <3>1
        <5> QED
          BY <5>1 DEF SysField
      <4>2. FromJson(ToJson(FieldMeta("__txn", 2, 0, 4, FALSE))) = FieldMeta("__txn", 2, 0, 4, FALSE)
        BY <4>1, FieldBack
      <4> QED
        BY <4>1, <4>2
    <3>2. CASE i # 1
      <4> DEFINE k == i - 1
      <4>1. k \in 1 .. N /\ i = k + 1
        BY <1>4, <3>2
      <4> HIDE DEF k
      <4>2. F[i] = FieldMeta(attrs[k].name, attrs[k].type, OffsetOf(attrs, k), attrs[k].len, TRUE)
        BY <1>1, <4>1
      <4>3. attrs[k].type \in 0 .. 4
        BY <1>4, <4>1
      <4> DEFINE f == FieldMeta(attrs[k].name, attrs[k].type, OffsetOf(attrs, k), attrs[k].len, TRUE)
      <4>4. FromJson(ToJson(f)) = f
        BY <4>3, FieldBack
      <4> QED
        BY <4>2, <4>4
    <3> QED
      BY <3>1, <3>2
  <2>2. DOMAIN file.fields = 1 .. N + 1 /\ \A i \in 1 .. N + 1 : file.fields[i] = ToJson(F[i])
    BY <1>3, <1>4
  <2>3. read = [i \in 1 .. N + 1 |-> F[i]]
    BY <2>1, <2>2
  <2> QED
    BY <1>1, <2>3
<1> HIDE DEF read
<1>10. /\ \A i \in 1 .. N + 1 : F[i].offset \in Nat
       /\ \A i, j \in 1 .. N + 1 : i < j => F[i].offset < F[j].offset
  <2> DEFINE at(i) == IF i = 1 THEN 0 ELSE OffsetOf(attrs, i - 1)
  <2>1. ASSUME NEW i \in 1 .. N + 1 PROVE F[i].offset = at(i)
    <3>1. CASE i = 1
      BY <1>1, <1>7, <3>1
    <3>2. CASE i # 1
      <4>1. i - 1 \in 1 .. N /\ (i - 1) + 1 = i
        BY <1>4, <3>2
      <4> QED
        BY <1>8, <3>2, <4>1
    <3> QED
      BY <3>1, <3>2
  <2>2. ASSUME NEW i \in 1 .. N + 1 PROVE at(i) \in Nat
    BY <1>4, <1>6
  <2>3. ASSUME NEW i \in 1 .. N + 1, NEW j \in 1 .. N + 1, i < j PROVE at(i) < at(j)
    <3>1. j # 1 /\ j - 1 \in 1 .. N + 1
      BY <1>4, <2>3
    <3>2. CASE i = 1
      BY <1>6, <3>1, <3>2
    <3>3. CASE i # 1
      <4>1. i - 1 \in 1 .. N + 1 /\ i - 1 < j - 1
        BY <1>4, <2>3, <3>3
      <4> QED
        BY <1>6, <3>1, <3>3, <4>1
    <3> QED
      BY <3>2, <3>3
  <2> HIDE DEF at
  <2> QED
    BY <2>1, <2>2, <2>3
<1>11. ByOffset(F) = F
  <2>1. N + 1 \in Nat
    BY <1>4
  <2> QED
    BY <1>1, <1>10, <2>1, SortedStays
<1>12. F[N + 1].offset + F[N + 1].len - F[1].offset = OffsetOf(attrs, N + 1)
  <2>1. CASE N = 0
    BY <1>1, <1>5, <1>7, <2>1
  <2>2. CASE N # 0
    <3>1. N \in 1 .. N
      BY <1>4, <2>2
    <3>2. OffsetOf(attrs, N) \in Nat /\ attrs[N].len \in Nat
      BY <1>4, <1>6, <3>1
    <3>3. F[N + 1].offset = OffsetOf(attrs, N) /\ F[N + 1].len = attrs[N].len
      BY <1>8, <3>1
    <3>4. OffsetOf(attrs, N + 1) = OffsetOf(attrs, N) + attrs[N].len
      BY <1>5, <3>1
    <3>5. F[1].offset = 0
      BY <1>1, <1>7
    <3> HIDE DEF F
    <3> QED
      BY <3>2, <3>3, <3>4, <3>5
  <2> QED
    BY <2>1, <2>2
<1>13. Deserialize(file) = [table_name |-> t, fields |-> F,
                            record_size |-> F[N + 1].offset + F[N + 1].len - F[1].offset]
  <2>1. Len(F) = N + 1
    BY <1>1
  <2> QED
    BY <1>3, <1>9, <1>11, <2>1 DEF Deserialize, read
<1> QED
  BY <1>2, <1>12, <1>13 DEF file

-----------------------------------------------------------------------------
(* What created says of a table is what its meta file says.                *)

Recorded ==
  /\ \A t \in DOMAIN created :
       created[t] \in Attrs /\ meta_files[t] = Serialize(TableMeta(t, created[t]))
  /\ creating # NoTable /\ creating.step # "serialize" =>
       meta_files[creating.table] = Serialize(TableMeta(creating.table, creating.attrs))

SInv == IInv /\ Recorded /\ SchemaKept

LEMMA InitSInv == Init => SInv
<1> SUFFICES ASSUME Init PROVE SInv
  OBVIOUS
<1>1. DOMAIN created = {} /\ DOMAIN opened_tables_ = {} /\ creating = NoTable
  BY Nothing DEF Init
<1> QED
  BY <1>1, InitIInv DEF SInv, Recorded, SchemaKept

\* Steps that touch neither a meta file nor an answer, and open no table.
LEMMA SchemasUntouched ==
  ASSUME SInv, UNCHANGED <<meta_files, created>>,
         \/ creating' = NoTable
         \/ /\ creating.step # "serialize" /\ creating # NoTable
            /\ creating'.table = creating.table /\ creating'.attrs = creating.attrs
         \/ creating' = creating,
         opened_tables_' = opened_tables_ \/ DOMAIN opened_tables_' = {}
  PROVE  Recorded' /\ SchemaKept'
<1>1. Recorded'
  BY DEF SInv, Recorded
<1>2. SchemaKept'
  BY DEF SInv, SchemaKept
<1> QED
  BY <1>1, <1>2

LEMMA OpenTableSchema ==
  ASSUME SInv, NEW t \in Table, OpenTable(t)
  PROVE  Recorded' /\ SchemaKept'
<1>1. /\ meta_files' = meta_files /\ created' = created /\ creating' = creating
      /\ opened_tables_' = [u \in DOMAIN opened_tables_ \cup {t} |->
                              IF u = t THEN Deserialize(meta_files[t]) ELSE opened_tables_[u]]
  BY DEF OpenTable, files
<1>2. Recorded'
  BY <1>1 DEF SInv, Recorded
<1>3. ASSUME NEW u \in DOMAIN opened_tables_' \cap DOMAIN created'
      PROVE  opened_tables_'[u] = TableMeta(u, created[u])
  <2>1. created[u] \in Attrs /\ meta_files[u] = Serialize(TableMeta(u, created[u]))
    BY <1>1, <1>3 DEF SInv, Recorded
  <2>2. CASE u = t
    <3>1. opened_tables_'[u] = Deserialize(meta_files[u])
      BY <1>1, <2>2
    <3> QED
      BY <2>1, <3>1, ReadBack
  <2>3. CASE u # t
    BY <1>1, <1>3, <2>3 DEF SInv, SchemaKept
  <2> QED
    BY <2>2, <2>3
<1> QED
  BY <1>1, <1>2, <1>3 DEF SchemaKept

LEMMA CreateTableSchema ==
  ASSUME SInv, NEW t \in Table, NEW attrs \in Attrs, CreateTable(t, attrs)
  PROVE  Recorded' /\ SchemaKept'
<1>1. /\ t \notin DOMAIN opened_tables_ /\ db = "opened"
      /\ meta_files' = [meta_files EXCEPT ![t] = Torn]
      /\ creating' = [step |-> "serialize", table |-> t, attrs |-> attrs]
      /\ opened_tables_' = opened_tables_ /\ created' = created
  BY DEF CreateTable, Runs
<1>2. t \notin DOMAIN created /\ DOMAIN meta_files = Table /\ DOMAIN created \subseteq Table
  BY <1>1 DEF SInv, IInv, CreatedStays, TypeOK
<1>3. \A u \in DOMAIN created : meta_files'[u] = meta_files[u]
  BY <1>1, <1>2
<1>4. Recorded'
  BY <1>1, <1>3 DEF SInv, Recorded
<1> QED
  BY <1>1, <1>4 DEF SInv, SchemaKept

LEMMA WriteMetaSchema ==
  ASSUME SInv, WriteMeta
  PROVE  Recorded' /\ SchemaKept'
<1> DEFINE t == creating.table
<1>1. /\ creating.step = "serialize"
      /\ meta_files' = [meta_files EXCEPT ![t] = Serialize(TableMeta(t, creating.attrs))]
      /\ creating' = [creating EXCEPT !.step = "create"]
      /\ opened_tables_' = opened_tables_ /\ created' = created
  BY DEF WriteMeta, Written
<1>2. /\ creating # NoTable /\ db = "opened" /\ t \in Table /\ t \notin DOMAIN opened_tables_
      /\ creating \in [step : {"serialize"}, table : Table, attrs : Attrs]
  BY <1>1 DEF SInv, IInv, Creates, NoTable
<1>3. t \notin DOMAIN created /\ DOMAIN meta_files = Table /\ DOMAIN created \subseteq Table
  BY <1>2 DEF SInv, IInv, CreatedStays, TypeOK
<1>4. /\ creating'.table = t /\ creating'.attrs = creating.attrs
      /\ meta_files'[t] = Serialize(TableMeta(t, creating.attrs))
      /\ \A u \in DOMAIN created : meta_files'[u] = meta_files[u]
  BY <1>1, <1>2, <1>3
<1>5. Recorded'
  BY <1>1, <1>4 DEF SInv, Recorded
<1> QED
  BY <1>1, <1>5 DEF SInv, SchemaKept

LEMMA InitRecordHandlerSchema ==
  ASSUME SInv, InitRecordHandler
  PROVE  Recorded' /\ SchemaKept'
<1> DEFINE t == creating.table
<1>1. creating.step = "open" /\ creating' = NoTable /\ meta_files' = meta_files
  BY DEF InitRecordHandler, files
<1>2. /\ creating # NoTable /\ creating.attrs \in Attrs
      /\ meta_files[t] = Serialize(TableMeta(t, creating.attrs))
  BY <1>1 DEF SInv, IInv, Creates, Recorded, NoTable
<1>3. CASE UNCHANGED <<opened_tables_, created>>
  BY <1>1, <1>3, SchemasUntouched
<1>4. CASE ~ UNCHANGED <<opened_tables_, created>>
  <2>1. /\ opened_tables_' = [u \in DOMAIN opened_tables_ \cup {t} |->
             IF u = t THEN TableMeta(t, creating.attrs) ELSE opened_tables_[u]]
        /\ created' = [u \in DOMAIN created \cup {t} |->
                         IF u = t THEN creating.attrs ELSE created[u]]
    BY <1>4 DEF InitRecordHandler
  <2>2. Recorded'
    <3>1. ASSUME NEW u \in DOMAIN created'
          PROVE  created'[u] \in Attrs /\ meta_files'[u] = Serialize(TableMeta(u, created'[u]))
      <4>1. CASE u = t
        BY <1>1, <1>2, <2>1, <4>1
      <4>2. CASE u # t
        BY <1>1, <2>1, <4>2 DEF SInv, Recorded
      <4> QED
        BY <4>1, <4>2
    <3> QED
      BY <1>1, <3>1 DEF Recorded
  <2>3. ASSUME NEW u \in DOMAIN opened_tables_' \cap DOMAIN created'
        PROVE  opened_tables_'[u] = TableMeta(u, created'[u])
    <3>1. CASE u = t
      BY <2>1, <3>1
    <3>2. CASE u # t
      <4>1. u \in DOMAIN opened_tables_ \cap DOMAIN created
        BY <2>1, <2>3, <3>2
      <4> QED
        BY <2>1, <3>2, <4>1 DEF SInv, SchemaKept
    <3> QED
      BY <3>1, <3>2
  <2> QED
    BY <2>2, <2>3 DEF SchemaKept
<1> QED
  BY <1>3, <1>4

LEMMA NextSInv == SInv /\ [Next]_vars => SInv'
<1> SUFFICES ASSUME SInv, [Next]_vars PROVE SInv'
  OBVIOUS
<1>1. IInv'
  BY NextIInv DEF SInv
<1>2. CASE Start \/ Crash \/ Exit \/ \E t \in Table : OpenTableDies(t)
  <2>1. NoMemory /\ UNCHANGED <<files, created>>
    BY <1>2 DEF Start, Crash, Exit, OpenTableDies
  <2>2. DOMAIN opened_tables_' = {} /\ creating' = NoTable /\ UNCHANGED <<meta_files, created>>
    BY <2>1, Nothing DEF NoMemory, files
  <2> QED
    BY <1>1, <2>2, SchemasUntouched DEF SInv
<1>3. CASE GetDb \/ AllOpened \/ (\E t \in Table : OpenTableFails(t))
           \/ (\E t \in Table, i \in Index : CreateIndex(t, i))
  <2>1. /\ UNCHANGED <<meta_files, created>> /\ creating' = creating
        /\ opened_tables_' = opened_tables_ \/ opened_tables_' = <<>>
    BY <1>3 DEF GetDb, AllOpened, OpenTableFails, CreateIndex, Refuse, files
  <2> QED
    BY <1>1, <2>1, Nothing, SchemasUntouched DEF SInv
<1>4. CASE \E t \in Table : OpenTable(t)
  BY <1>1, <1>4, OpenTableSchema DEF SInv
<1>5. CASE \E t \in Table, attrs \in Attrs : CreateTable(t, attrs)
  BY <1>1, <1>5, CreateTableSchema DEF SInv
<1>6. CASE WriteMeta \/ InitRecordHandler
  BY <1>1, <1>6, WriteMetaSchema, InitRecordHandlerSchema DEF SInv
<1>7. CASE CreateFile \/ WriteHeader
  <2>1. /\ UNCHANGED <<meta_files, created, opened_tables_>>
        /\ creating.step \in {"create", "header"}
    BY <1>7 DEF CreateFile, WriteHeader
  <2>2. /\ creating # NoTable
        /\ creating \in [step : {"create", "header"}, table : Table, attrs : Attrs]
    BY <2>1 DEF SInv, IInv, Creates, NoTable
  <2>3. \/ creating' = NoTable
        \/ creating'.table = creating.table /\ creating'.attrs = creating.attrs
    BY <1>7, <2>2 DEF CreateFile, WriteHeader
  <2> QED
    BY <1>1, <2>1, <2>2, <2>3, SchemasUntouched DEF SInv
<1>8. CASE UNCHANGED vars
  BY <1>1, <1>8, SchemasUntouched DEF SInv, vars, files, memory
<1> QED
  BY <1>2, <1>3, <1>4, <1>5, <1>6, <1>7, <1>8 DEF Next

-----------------------------------------------------------------------------
(* Theorems *)

\* The strengthening is an invariant.
THEOREM FramesAndFiles == Spec => []IInv
<1> QED
  BY InitIInv, NextIInv, PTL DEF Spec

\* Types, and a frame for every open file.
THEOREM TypesHold == Spec => []TypeOK
<1>1. IInv => TypeOK
  BY DEF IInv
<1> QED
  BY FramesAndFiles, <1>1, PTL

\* Every process that opens the database has the tables that were answered for.
THEOREM TablesStay == Spec => []CreatedStays
<1>1. IInv => CreatedStays
  BY DEF IInv
<1> QED
  BY FramesAndFiles, <1>1, PTL

\* Only the files of a CREATE TABLE that was not answered for close a database.
THEOREM NeverRefusedOtherwise == Spec => []RefusedForCause
<1>1. IInv => RefusedForCause
  BY DEF IInv
<1> QED
  BY FramesAndFiles, <1>1, PTL

\* A table has in every process the fields, in their order, with the types, offsets
\* and record size with which it was created.
THEOREM SchemasStay == Spec => []SchemaKept
<1>1. SInv => SchemaKept
  BY DEF SInv
<1> QED
  BY InitSInv, NextSInv, <1>1, PTL DEF Spec

=============================================================================
