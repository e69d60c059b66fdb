------------------------------- MODULE Catalog -------------------------------
(***************************************************************************)
(* The tables of a database and their files (database.cpp, table.cpp): a   *)
(* database is opened by the first statement of a process and with it all  *)
(* tables that have a meta file; CREATE TABLE makes the two files of a     *)
(* table, a call of the operating system at a time, and the process may    *)
(* die between two of them.  Each file the buffer pool opens keeps a frame *)
(* for its header page as long as it is open, which is for ever.           *)
(***************************************************************************)
EXTENDS Integers, FiniteSets, Sequences

CONSTANTS
  Table,        \* names of tables
  LongNames,    \* those that are longer than TABLE_NAME_MAX_LEN
  Index,        \* names of indexes
  Attrs,        \* what CREATE TABLE may give: sequences of [name, type, len]
  NumFrames     \* frames of the buffer pool

ASSUME CatalogAssumption == NumFrames \in Nat /\ LongNames \subseteq Table
ASSUME AttrsAssumption ==
  \A attrs \in Attrs :
    /\ Len(attrs) \in Nat /\ DOMAIN attrs = 1 .. Len(attrs)
    /\ \A i \in DOMAIN attrs :
         attrs[i].type \in 0 .. 4 /\ attrs[i].len \in Nat \ {0}   \* IsFieldValid

VARIABLES
  meta_files,      \* contents of the .table files, by table
  data_files,      \* the .data files: their header page is written or not
  index_files,     \* the .index files
  process,         \* "none" or "runs"
  path,            \* GlobalDataBaseManager::project_bin_path_
  db,              \* the default database: "closed", "opening" or "opened"
  todo,            \* tables OpenAllTables has still to open
  opened_tables_,  \* DataBase::opened_tables_: the TableMeta of each
  buffer_pools_,   \* GlobalBufferPoolManager::buffer_pools_: the open files
  creating,        \* the CREATE TABLE that is being carried out, if any
  created,         \* history: what was answered SUCCEEDED, in any process
  refused          \* history: this process could not open the database

files  == <<meta_files, data_files, index_files>>
memory == <<path, db, todo, opened_tables_, buffer_pools_, creating, refused>>
vars   == <<files, process, memory, created>>

NoTable == [step |-> "none"]

\* A meta file: none, one that was created and not written whole, or JSON.
Absent == [is |-> "absent"]
Torn   == [is |-> "torn"]

DataFile(t)     == <<t, "data">>
IndexFile(t, i) == <<t, "index", i>>

-----------------------------------------------------------------------------
(* TableMeta, in memory and as the JSON of a meta file.                    *)

ATTR_TYPE_NAME == <<"undefined", "chars", "ints", "floats", "dates">>

CastAttrTypeString(type) == ATTR_TYPE_NAME[type + 1]

\* mutant: the position in the array, counted from one
CastStringAttrType_FromOne(s) == CHOOSE i \in DOMAIN ATTR_TYPE_NAME : ATTR_TYPE_NAME[i] = s

CastStringAttrType(s) == (CHOOSE i \in DOMAIN ATTR_TYPE_NAME : ATTR_TYPE_NAME[i] = s) - 1

FieldMeta(name, type, offset, len, visible) ==
  [name |-> name, type |-> type, offset |-> offset, len |-> len, visible |-> visible]

SysField == FieldMeta("__txn", 2, 0, 4, FALSE)

\* field_offset in the i-th round of the loop: where that attribute lies
OffsetOf(attrs, i) ==
  LET field_offset[n \in 1 .. Len(attrs) + 1] ==
        IF n = 1 THEN SysField.offset + SysField.len ELSE field_offset[n - 1] + attrs[n - 1].len
  IN  field_offset[i]

TableMeta(t, attrs) ==
  [table_name |-> t,
   fields |-> <<SysField>> \o [i \in DOMAIN attrs |->
                FieldMeta(attrs[i].name, attrs[i].type, OffsetOf(attrs, i), attrs[i].len, TRUE)],
   record_size |-> OffsetOf(attrs, Len(attrs) + 1)]

ToJson(field) == [field EXCEPT !.type = CastAttrTypeString(field.type)]
FromJson(value) == [value EXCEPT !.type = CastStringAttrType(value.type)]

\* indexes_ is empty: nothing ever adds to it
Serialize(meta) ==
  [is |-> "json", table_name |-> meta.table_name,
   fields |-> [i \in DOMAIN meta.fields |-> ToJson(meta.fields[i])], indexes |-> <<>>]

\* std::sort: the order of fields with the same offset is not specified
ByOffset(fields) ==
  LET Sorts(p) == \A i, j \in DOMAIN fields :
                    /\ p[i] = p[j] => i = j
                    /\ i < j => fields[p[i]].offset <= fields[p[j]].offset
      order == CHOOSE p \in [DOMAIN fields -> DOMAIN fields] : Sorts(p)
  IN  [i \in DOMAIN fields |-> fields[order[i]]]

\* TableMeta::Deserialize of a whole file: fields sorted by offset
Deserialize(file) ==
  LET fields == ByOffset([i \in DOMAIN file.fields |-> FromJson(file.fields[i])])
  IN  [table_name |-> file.table_name, fields |-> fields,
       record_size |-> fields[Len(fields)].offset + fields[Len(fields)].len - fields[1].offset]

-----------------------------------------------------------------------------
(* The buffer pool, as far as it matters here.                             *)

\* mutant: the frame of the header counts for nothing
FrameLeft_Always == TRUE

FrameLeft == Cardinality(buffer_pools_) < NumFrames

\* DiskBufferPool::OpenFile of a file with a header page, or the first reason
\* that it cannot be: open already, no such file, no frame for the header page
CanOpenFile(f, exists) == f \notin buffer_pools_ /\ exists /\ FrameLeft

-----------------------------------------------------------------------------
(* Processes. *)

NoMemory ==
  /\ path' = "bin" /\ db' = "closed" /\ todo' = {} /\ opened_tables_' = <<>>
  /\ buffer_pools_' = {} /\ creating' = NoTable

\* GlobalManagers::Init
Start ==
  /\ process = "none"
  /\ process' = "runs" /\ refused' = FALSE
  /\ NoMemory
  /\ UNCHANGED <<files, created>>

\* The process ends, at any moment; what calls have written to files stays.
Crash ==
  /\ process = "runs"
  /\ process' = "none"
  /\ NoMemory
  /\ UNCHANGED <<files, refused, created>>

\* GlobalManagers::Destroy, after the last statement: every table and every
\* buffer pool is closed; no file of the catalog is written.
Exit ==
  /\ process = "runs" /\ db # "opening" /\ creating = NoTable
  /\ process' = "none"
  /\ NoMemory
  /\ UNCHANGED <<files, refused, created>>

Runs == process = "runs" /\ creating = NoTable

-----------------------------------------------------------------------------
(* GetDb: the first statement opens the database. *)

\* append() changes project_bin_path_, so that only the first call of a process
\* finds the directory.
Appended(p) == IF p = "bin" THEN "bin/sys" ELSE "bin/sys/sys"

\* mutant: the database is opened with what could be opened
Refuse_GoesOn == db' = "opening" /\ todo' = {} /\ UNCHANGED <<opened_tables_, refused>>

Refuse == db' = "closed" /\ todo' = {} /\ opened_tables_' = <<>> /\ refused' = TRUE

\* GlobalDataBaseManager::GetDb and DataBase::Init; ListFile lists meta files
GetDb ==
  /\ Runs /\ db = "closed"
  /\ path' = Appended(path)
  /\ IF path' = "bin/sys"
     THEN /\ db' = "opening" /\ todo' = {t \in Table : meta_files[t] # Absent}
          /\ UNCHANGED <<opened_tables_, refused>>
     ELSE Refuse
  /\ UNCHANGED <<files, process, buffer_pools_, creating, created>>

\* Table::Init of the next table of OpenAllTables, in the order of readdir
OpenTable(t) ==
  /\ Runs /\ db = "opening" /\ t \in todo
  /\ meta_files[t] # Torn
  /\ CanOpenFile(DataFile(t), data_files[t] = "header")
  /\ buffer_pools_' = buffer_pools_ \cup {DataFile(t)}
  /\ opened_tables_' = [u \in DOMAIN opened_tables_ \cup {t} |->
                          IF u = t THEN Deserialize(meta_files[t]) ELSE opened_tables_[u]]
  /\ todo' = todo \ {t}
  /\ UNCHANGED <<files, process, path, db, creating, created, refused>>

\* The first table that cannot be opened ends it; the buffer pools stay open.
OpenTableFails(t) ==
  /\ Runs /\ db = "opening" /\ t \in todo
  /\ \/ meta_files[t] = Torn
     \/ /\ data_files[t] # "empty"
        /\ ~CanOpenFile(DataFile(t), data_files[t] = "header")
     \/ data_files[t] = "empty" /\ ~FrameLeft
  /\ Refuse
  /\ UNCHANGED <<files, process, path, buffer_pools_, creating, created>>

\* A data file without a header page: LoadPage fails and reads the count of
\* pages for its message from the header that was not loaded.
OpenTableDies(t) ==
  /\ Runs /\ db = "opening" /\ t \in todo
  /\ meta_files[t] # Torn /\ data_files[t] = "empty" /\ FrameLeft
  /\ process' = "none" /\ refused' = TRUE
  /\ NoMemory
  /\ UNCHANGED <<files, created>>

AllOpened ==
  /\ Runs /\ db = "opening" /\ todo = {}
  /\ db' = "opened"
  /\ UNCHANGED <<files, process, path, todo, opened_tables_, buffer_pools_, creating,
                 created, refused>>

-----------------------------------------------------------------------------
(* CREATE TABLE: DataBase::CreateTable and Table::Init. *)

\* TABLE ALREADY EXISTS and ARGUMENT IS INVALID change nothing.
CreateTable(t, attrs) ==
  /\ Runs /\ db = "opened"
  /\ t \notin DOMAIN opened_tables_ /\ t \notin LongNames /\ attrs # <<>>
  /\ meta_files[t] = Absent
  /\ meta_files' = [meta_files EXCEPT ![t] = Torn]
  /\ creating' = [step |-> "serialize", table |-> t, attrs |-> attrs]
  /\ UNCHANGED <<data_files, index_files, process, path, db, todo, opened_tables_,
                 buffer_pools_, created, refused>>

\* mutant: the meta file is left as it was created
Written_Never(file, meta) == file

Written(file, meta) == Serialize(meta)

WriteMeta ==
  LET t == creating.table
  IN  /\ process = "runs" /\ creating.step = "serialize"
      /\ meta_files' = [meta_files EXCEPT ![t] = Written(@, TableMeta(t, creating.attrs))]
      /\ creating' = [creating EXCEPT !.step = "create"]
      /\ UNCHANGED <<data_files, index_files, process, path, db, todo, opened_tables_,
                     buffer_pools_, created, refused>>

\* GlobalBufferPoolManager::CreateFile, with O_EXCL; without success the
\* statement ends.
CreateFile ==
  LET t == creating.table
  IN  /\ process = "runs" /\ creating.step = "create"
      /\ IF data_files[t] = "absent"
         THEN /\ data_files' = [data_files EXCEPT ![t] = "empty"]
              /\ creating' = [creating EXCEPT !.step = "header"]
         ELSE creating' = NoTable /\ UNCHANGED data_files
      /\ UNCHANGED <<meta_files, index_files, process, path, db, todo, opened_tables_,
                     buffer_pools_, created, refused>>

WriteHeader ==
  /\ process = "runs" /\ creating.step = "header"
  /\ data_files' = [data_files EXCEPT ![creating.table] = "header"]
  /\ creating' = [creating EXCEPT !.step = "open"]
  /\ UNCHANGED <<meta_files, index_files, process, path, db, todo, opened_tables_,
                 buffer_pools_, created, refused>>

\* InitRecordHandler: without a frame, and frames of other pages may have taken
\* those that header pages leave, CREATE TABLE is refused; its files stay.
InitRecordHandler ==
  LET t == creating.table
  IN  /\ process = "runs" /\ creating.step = "open"
      /\ creating' = NoTable
      /\ \/ /\ CanOpenFile(DataFile(t), data_files[t] = "header")
            /\ buffer_pools_' = buffer_pools_ \cup {DataFile(t)}
            /\ opened_tables_' = [u \in DOMAIN opened_tables_ \cup {t} |->
                 IF u = t THEN TableMeta(t, creating.attrs) ELSE opened_tables_[u]]
            /\ created' = [u \in DOMAIN created \cup {t} |->
                             IF u = t THEN creating.attrs ELSE created[u]]
         \/ UNCHANGED <<buffer_pools_, opened_tables_, created>>
      /\ UNCHANGED <<files, process, path, db, todo, refused>>

\* Table::CreateIndex, as far as files are concerned.  Create makes the file,
\* opens it and takes a frame for a page of it; without that frame the file is
\* closed again and stays, and no process opens it.  If a record of the table
\* is refused, the index is closed, which removes its file.
CreateIndex(t, i) ==
  LET f == IndexFile(t, i)
  IN  /\ Runs /\ db = "opened" /\ t \in DOMAIN opened_tables_
      /\ f \notin index_files
      /\ \/ /\ Cardinality(buffer_pools_) + 1 < NumFrames
            /\ index_files' = index_files \cup {f}
            /\ buffer_pools_' = buffer_pools_ \cup {f}
         \/ index_files' = index_files \cup {f} /\ UNCHANGED buffer_pools_
         \/ /\ Cardinality(buffer_pools_) + 1 < NumFrames
            /\ UNCHANGED <<index_files, buffer_pools_>>
      /\ UNCHANGED <<meta_files, data_files, process, path, db, todo, opened_tables_,
                     creating, created, refused>>

-----------------------------------------------------------------------------
Init ==
  /\ meta_files = [t \in Table |-> Absent] /\ data_files = [t \in Table |-> "absent"]
  /\ index_files = {}
  /\ process = "none" /\ path = "bin" /\ db = "closed" /\ todo = {} /\ opened_tables_ = <<>>
  /\ buffer_pools_ = {} /\ creating = NoTable /\ created = <<>> /\ refused = FALSE

Next ==
  \/ Start \/ Crash \/ Exit
  \/ GetDb \/ AllOpened
  \/ \E t \in Table : OpenTable(t) \/ OpenTableFails(t) \/ OpenTableDies(t)
  \/ \E t \in Table, attrs \in Attrs : CreateTable(t, attrs)
  \/ WriteMeta \/ CreateFile \/ WriteHeader \/ InitRecordHandler
  \/ \E t \in Table, i \in Index : CreateIndex(t, i)

Spec == Init /\ [][Next]_vars

-----------------------------------------------------------------------------
(* Properties. *)

\* The types of the variables; each open file has its frame.
TypeOK ==
  /\ DOMAIN meta_files = Table
  /\ data_files \in [Table -> {"absent", "empty", "header"}]
  /\ index_files \subseteq {IndexFile(t, i) : t \in Table, i \in Index}
  /\ process \in {"none", "runs"} /\ path \in {"bin", "bin/sys", "bin/sys/sys"}
  /\ db \in {"closed", "opening", "opened"} /\ todo \subseteq Table
  /\ DOMAIN opened_tables_ \subseteq Table /\ DOMAIN created \subseteq Table
  /\ buffer_pools_ \subseteq {DataFile(t) : t \in Table} \cup index_files
  /\ Cardinality(buffer_pools_) <= NumFrames
  /\ refused \in BOOLEAN

\* A table whose creation was answered SUCCEEDED is there in every process that
\* opens the database, whatever crashed or was refused in between; and its file
\* is open once.
CreatedStays ==
  db = "opened" => /\ DOMAIN created \subseteq DOMAIN opened_tables_
                   /\ \A t \in DOMAIN opened_tables_ : DataFile(t) \in buffer_pools_

\* It has the fields, in their order, with the types, offsets and record size
\* with which it was created, also when they are read back from the meta file.
SchemaKept ==
  \A t \in DOMAIN opened_tables_ \cap DOMAIN created : opened_tables_[t] = TableMeta(t, created[t])

\* A process refuses the database, or dies of it, only if a CREATE TABLE that
\* was not answered SUCCEEDED has left a file: neither many tables nor indexes
\* that were accepted bring it about.
RefusedForCause ==
  refused => \E t \in Table : meta_files[t] # Absent /\ t \notin DOMAIN created

=============================================================================
