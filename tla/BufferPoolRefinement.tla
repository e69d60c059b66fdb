------------------------ MODULE BufferPoolRefinement ------------------------
(***************************************************************************)
(* The buffer pool implements the page store: the refinement mapping takes *)
(* a page's contents from its frame when it is cached and from the file    *)
(* otherwise, and the allocation map from the header likewise.             *)
(***************************************************************************)
EXTENDS BufferPool

ClientPage == PageId \ {HeaderPage}

OpenOn(f) == \E fd \in Fd : file[fd] = f
FdOf(f) == CHOOSE fd \in Fd : file[fd] = f

\* the current contents of page p of file f
Current(f, p) ==
  IF OpenOn(f) /\ <<FdOf(f), p>> \in Cached THEN frames[<<FdOf(f), p>>].data ELSE disk[f][p]

AllocatedPages(f) ==
  IF disk[f][HeaderPage] = Absent THEN {} ELSE Current(f, HeaderPage).bitmap \ {HeaderPage}

Store == INSTANCE PageStore WITH
  Page <- ClientPage,
  allocated <- [f \in File |-> AllocatedPages(f)],
  content <- [f \in File |-> [p \in AllocatedPages(f) |-> Current(f, p)]],
  users <- [f \in File |-> [p \in ClientPage |-> IF OpenOn(f) THEN held[<<FdOf(f), p>>] ELSE 0]],
  doomed <- [f \in File |-> IF OpenOn(f) THEN disposed[FdOf(f)] ELSE {}]

(***************************************************************************)
(* Eviction, write-back, reload, deferred disposal and the reuse of freed  *)
(* page ids are invisible: no page a client holds is handed to another, no *)
(* write is lost before it is overwritten, also over Shutdown and the next *)
(* OpenFile (GetPage, AllocatePage, DisposePage, UnpinPage, FlushAllPages).*)
(***************************************************************************)
ImplementsPageStore == Store!Spec
=============================================================================
