-------------------------- MODULE CommitLogClaims --------------------------
(***************************************************************************)
(* What the comments say of the redo log and the code does not do.         *)
(***************************************************************************)
EXTENDS CommitLog

(***************************************************************************)
(* "there is no undo log, therefore data pages are not flushed, they are   *)
(* only replayed from the redo log" (DiskBufferPool::CloseFile): when the  *)
(* server is down, the log file has every record a commit was              *)
(* acknowledged for.                                                       *)
(***************************************************************************)
CommittedIsReplayable ==
  ~running => \A u \in promised : \E i \in DOMAIN file : u \in ToSet(file[i].data)
=============================================================================
