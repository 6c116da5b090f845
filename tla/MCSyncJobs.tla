---------------------------- MODULE MCSyncJobs ----------------------------
(* SyncJobs on small sets of keys, processes, payloads and results. *)
EXTENDS SyncJobs, TLC

Symmetric == Permutations(Proc) \cup Permutations(Key)
               \cup Permutations(Payload) \cup Permutations(Result)
=============================================================================
