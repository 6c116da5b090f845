---------------------------- MODULE MemoryStore ----------------------------
(***************************************************************************)
(* InMemoryIdempotencyStore as SyncTask.execute drives it: begin()         *)
(* reserves a key for one payload, commit() keeps the result for ever, and *)
(* a failure, which this store cannot record, forgets the key (abort), so  *)
(* that the next caller starts afresh.  SyncJobsStore says it has the same *)
(* semantics, extended by the record of failures.                          *)
(*                                                                         *)
(* Replies that change nothing (running, completed, the conflict) are not  *)
(* steps.  reset() and the end of the process, which clear the whole       *)
(* store, are left out: the table has nothing of the kind.                 *)
(***************************************************************************)

CONSTANTS Key, Payload, Result, Null

VARIABLE entries    \* key -> its entry

NoEntry == [status |-> "absent", payload_hash |-> Null, result |-> Null]

Init == entries = [k \in Key |-> NoEntry]

Begin(k, h) ==
  /\ entries[k] = NoEntry
  /\ entries' = [entries EXCEPT ![k] = [status |-> "running", payload_hash |-> h,
                                        result |-> Null]]

Commit(k, r) ==
  /\ entries[k].status = "running"
  /\ entries' = [entries EXCEPT ![k].status = "completed", ![k].result = r]

Abort(k) ==
  /\ entries[k].status = "running"
  /\ entries' = [entries EXCEPT ![k] = NoEntry]

Next ==
  \E k \in Key :
    \/ \E h \in Payload : Begin(k, h)
    \/ \E r \in Result : Commit(k, r)
    \/ Abort(k)

Spec == Init /\ [][Next]_entries
=============================================================================
