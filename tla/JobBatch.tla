------------------------------ MODULE JobBatch ------------------------------
(***************************************************************************)
(* What ctrlcenter2 needs from its thread pool, and what BackupArchive     *)
(* assumes of the set pending: the program hands out a batch of jobs, any  *)
(* job that is still open may finish next, and the program goes on when no *)
(* job of the batch is open.  A job may instead end the whole process.     *)
(***************************************************************************)
EXTENDS Naturals

CONSTANTS
    Job,        \* the jobs of one batch
    MaxBatch    \* the number of batches

VARIABLES
    batch,      \* the batch that is being worked on
    open,       \* its jobs that have not finished
    dead        \* the process has been ended by a job

vars == <<batch, open, dead>>

Init == batch = 1 /\ open = Job /\ dead = FALSE

(* One job is done.  A job that was under way when another one ended the   *)
(* process may still finish.                                               *)
Finish(j) ==
    /\ j \in open
    /\ open' = open \ {j}
    /\ UNCHANGED <<batch, dead>>

(* Every job is done: the results are collected and the next batch starts. *)
NextBatch ==
    /\ ~dead
    /\ open = {}
    /\ batch <= MaxBatch
    /\ batch' = batch + 1
    /\ open' = IF batch < MaxBatch THEN Job ELSE {}
    /\ UNCHANGED dead

(* An open job calls exit(-1): there is no next batch after that. *)
Die ==
    /\ ~dead
    /\ open # {}
    /\ dead' = TRUE
    /\ UNCHANGED <<batch, open>>

Next == (\E j \in Job : Finish(j)) \/ NextBatch \/ Die

Spec == Init /\ [][Next]_vars
=============================================================================
