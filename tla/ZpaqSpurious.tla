---------------------------- MODULE ZpaqSpurious ----------------------------
(***************************************************************************)
(* The threads of "zpaq add" (ZpaqPipeline) when a thread that sleeps in   *)
(* pthread_cond_wait may also be woken although nobody signalled, as POSIX *)
(* allows.  Semaphore::wait asks "if (sem==0)" and not "while (sem==0)",   *)
(* so such a thread goes on without a unit.                                *)
(***************************************************************************)
EXTENDS ZpaqPipeline

(* The sleeper th is woken; it need not be a waiter of a signal. *)
Woken(s, th) == [s EXCEPT !.asleep = @ \ {th}, !.woken = @ \cup {th}]

SpuriousWakeup ==
    /\ \/ \E th \in empty.asleep :
            empty' = Woken(empty, th) /\ UNCHANGED <<compressors, full, compressed>>
       \/ \E th \in compressors.asleep :
            compressors' = Woken(compressors, th) /\ UNCHANGED <<empty, full, compressed>>
       \/ \E i \in Slot : \E th \in full[i].asleep :
            /\ full' = [full EXCEPT ![i] = Woken(@, th)]
            /\ UNCHANGED <<empty, compressors, compressed>>
       \/ \E i \in Slot : \E th \in compressed[i].asleep :
            /\ compressed' = [compressed EXCEPT ![i] = Woken(@, th)]
            /\ UNCHANGED <<empty, compressors, full>>
    /\ UNCHANGED <<q, front, main, cpc, wpc, archive, csize>>

SpuriousSpec == Init /\ [][Next \/ SpuriousWakeup]_vars /\ Fairness
=============================================================================
