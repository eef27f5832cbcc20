------------------------------ MODULE TaskFifo ------------------------------
(***************************************************************************)
(* What a queue of the thread pool promises: tasks are taken in the order  *)
(* in which they were pushed, each of them once.                           *)
(***************************************************************************)
EXTENDS Naturals, Sequences

VARIABLES
    items,  \* the tasks that wait in the queue
    taken   \* the tasks that threads have popped, in that order

vars == <<items, taken>>

Init == items = << >> /\ taken = << >>

(* The tasks are numbered in the order in which they are pushed. *)
Push ==
    /\ items' = Append(items, Len(taken) + Len(items))
    /\ UNCHANGED taken

Pop ==
    /\ items # << >>
    /\ items' = Tail(items)
    /\ taken' = Append(taken, Head(items))

Next == Push \/ Pop

Spec == Init /\ [][Next]_vars
=============================================================================
