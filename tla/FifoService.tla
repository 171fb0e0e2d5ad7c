----------------------------- MODULE FifoService -----------------------------
(***************************************************************************)
(* What DatabaseTasks promises to the code that adds queries: an accepted  *)
(* query is executed, once, and in the order of acceptance.                *)
(***************************************************************************)
EXTENDS Sequences

CONSTANT Request

VARIABLES waiting, done

FifoInit == waiting = <<>> /\ done = <<>>

Accept(r) ==
    /\ waiting' = Append(waiting, r)
    /\ UNCHANGED done

Execute ==
    /\ waiting # <<>>
    /\ done' = Append(done, Head(waiting))
    /\ waiting' = Tail(waiting)

FifoNext == Execute \/ \E r \in Request : Accept(r)

FifoSafe == FifoInit /\ [][FifoNext]_<<waiting, done>>
FifoSpec == FifoSafe /\ WF_<<waiting, done>>(Execute)
=============================================================================
