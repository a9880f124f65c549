-------------------------------- MODULE MCVmm --------------------------------
(* A machine of 24 frames: a reserved page, the kernel, and the pool.      *)
EXTENDS Vmm

Machine == [p \in {1} \cup 2 .. 23 |-> IF p = 1 THEN "reserved" ELSE "available"]

\* What process_create and create_init_process ask for: a stack, and a page of
\* code below it with other rights; a range that overlaps the stack; and NULL.
InitProcess == {[va |-> 4, size |-> 2, flags |-> "user rw"],
                [va |-> 3, size |-> 1, flags |-> "user ro"],
                [va |-> 5, size |-> 2, flags |-> "user ro"],
                [va |-> 0, size |-> 1, flags |-> "user rw"]}

\* A page right below the stack, with the same rights.
GrownStack == {[va |-> 4, size |-> 2, flags |-> "user rw"],
               [va |-> 3, size |-> 1, flags |-> "user rw"]}
=============================================================================
