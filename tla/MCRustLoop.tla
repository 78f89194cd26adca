----------------------------- MODULE MCRustLoop -----------------------------
(***************************************************************************)
(* RustLoop on small inputs: two CPUs, one GPU, memory not modelled.       *)
(***************************************************************************)
EXTENDS RustLoop

MCCapacity == [cpus |-> 2, gpus |-> 1, mem |-> 0]

Shape(cpus, gpus, watts, runtime) ==
  [requested |-> [cpus |-> cpus, gpus |-> gpus, mem |-> 1],
   power_mean_watts |-> watts, runtime_actual_sec |-> runtime]

(* One CPU for long or short, the GPU, the whole machine, more power than  *)
(* the cap, more GPUs than there are, no CPU at all.                       *)
Shapes == {Shape(1, 0, 1, 3), Shape(1, 1, 3, 2), Shape(2, 0, 2, 1)}
OddShapes == {Shape(1, 0, 4, 1), Shape(1, 2, 0, 1), Shape(0, 0, 1, -1)}

RecordsOf(n, shapes, times) ==
  {[i \in 1..n |-> shape[i] @@ [job_id |-> i, submit_ts |-> ts[i]]] :
     shape \in [1..n -> shapes], ts \in times}

MCRecordLists ==
  RecordsOf(4, Shapes, {<<0, 0, 1, 1>>, <<0, 1, 1, 2>>})
  \cup RecordsOf(3, Shapes \cup OddShapes, {<<1, 0, 1>>})
  \cup {<<>>}
=============================================================================
