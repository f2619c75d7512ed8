------------------------------- MODULE Stages -------------------------------
(***************************************************************************)
(* How layers and dimensions are dealt out to ranks: PipelineContext       *)
(* (model/pipeline.rs) and DistributedContext::shard_dim (distributed.rs). *)
(***************************************************************************)
EXTENDS Integers

\* A slip: the layers per rank are rounded down.
LayersPerGpuDown(world_size, total_layers) == total_layers \div world_size
LayersPerGpu(world_size, total_layers) == (total_layers + world_size - 1) \div world_size

\* The range of layers of a rank; behind the last layer it is empty, and its
\* start may then lie behind its end.
Stage(rank, world_size, total_layers) ==
  LET per_gpu == LayersPerGpu(world_size, total_layers)
      start == rank * per_gpu
  IN [start_layer |-> start,
      end_layer |-> IF start + per_gpu <= total_layers THEN start + per_gpu ELSE total_layers]

ShouldProcessLayer(stage, index) == index >= stage.start_layer /\ index < stage.end_layer

ShardSize(world_size, dim_size) == dim_size \div world_size

\* The range a rank keeps of a dimension.
Shard(rank, world_size, dim_size) ==
  LET size == ShardSize(world_size, dim_size)
  IN rank * size .. rank * size + size - 1

-----------------------------------------------------------------------------
(* Properties of one division                                              *)

\* Every layer is run by exactly one stage.
LayersPartitioned(world_size, total_layers) ==
  \A index \in 0..total_layers - 1 :
    \E rank \in 0..world_size - 1 :
      \A r \in 0..world_size - 1 :
        ShouldProcessLayer(Stage(r, world_size, total_layers), index) <=> r = rank

\* Shards lie within the dimension and do not overlap; together they miss
\* the remainder of the division, at its end.
ShardsTile(world_size, dim_size) ==
  LET kept == UNION {Shard(r, world_size, dim_size) : r \in 0..world_size - 1}
  IN /\ kept = 0..dim_size - (dim_size % world_size) - 1
     /\ \A r, q \in 0..world_size - 1 :
          r # q => Shard(r, world_size, dim_size) \cap Shard(q, world_size, dim_size) = {}
=============================================================================
