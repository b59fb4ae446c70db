---------------------------- MODULE MCReleaseGate ----------------------------
(* ReleaseGate with two application shards and one firmware plan.           *)
EXTENDS ReleaseGate

CONSTANTS bios, shard0, shard1

MCPlans  == {bios, shard0, shard1}
MCShards == {shard0, shard1}

=============================================================================
