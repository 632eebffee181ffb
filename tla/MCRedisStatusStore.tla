------------------------- MODULE MCRedisStatusStore -------------------------
(* An instance of RedisStatusStore: three users, two connections. *)
EXTENDS RedisStatusStore
=============================================================================
