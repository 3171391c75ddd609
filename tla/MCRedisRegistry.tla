---------------------------- MODULE MCRedisRegistry ----------------------------
(* Two instances of one service. *)
EXTENDS RedisRegistry, TLC

CONSTANTS i1, i2
================================================================================
