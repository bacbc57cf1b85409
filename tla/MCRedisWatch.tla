---------------------------- MODULE MCRedisWatch ----------------------------
(* Small instances of RedisWatch. *)
EXTENDS RedisWatch

TwoValues == {1, 2}

(* unset, as shipped in redis.conf, and set by another program for events *)
AllOrNothing == {{}, {"K", "A"}, {"E", "A"}}

=============================================================================
