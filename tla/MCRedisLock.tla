----------------------------- MODULE MCRedisLock -----------------------------
\* Values of the constants of RedisLock for model checking.
EXTENDS RedisLock, TLC

ClientSymmetry == Permutations(Client)
=============================================================================
