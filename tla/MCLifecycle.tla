---------------------------- MODULE MCLifecycle ----------------------------
(* An instance of Lifecycle for TLC: a blank list, a typing error, a       *)
(* number beyond int64, one whose Duration overflows, and a negative one.  *)
EXTENDS Lifecycle

MCEnv(redis, brokers, ttl) == [redis |-> redis, brokers |-> brokers, ttl |-> ttl]

MCEnvs == {MCEnv(Unset, Unset, Junk),
           MCEnv(<<"r1", Blank>>, <<Blank>>, 40),
           MCEnv(<<Blank>>, Unset, Unset),
           MCEnv(<<"r1">>, Unset, 9),
           MCEnv(Unset, <<"b1">>, -2)}
=============================================================================
