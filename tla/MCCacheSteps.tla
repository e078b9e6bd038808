---------------------------- MODULE MCCacheSteps ----------------------------
(* Instance of CacheSteps for TLC: three layers, the middle one windowed.   *)
EXTENDS CacheSteps

MCWindowed == {1}
MCAsked == {0, 1}    \* the first layer of each kind
MCAdds == {1, 2}
MCPolicies == [binds : BOOLEAN, stops : BOOLEAN]
MCCaptures == {"none", "layers", "all"}
=============================================================================
