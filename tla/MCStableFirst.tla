---------------------------- MODULE MCStableFirst ---------------------------
(***************************************************************************)
(* A small instance of StableFirst.  In the first batch thread 0 routes    *)
(* net a, with two connections that may share wire w or meet in the sink   *)
(* s1, while thread 1 routes net d over the same wires.  Net e is the      *)
(* second batch; net l is labeled, with two connections that may pass each *)
(* other's sinks: s6 is a pin bounce, s5 may carry a stale target mark.    *)
(* By such marks net d may pass s5 and net l the sink s1 of net a.         *)
(***************************************************************************)
EXTENDS StableFirst, TLC

MCNodes == {"a", "d", "e", "l", "w", "x", "s1", "s2", "s3", "s4", "s5", "s6"}
MCNetOf == [a1 |-> "netA", a2 |-> "netA", d1 |-> "netD", e1 |-> "netE",
            l1 |-> "netL", l2 |-> "netL"]
MCSink == [a1 |-> "s1", a2 |-> "s2", d1 |-> "s3", e1 |-> "s4", l1 |-> "s5", l2 |-> "s6"]
MCPaths == [
  a1 |-> {<<"s1", "w", "a">>, <<"s1", "x", "a">>},
  a2 |-> {<<"s2", "w", "a">>, <<"s2", "s1", "w", "a">>},
  d1 |-> {<<"s3", "w", "d">>, <<"s3", "x", "d">>, <<"s3", "s5", "d">>},
  e1 |-> {<<"s4", "w", "e">>, <<"s4", "e">>},
  l1 |-> {<<"s5", "x", "l">>, <<"s5", "s6", "l">>},
  l2 |-> {<<"s6", "s5", "x", "l">>, <<"s6", "s1", "l">>}]
MCStaleTargets == [a1 |-> {}, a2 |-> {}, d1 |-> {"s5"}, e1 |-> {}, l1 |-> {}, l2 |-> {"s1", "s5"}]
MCConnSeq == [netA |-> <<"a1", "a2">>, netD |-> <<"d1">>, netE |-> <<"e1">>,
              netL |-> <<"l1", "l2">>]
MCBatchNets == 0 :> (0 :> <<"netA">> @@ 1 :> <<"netD">>)
            @@ 1 :> (0 :> <<>> @@ 1 :> <<"netE">>)
MCLabeled == <<"l1", "l2">>
MCNodeOwner == [n \in MCNodes |-> IF n \in {"w", "a", "d", "s1", "s4"} THEN 0 ELSE 1]

=============================================================================
