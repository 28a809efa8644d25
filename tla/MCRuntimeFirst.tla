--------------------------- MODULE MCRuntimeFirst ---------------------------
(***************************************************************************)
(* A small instance of RuntimeFirst: net a has two connections to s1 and   *)
(* s2 that may share a wire, net b has one; both nets want wire w.  With   *)
(* PinBounce = {"s1"} the second connection of net a may pass through the  *)
(* sink of the first.  By a stale target mark the first one may pass the   *)
(* sink of the second, and net b the sink s1 of net a.                     *)
(***************************************************************************)
EXTENDS RuntimeFirst

MCNodes == {"a", "b", "w", "x", "s1", "s2", "s3"}
MCNetOf == [c1 |-> "netA", c2 |-> "netA", c3 |-> "netB"]
MCSink == [c1 |-> "s1", c2 |-> "s2", c3 |-> "s3"]
MCPaths == [
  c1 |-> {<<"s1", "w", "a">>, <<"s1", "s2", "w", "a">>},
  c2 |-> {<<"s2", "w", "a">>, <<"s2", "s1", "w", "a">>},
  c3 |-> {<<"s3", "w", "b">>, <<"s3", "s1", "w", "b">>, <<"s3", "x", "b">>}]
MCStaleTargets == [c1 |-> {"s2"}, c2 |-> {}, c3 |-> {"s1"}]
MCWorkList == [t1 |-> <<"c1", "c2">>, t2 |-> <<"c3">>]

=============================================================================
