---------------------------- MODULE MCAStarRouter ---------------------------
(***************************************************************************)
(* A small instance of AStarRouter: four connections of three nets, the   *)
(* net of connections 1 and 2 branches at y.  w, x and z lie on cycles;    *)
(* x is a PINBOUNCE and s2 a sink pin that is one as well, so connection   *)
(* 1 may pass through the sink of its own net and a stale target mark      *)
(* opens it for connection 0.                                              *)
(***************************************************************************)
EXTENDS AStarRouter, TLC

MCNodes == {"a", "b", "d", "v", "w", "x", "y", "z", "s0", "s1", "s2", "s3"}
MCChildren == [
  a |-> <<"w", "x">>, b |-> <<"y", "v", "z">>, d |-> <<"w", "x", "y">>,
  v |-> <<"s1">>, w |-> <<"x", "s3", "s2">>, x |-> <<"s2", "w", "z">>,
  y |-> <<"s1", "s2", "s3">>,
  z |-> <<"x", "s3", "s0">>,
  s0 |-> <<>>, s1 |-> <<>>, s2 |-> <<"s0", "s1">>, s3 |-> <<>>]
MCNetOf == 0 :> "netA" @@ 1 :> "netB" @@ 2 :> "netB" @@ 3 :> "netD"
MCSource == 0 :> "a" @@ 1 :> "b" @@ 2 :> "b" @@ 3 :> "d"
MCSink == 0 :> "s0" @@ 1 :> "s1" @@ 2 :> "s2" @@ 3 :> "s3"
MCEnterable == [i \in 0..3 |-> {"v", "w", "x", "y", "z", "s2"}]

\* Connection 2 cannot enter its wire: its search must fail.
MCEnterableBlocked == [MCEnterable EXCEPT ![2] = {"w"}]
MCEnterableSets == {MCEnterable, MCEnterableBlocked}

MCBounce == {"x", "s2"}
\* The identifier of connection 1 or 2 is the mark of an untouched node.
MCGarbage == {0, -3, -4}
MCZero == {0}

=============================================================================
