----------------------------- MODULE MCChatHub -----------------------------
(***************************************************************************)
(* ChatHub with two connections on two instances: two devices of a member, *)
(* or one each of two members, together or apart.  With the local          *)
(* broadcaster both may go away again; with Redis two messages are sent.   *)
(***************************************************************************)
EXTENDS ChatHub, TLC

CONSTANTS i1, i2, m1, m2, c1, c2

MCPlaces == {c1 :> <<m1, i1>> @@ c2 :> <<m, i>> : m \in Members, i \in Instances}
MCMaxFrames == "memory" :> 1 @@ "redis" :> 2
MCLeavers == "memory" :> Conns @@ "redis" :> {}
=============================================================================
