---------------------------- MODULE MCSubscriber ----------------------------
(* Links and Trial share nothing; small instances of the two are explored  *)
(* side by side, one of them away from its initial state at a time.        *)
EXTENDS Links, Trial, TLC

CONSTANTS c1, c2, n1, n2, e1, e2, p1, p2, r1, r2

-----------------------------------------------------------------------------
(* Links: inbounds with all their settings, with one missing, and one that *)
(* carries the settings of another transport.                              *)

MCTags == {"VlessTcpReality", "VlessGrpcReality", "VlessXhttpReality", "Vmess",
           "Shadowsocks", "Hysteria2", "Wireguard", "Mtproto"}

Of(t, net, has) == [tag |-> t, network |-> net, has |-> has]

MCInbounds == {
  Of("VlessTcpReality", "tcp", {"stream", "reality", "sid", "sni"}),
  Of("VlessTcpReality", "tcp", {"stream", "reality", "sid"}),
  Of("VlessTcpReality", "grpc", {"stream", "reality", "sid", "sni", "grpc"}),
  Of("VlessXhttpReality", "xhttp", {"stream", "reality", "xhttp"}),
  Of("VlessGrpcReality", "grpc", {"stream", "reality", "grpc"}),
  Of("Vmess", "tcp", {"stream", "host", "path"}),
  Of("Vmess", "tcp", {"stream", "host"}),
  Of("Shadowsocks", "tcp", {"stream"}),
  Of("Hysteria2", "tcp", {"h2"}),
  Of("Wireguard", "tcp", {"wg"}),
  Of("Wireguard", "tcp", {}),
  Of("Mtproto", "tcp", {"secret"})}

-----------------------------------------------------------------------------
MCSymmetry == Permutations({c1, c2}) \cup Permutations({n1, n2})
              \cup Permutations({e1, e2}) \cup Permutations({r1, r2})

MCInit == LinksInit /\ Init

Still == Init /\ UNCHANGED vars

\* LinksNext, with Trial at its initial state; one disjunct per step, which TLC
\* takes apart once and for all.
LinksMoves ==
  \/ \E c \in Conns : \/ DeleteConn(c) /\ Still
                      \/ RestoreConn(c) /\ Still
                      \/ \E e \in Envs, t \in TagsInUse : CreateConn(c, e, t) /\ Still
  \/ \E n \in Nodes, f \in NodeForms : AddNode(n, f) /\ Still
  \/ Expire /\ Still
  \/ Activate /\ Still

MCNext == LinksMoves \/ (LinksInit /\ Next /\ UNCHANGED linksVars)

MCSpec == MCInit /\ [][MCNext]_<<linksVars, vars>>
=============================================================================
