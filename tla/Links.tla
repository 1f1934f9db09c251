------------------------------- MODULE Links -------------------------------
(***************************************************************************)
(* What a subscriber is shown: the locations of get_subscription_info_json, *)
(* the links and Clash proxies of subscription_link_handler, and the lists  *)
(* of the WireGuard and MTProto handlers (src/bin/api/http/handlers), built *)
(* by create_link (src/config/inbound.rs) and proxy (src/config/clash.rs)   *)
(* from one subscription's connections and the nodes in the Cache.  Each    *)
(* answer is an operator of the Cache, since a handler holds the read lock  *)
(* throughout.  Link texts are abstracted to their transport.               *)
(***************************************************************************)
EXTENDS Naturals, FiniteSets

CONSTANTS
  Conns,     \* connection ids of the subscription
  Nodes,     \* node ids
  Envs,      \* environments
  TagsInUse, \* the protocol tags in use
  Inbounds,  \* the inbounds nodes register: [tag, network, has]
  MaxInbounds,  \* bound on the inbounds of a node
  NoLink, Absent

\* has: which optional settings are there.  "host" stands for the whole chain from
\* tcpSettings to a first Host header, "sid", "sni", "path" for a first element.
Settings == {"stream", "host", "path", "reality", "sid", "sni", "grpc", "xhttp",
             "wg", "h2", "secret"}

ASSUME InboundAssumption ==
  /\ Inbounds \subseteq [tag : TagsInUse, network : {"xhttp", "grpc", "tcp", "ws"},
                         has : SUBSET Settings]
  /\ NoLink \notin {"tcp", "grpc", "xhttp", "http", "h2", "wg", "mtproto"}

VARIABLES
  sub,    \* "active", "expired", or "missing" from the Cache
  conns,  \* conns[c]: Absent or [env, tag, deleted]
  nodes   \* nodes[n]: Absent or [env, inbounds], an inbound per tag at most

linksVars == <<sub, conns, nodes>>

NodeForms == [env : Envs, inbounds : {I \in SUBSET Inbounds :
                Cardinality(I) \in 1..MaxInbounds /\ \A i, j \in I : i.tag = j.tag => i = j}]

-----------------------------------------------------------------------------
(* create_link.                                                            *)

VlessTags == {"VlessTcpReality", "VlessGrpcReality", "VlessXhttpReality"}

\* What a link of each protocol cannot do without.
Requires == [
  VlessTcpReality   |-> {"stream", "reality", "sid", "sni"},
  VlessGrpcReality  |-> {"stream", "reality", "grpc"},
  VlessXhttpReality |-> {"stream", "reality", "xhttp"},
  Vmess             |-> {"stream", "host", "path"},
  Hysteria2         |-> {"h2"},
  Wireguard         |-> {"wg"},
  Mtproto           |-> {"secret"}]

Transport == [
  VlessTcpReality |-> "tcp", VlessGrpcReality |-> "grpc", VlessXhttpReality |-> "xhttp",
  Vmess |-> "http", Hysteria2 |-> "h2", Wireguard |-> "wg", Mtproto |-> "mtproto"]

\* The transport of the link, or NoLink for an error.
CreateLink(i) ==
  IF i.tag \in DOMAIN Requires /\ Requires[i.tag] \subseteq i.has
    THEN Transport[i.tag] ELSE NoLink

\* Mutant: the transports are tried in another order.
ProxyTcpFirst(i) ==
  IF "stream" \notin i.has THEN NoLink
  ELSE IF i.tag = "Vmess" THEN IF "host" \in i.has THEN "http" ELSE NoLink
  ELSE IF i.tag \notin VlessTags \/ "reality" \notin i.has THEN NoLink
  ELSE IF i.network = "tcp" \/ "grpc" \notin i.has THEN "tcp" ELSE "grpc"

\* Inbound::proxy: the transport of the Clash proxy, chosen by the settings found,
\* in this order, and not by the tag; NoLink for None.
Proxy(i) ==
  IF "stream" \notin i.has THEN NoLink
  ELSE IF i.tag = "Vmess" THEN IF "host" \in i.has THEN "http" ELSE NoLink
  ELSE IF i.tag \notin VlessTags \/ "reality" \notin i.has THEN NoLink
  ELSE IF "grpc" \in i.has THEN "grpc"
  ELSE IF "xhttp" \in i.has THEN "xhttp"
  ELSE IF i.network = "tcp" THEN "tcp" ELSE NoLink

-----------------------------------------------------------------------------
(* subscription_link_handler and its two relatives.                        *)

\* TagReq::tags.
TagReqs == [
  Xray      |-> VlessTags \cup {"Vmess", "Shadowsocks"},
  Wireguard |-> {"Wireguard"},
  Hysteria2 |-> {"Hysteria2"},
  Mtproto   |-> {"Mtproto"}]

\* allowed_formats; validate refuses the rest with 400.
AllowedFormats == [
  Xray |-> {"Txt", "Base64", "Clash"}, Hysteria2 |-> {"Txt", "Base64"},
  Wireguard |-> {}, Mtproto |-> {}]

Live(e) == {c \in Conns : conns[c] # Absent /\ ~conns[c].deleted /\ conns[c].env = e}
InEnv(e) == {n \in Nodes : nodes[n] # Absent /\ nodes[n].env = e}

\* The inbounds of node n that connection c can use.  The code looks one up under
\* the connection's tag; Node::new and the rows of inbounds both file an inbound
\* under its own tag, so the two are one.
Met(c, n) == {<<c, n, i>> : i \in {j \in nodes[n].inbounds : j.tag = conns[c].tag}}

\* inbounds_list: the live connections of the asked tags, with every inbound of
\* their tag on a node of their environment.
InboundsList(tags, e) ==
  UNION {UNION {Met(c, n) : n \in InEnv(e)} : c \in {d \in Live(e) : conns[d].tag \in tags}}

Response(status, list) == [status |-> status, list |-> list]

\* Mutant: one inbound without proxy empties the Clash answer.
LinkResponseStrict(p, e, format) ==
  LET list == InboundsList(TagReqs[p], e)
      fails == IF format = "Clash" THEN \E x \in list : Proxy(x[3]) = NoLink
                                   ELSE \E x \in list : CreateLink(x[3]) = NoLink IN
  IF format \notin AllowedFormats[p] THEN Response(400, {})
  ELSE IF sub # "active" \/ list = {} THEN Response(404, {})
  ELSE IF fails THEN Response(500, {}) ELSE Response(200, list)

\* Txt and Base64 collect the links into one Result; Clash leaves out a None.
LinkResponse(p, e, format) ==
  LET list == InboundsList(TagReqs[p], e) IN
  IF format \notin AllowedFormats[p] THEN Response(400, {})
  ELSE IF sub # "active" \/ list = {} THEN Response(404, {})
  ELSE IF format = "Clash" THEN Response(200, {x \in list : Proxy(x[3]) # NoLink})
  ELSE IF \E x \in list : CreateLink(x[3]) = NoLink THEN Response(500, {})
  ELSE Response(200, list)

\* wireguard_connections_handler and mtproto_connections_handler: only a
\* subscription that is found can be refused; an inbound without link is left out.
ProtoConnections(p, e) ==
  IF sub = "expired" THEN {}
  ELSE {x \in InboundsList(TagReqs[p], e) : CreateLink(x[3]) # NoLink}

\* The tags the page calls xray: without Shadowsocks.
PageTags(p) == IF p = "Xray" THEN VlessTags \cup {"Vmess"} ELSE TagReqs[p]

\* Mutant: the page asks the nodes only.
HasNodesOnly(p, e) ==
  \E n \in InEnv(e) : \E i \in nodes[n].inbounds : i.tag \in PageTags(p)

\* get_subscription_info_json: has_xray, has_h2, has_wg and has_mtproto of a
\* location.  The tags of connection and inbound are looked at separately.
Has(p, e) ==
  /\ \E c \in Live(e) : conns[c].tag \in PageTags(p)
  /\ \E n \in InEnv(e) : \E i \in nodes[n].inbounds : i.tag \in PageTags(p)

-----------------------------------------------------------------------------
(* What changes the Cache: see ConnSync, SubDays and NodeRegistry.         *)

LinksInit ==
  /\ sub = "missing"
  /\ conns = [c \in Conns |-> Absent]
  /\ nodes = [n \in Nodes |-> Absent]

\* create_connection_handler: only for an active subscription.
CreateConn(c, e, t) ==
  /\ sub = "active" /\ conns[c] = Absent
  /\ conns' = [conns EXCEPT ![c] = [env |-> e, tag |-> t, deleted |-> FALSE]]
  /\ UNCHANGED <<sub, nodes>>

DeleteConn(c) ==
  /\ conns[c] # Absent /\ ~conns[c].deleted
  /\ conns' = [conns EXCEPT ![c].deleted = TRUE]
  /\ UNCHANGED <<sub, nodes>>

AddNode(n, f) ==
  /\ nodes[n] = Absent
  /\ nodes' = [nodes EXCEPT ![n] = f]
  /\ UNCHANGED <<sub, conns>>

RestoreConn(c) ==
  /\ conns[c] # Absent /\ conns[c].deleted
  /\ conns' = [conns EXCEPT ![c].deleted = FALSE]
  /\ UNCHANGED <<sub, nodes>>

Expire ==
  /\ sub = "active"
  /\ sub' = "expired"
  /\ UNCHANGED <<conns, nodes>>

\* add_sub, or add_days.
Activate ==
  /\ sub # "active"
  /\ sub' = "active"
  /\ UNCHANGED <<conns, nodes>>

LinksNext ==
  \/ \E c \in Conns : \/ DeleteConn(c) \/ RestoreConn(c)
                      \/ \E e \in Envs, t \in TagsInUse : CreateConn(c, e, t)
  \/ \E n \in Nodes, f \in NodeForms : AddNode(n, f)
  \/ Expire \/ Activate

LinksSpec == LinksInit /\ [][LinksNext]_linksVars

-----------------------------------------------------------------------------
(* Properties.                                                             *)

\* The page and the link handlers agree, though each searches for itself: a
\* location has Hysteria2, WireGuard or MTProto exactly when some connection meets
\* an inbound there, and Xray whenever one of another tag than Shadowsocks does.
PageMatchesLinks ==
  \A e \in Envs :
    /\ \A p \in {"Hysteria2", "Wireguard", "Mtproto"} :
         Has(p, e) <=> InboundsList(TagReqs[p], e) # {}
    /\ \A x \in InboundsList(TagReqs["Xray"], e) :
         x[3].tag # "Shadowsocks" => Has("Xray", e)

\* An inbound as Xray runs it: the transport of its tag and no other.
Standard(i) ==
  /\ i.tag = "VlessTcpReality" => i.network = "tcp" /\ i.has \cap {"grpc", "xhttp"} = {}
  /\ i.tag = "VlessXhttpReality" => "grpc" \notin i.has

\* A client that asks for Clash gets all that the text format lists, over the same
\* transports, as long as the inbounds are standard: proxy and create_link read
\* the same settings in different ways.
ClashAgrees ==
  \A e \in Envs :
    LET txt == LinkResponse("Xray", e, "Txt")
        clash == LinkResponse("Xray", e, "Clash") IN
    /\ txt.status = 200 => clash.status = 200
    /\ \A x \in txt.list : Standard(x[3]) =>
         x \in clash.list /\ Proxy(x[3]) = CreateLink(x[3])

OnlyAdds ==
  /\ sub' = sub
  /\ \A c \in Conns : conns[c] \in {Absent, conns'[c]}
  /\ \A n \in Nodes : nodes[n] \in {Absent, nodes'[n]}

\* A new connection or node takes nothing from a subscriber, except that a text
\* answer turns into an error as a whole when what is new has no link.
AdditionsKeepLinks ==
  [][ OnlyAdds =>
        \A e \in Envs :
          /\ LinkResponse("Xray", e, "Clash").list \subseteq LinkResponse("Xray", e, "Clash")'.list
          /\ ProtoConnections("Wireguard", e) \subseteq ProtoConnections("Wireguard", e)'
          /\ \A p \in {"Xray", "Hysteria2"} :
               \/ LinkResponse(p, e, "Txt").list \subseteq LinkResponse(p, e, "Txt")'.list
               \/ \E x \in InboundsList(TagReqs[p], e)' :
                    CreateLink(x[3]) = NoLink /\ (conns[x[1]] = Absent \/ nodes[x[2]] = Absent)
    ]_linksVars
=============================================================================
