-------------------------- MODULE SubscriberProofs ---------------------------
(* Proofs about what a subscriber gets: the links shown, for any nodes,     *)
(* connections and inbounds; the forms a connection takes, for any          *)
(* environment names; and trials, for any people, requests and number of    *)
(* faults.                                                                 *)
EXTENDS Links, ConnForms, Trial, TLAPS

-----------------------------------------------------------------------------
(* Links.                                                                  *)

\* Connection c of a tag in tags meets inbound i on node n.
Meets(tags, e, c, n, i) ==
  /\ c \in Live(e) /\ conns[c].tag \in tags
  /\ n \in InEnv(e) /\ i \in nodes[n].inbounds /\ i.tag = conns[c].tag

-----------------------------------------------------------------------------
\* What inbounds_list lists, before and after a step.
LEMMA Listing ==
  ASSUME NEW tags, NEW e
  PROVE  /\ \A x : x \in InboundsList(tags, e) <=>
                     \E c, n, i : x = <<c, n, i>> /\ Meets(tags, e, c, n, i)
         /\ \A x : x \in InboundsList(tags, e)' <=>
                     \E c, n, i : x = <<c, n, i>> /\ Meets(tags, e, c, n, i)'
<1>1. \A x : x \in InboundsList(tags, e) <=>
               \E c, n, i : x = <<c, n, i>> /\ Meets(tags, e, c, n, i)
  BY DEF InboundsList, Met, Meets
<1>2. \A x : x \in InboundsList(tags, e)' <=>
               \E c, n, i : x = <<c, n, i>> /\ Meets(tags, e, c, n, i)'
  BY DEF InboundsList, Met, Meets
<1>. QED
  BY <1>1, <1>2, Zenon

\* The page and the link handlers agree on what a location has, in every state
\* (get_subscription_info_json, inbounds_list).
THEOREM PageAgrees == LinksSpec => []PageMatchesLinks
<1>1. PageMatchesLinks
  <2>. SUFFICES ASSUME NEW e \in Envs
                PROVE  /\ \A p \in {"Hysteria2", "Wireguard", "Mtproto"} :
                            Has(p, e) <=> InboundsList(TagReqs[p], e) # {}
                       /\ \A x \in InboundsList(TagReqs["Xray"], e) :
                            x[3].tag # "Shadowsocks" => Has("Xray", e)
    BY Zenon DEF PageMatchesLinks
  <2>1. ASSUME NEW p \in {"Hysteria2", "Wireguard", "Mtproto"}
        PROVE  Has(p, e) <=> InboundsList(TagReqs[p], e) # {}
    <3>1. TagReqs[p] = {p} /\ PageTags(p) = {p}
      BY <2>1 DEF TagReqs, PageTags
    <3>2. InboundsList({p}, e) # {} <=> \E c, n, i : Meets({p}, e, c, n, i)
      BY Listing, Zenon
    <3>3. Has(p, e) <=> \E c, n, i : Meets({p}, e, c, n, i)
      BY <3>1, Zenon DEF Has, Meets
    <3>. QED
      BY <3>1, <3>2, <3>3, Zenon
  <2>2. ASSUME NEW x \in InboundsList(TagReqs["Xray"], e), x[3].tag # "Shadowsocks"
        PROVE  Has("Xray", e)
    <3>1. PICK c, n, i : x = <<c, n, i>> /\ Meets(TagReqs["Xray"], e, c, n, i)
      BY <2>2, Listing, Zenon
    <3>2. x[3] = i
      BY <3>1, Zenon
    <3>3. i.tag \in PageTags("Xray")
      BY <2>2, <3>1, <3>2, Zenon DEF Meets, TagReqs, PageTags
    <3>. QED
      BY <3>1, <3>3, Zenon DEF Has, Meets
  <2>. QED
    BY <2>1, <2>2, Zenon
<1>. QED
  BY <1>1, PTL

-----------------------------------------------------------------------------
\* What the Xray and Hysteria2 handlers answer.
Bad(list) == \E x \in list : CreateLink(x[3]) = NoLink
\* What the two handlers list of list, when they answer on it at all.
TxtList(on, list) == IF ~on \/ Bad(list) THEN {} ELSE list
ClashList(on, list) == IF on THEN {x \in list : Proxy(x[3]) # NoLink} ELSE {}

\* The two answers, by what they list.
Answered ==
  \A e \in Envs :
    /\ LinkResponse("Xray", e, "Clash").list =
         ClashList(sub = "active", InboundsList(TagReqs["Xray"], e))
    /\ LinkResponse("Xray", e, "Clash").status = 200 <=>
         sub = "active" /\ InboundsList(TagReqs["Xray"], e) # {}
    /\ \A p \in {"Xray", "Hysteria2"} :
         /\ LinkResponse(p, e, "Txt").list =
              TxtList(sub = "active", InboundsList(TagReqs[p], e))
         /\ LinkResponse(p, e, "Txt").status = 200 =>
              sub = "active" /\ InboundsList(TagReqs[p], e) # {}

\* The answers by the state of the subscription and what is listed.
LEMMA Answers == Answered
<1>1. /\ "Clash" \in AllowedFormats["Xray"]
      /\ \A p \in {"Xray", "Hysteria2"} : "Txt" \in AllowedFormats[p]
  BY DEF AllowedFormats
<1>. SUFFICES ASSUME NEW e \in Envs
              PROVE  /\ LinkResponse("Xray", e, "Clash").list =
                          ClashList(sub = "active", InboundsList(TagReqs["Xray"], e))
                     /\ LinkResponse("Xray", e, "Clash").status = 200 <=>
                          sub = "active" /\ InboundsList(TagReqs["Xray"], e) # {}
                     /\ \A p \in {"Xray", "Hysteria2"} :
                          /\ LinkResponse(p, e, "Txt").list =
                               TxtList(sub = "active", InboundsList(TagReqs[p], e))
                          /\ LinkResponse(p, e, "Txt").status = 200 =>
                               sub = "active" /\ InboundsList(TagReqs[p], e) # {}
  BY Zenon DEF Answered
<1>. DEFINE L(p) == InboundsList(TagReqs[p], e)
<1>. HIDE DEF L
<1>2. ASSUME NEW p \in {"Xray", "Hysteria2"}
      PROVE  /\ LinkResponse(p, e, "Txt").list = TxtList(sub = "active", L(p))
             /\ LinkResponse(p, e, "Txt").status = 200 => sub = "active" /\ L(p) # {}
  <2>1. LinkResponse(p, e, "Txt") =
          IF sub # "active" \/ L(p) = {} THEN [status |-> 404, list |-> {}]
          ELSE IF Bad(L(p)) THEN [status |-> 500, list |-> {}]
          ELSE [status |-> 200, list |-> L(p)]
    BY <1>1, <1>2, Zenon DEF LinkResponse, Response, L, Bad
  <2>. QED
    BY <2>1 DEF TxtList, Bad
<1>3. /\ LinkResponse("Xray", e, "Clash").list = ClashList(sub = "active", L("Xray"))
      /\ LinkResponse("Xray", e, "Clash").status = 200 <=> sub = "active" /\ L("Xray") # {}
  <2>. DEFINE found == {x \in L("Xray") : Proxy(x[3]) # NoLink}
  <2>1. CASE sub # "active" \/ L("Xray") = {}
    <3>1. LinkResponse("Xray", e, "Clash") = [status |-> 404, list |-> {}]
      BY <1>1, <2>1, Zenon DEF LinkResponse, Response, L
    <3>. QED
      BY <2>1, <3>1 DEF ClashList
  <2>2. CASE sub = "active" /\ L("Xray") # {}
    <3>1. LinkResponse("Xray", e, "Clash") = [status |-> 200, list |-> found]
      BY <1>1, <2>2, Zenon DEF LinkResponse, Response, L
    <3>. QED
      BY <2>2, <3>1 DEF ClashList
  <2>. QED
    BY <2>1, <2>2, Zenon
<1>. QED
  BY <1>2, <1>3, Zenon DEF L

\* The same of the answers after a step.
LEMMA AnswersNext == Answered'
BY Answers, PTL

\* Of a standard inbound that has a link, the Clash proxy is that link's.
LEMMA SameTransport ==
  ASSUME NEW i, i.tag \in TagReqs["Xray"], CreateLink(i) # NoLink, Standard(i)
  PROVE  Proxy(i) = CreateLink(i) /\ Proxy(i) # NoLink
<1>1. i.tag \in DOMAIN Requires /\ Requires[i.tag] \subseteq i.has /\ CreateLink(i) = Transport[i.tag]
  BY Zenon DEF CreateLink
<1>2. i.tag # "Shadowsocks"
  BY <1>1, Zenon DEF Requires
<1>3. CASE i.tag = "Vmess"
  BY <1>1, <1>3, InboundAssumption DEF Requires, Transport, Proxy, VlessTags
<1>4. CASE i.tag = "VlessTcpReality"
  <2>1. "stream" \in i.has /\ "reality" \in i.has
    BY <1>1, <1>4 DEF Requires
  <2>2. "grpc" \notin i.has /\ "xhttp" \notin i.has /\ i.network = "tcp"
    BY <1>4, Zenon DEF Standard
  <2>3. Proxy(i) = "tcp"
    BY <1>4, <2>1, <2>2, Zenon DEF Proxy, VlessTags
  <2>. QED
    BY <1>1, <1>4, <2>3, InboundAssumption DEF Transport
<1>5. CASE i.tag = "VlessGrpcReality"
  <2>1. "stream" \in i.has /\ "reality" \in i.has /\ "grpc" \in i.has
    BY <1>1, <1>5 DEF Requires
  <2>2. Proxy(i) = "grpc"
    BY <1>5, <2>1, Zenon DEF Proxy, VlessTags
  <2>. QED
    BY <1>1, <1>5, <2>2, InboundAssumption DEF Transport
<1>6. CASE i.tag = "VlessXhttpReality"
  <2>1. "stream" \in i.has /\ "reality" \in i.has /\ "xhttp" \in i.has /\ "grpc" \notin i.has
    BY <1>1, <1>6 DEF Requires, Standard
  <2>2. Proxy(i) = "xhttp"
    BY <1>6, <2>1, Zenon DEF Proxy, VlessTags
  <2>. QED
    BY <1>1, <1>6, <2>2, InboundAssumption DEF Transport
<1>. QED
  BY <1>2, <1>3, <1>4, <1>5, <1>6, Zenon DEF TagReqs, VlessTags

\* Clash lists whatever the text format lists, over the same transports, as long as
\* the inbounds are standard (create_link, proxy, subscription_link_handler).
THEOREM ClashFollows == LinksSpec => []ClashAgrees
<1>1. ClashAgrees
  <2>. SUFFICES ASSUME NEW e \in Envs
                PROVE  /\ LinkResponse("Xray", e, "Txt").status = 200 =>
                            LinkResponse("Xray", e, "Clash").status = 200
                       /\ \A x \in LinkResponse("Xray", e, "Txt").list : Standard(x[3]) =>
                            /\ x \in LinkResponse("Xray", e, "Clash").list
                            /\ Proxy(x[3]) = CreateLink(x[3])
    BY Zenon DEF ClashAgrees
  <2>. DEFINE list == InboundsList(TagReqs["Xray"], e)
  <2>1. /\ LinkResponse("Xray", e, "Txt").status = 200 => sub = "active" /\ list # {}
        /\ LinkResponse("Xray", e, "Clash").status = 200 <=> sub = "active" /\ list # {}
        /\ LinkResponse("Xray", e, "Txt").list = TxtList(sub = "active", list)
        /\ LinkResponse("Xray", e, "Clash").list = ClashList(sub = "active", list)
    BY Answers, Zenon DEF Answered
  <2>2. ASSUME NEW x \in list
        PROVE  x[3].tag \in TagReqs["Xray"]
    <3>1. PICK c, n, i : x = <<c, n, i>> /\ Meets(TagReqs["Xray"], e, c, n, i)
      BY <2>2, Listing, Zenon
    <3>. QED
      BY <3>1, Zenon DEF Meets
  <2>. HIDE DEF list
  <2>3. ASSUME NEW x \in TxtList(sub = "active", list), Standard(x[3])
        PROVE  x \in ClashList(sub = "active", list) /\ Proxy(x[3]) = CreateLink(x[3])
    <3>1. x \in list /\ sub = "active" /\ CreateLink(x[3]) # NoLink
      BY <2>3, Zenon DEF TxtList, Bad
    <3>. QED
      BY <2>2, <2>3, <3>1, SameTransport, Zenon DEF ClashList
  <2>. QED
    BY <2>1, <2>3
<1>. QED
  BY <1>1, PTL

-----------------------------------------------------------------------------
\* Additions leave what was listed, and list nothing new of old nodes and
\* connections.
LEMMA ListGrows ==
  ASSUME NEW tags, NEW e, OnlyAdds
  PROVE  /\ InboundsList(tags, e) \subseteq InboundsList(tags, e)'
         /\ \A x \in InboundsList(tags, e)' :
              conns[x[1]] # Absent /\ nodes[x[2]] # Absent => x \in InboundsList(tags, e)
<1>1. \A c \in Conns : conns[c] # Absent => conns'[c] = conns[c]
  BY Zenon DEF OnlyAdds
<1>2. \A n \in Nodes : nodes[n] # Absent => nodes'[n] = nodes[n]
  BY Zenon DEF OnlyAdds
<1>3. \A c, n, i : Meets(tags, e, c, n, i) => Meets(tags, e, c, n, i)'
  BY <1>1, <1>2, Zenon DEF Meets, Live, InEnv
<1>4. \A c, n, i : Meets(tags, e, c, n, i)' /\ conns[c] # Absent /\ nodes[n] # Absent =>
                   Meets(tags, e, c, n, i)
  BY <1>1, <1>2, Zenon DEF Meets, Live, InEnv
<1>5. InboundsList(tags, e) \subseteq InboundsList(tags, e)'
  BY <1>3, Listing, Zenon
<1>6. ASSUME NEW x \in InboundsList(tags, e)', conns[x[1]] # Absent, nodes[x[2]] # Absent
      PROVE  x \in InboundsList(tags, e)
  <2>1. PICK c, n, i : x = <<c, n, i>> /\ Meets(tags, e, c, n, i)'
    BY <1>6, Listing, Zenon
  <2>2. x[1] = c /\ x[2] = n
    BY <2>1, Zenon
  <2>3. Meets(tags, e, c, n, i)
    BY <1>4, <1>6, <2>1, <2>2, Zenon
  <2>. QED
    BY <2>1, <2>3, Listing, Zenon
<1>. QED
  BY <1>5, <1>6, Zenon

\* New connections and nodes take no link from a subscriber, unless one of them has
\* none and the text answer fails as a whole (subscription_link_handler,
\* wireguard_connections_handler).
THEOREM AdditionsOnlyAdd == LinksSpec => AdditionsKeepLinks
<1>. DEFINE Kept(e) ==
       /\ LinkResponse("Xray", e, "Clash").list \subseteq LinkResponse("Xray", e, "Clash")'.list
       /\ ProtoConnections("Wireguard", e) \subseteq ProtoConnections("Wireguard", e)'
       /\ \A p \in {"Xray", "Hysteria2"} :
            \/ LinkResponse(p, e, "Txt").list \subseteq LinkResponse(p, e, "Txt")'.list
            \/ \E x \in InboundsList(TagReqs[p], e)' :
                 CreateLink(x[3]) = NoLink /\ (conns[x[1]] = Absent \/ nodes[x[2]] = Absent)
<1>1. ASSUME OnlyAdds, NEW e \in Envs
      PROVE  Kept(e)
  <2>0. sub' = sub
    BY <1>1, Zenon DEF OnlyAdds
  <2>1. LinkResponse("Xray", e, "Clash").list \subseteq LinkResponse("Xray", e, "Clash")'.list
    <3>1. LinkResponse("Xray", e, "Clash").list =
            ClashList(sub = "active", InboundsList(TagReqs["Xray"], e))
      BY Answers, Zenon DEF Answered
    <3>2. LinkResponse("Xray", e, "Clash")'.list =
            ClashList(sub' = "active", InboundsList(TagReqs["Xray"], e)')
      BY AnswersNext, Zenon DEF Answered
    <3>. QED
      BY <1>1, <2>0, <3>1, <3>2, ListGrows, Zenon DEF ClashList
  <2>2. ProtoConnections("Wireguard", e) \subseteq ProtoConnections("Wireguard", e)'
    BY <1>1, <2>0, ListGrows, Zenon DEF ProtoConnections
  <2>3. ASSUME NEW p \in {"Xray", "Hysteria2"}
        PROVE  \/ LinkResponse(p, e, "Txt").list \subseteq LinkResponse(p, e, "Txt")'.list
               \/ \E x \in InboundsList(TagReqs[p], e)' :
                    CreateLink(x[3]) = NoLink /\ (conns[x[1]] = Absent \/ nodes[x[2]] = Absent)
    <3>1. LinkResponse(p, e, "Txt").list = TxtList(sub = "active", InboundsList(TagReqs[p], e))
      BY <2>3, Answers, Zenon DEF Answered
    <3>2. LinkResponse(p, e, "Txt")'.list = TxtList(sub' = "active", InboundsList(TagReqs[p], e)')
      BY <2>3, AnswersNext, Zenon DEF Answered
    <3>3. /\ InboundsList(TagReqs[p], e) \subseteq InboundsList(TagReqs[p], e)'
          /\ \A x \in InboundsList(TagReqs[p], e)' :
               conns[x[1]] # Absent /\ nodes[x[2]] # Absent => x \in InboundsList(TagReqs[p], e)
      BY <1>1, ListGrows, Zenon
    <3>. QED
      BY <2>0, <3>1, <3>2, <3>3, Zenon DEF TxtList, Bad
  <2>. QED
    BY <2>1, <2>2, <2>3, Zenon
<1>2. [OnlyAdds => \A e \in Envs : Kept(e)]_linksVars
  BY <1>1, Zenon
<1>. QED
  BY <1>2, PTL DEF AdditionsKeepLinks

-----------------------------------------------------------------------------
(* ConnForms.                                                              *)

\* The characters a name is made of.
Letters == DOMAIN LowerOf

\* The environment that parsing the text of env gives.
Lowered(env) == Env(env.custom, ToLowercase(env.name))
\* An environment in memory.
EnvForms == [custom : BOOLEAN, name : Seq(Letters)]

\* An environment that is not custom has a built-in name.
Named(env) == env \in EnvForms /\ (~env.custom => \E b \in Builtin : env.name = <<b>>)

-----------------------------------------------------------------------------
\* Lower case is kept by what is in lower case and by a first letter.
LEMMA Lowers ==
  ASSUME NEW s \in Seq(Letters)
  PROVE  /\ ToLowercase(s) \in Seq(Letters) /\ Len(ToLowercase(s)) = Len(s)
         /\ \A i \in 1..Len(s) : ToLowercase(s)[i] = LowerOf[s[i]]
         /\ ToLowercase(ToLowercase(s)) = ToLowercase(s)
<1>1. \A x \in Letters : LowerOf[x] \in Letters /\ LowerOf[LowerOf[x]] = LowerOf[x]
  BY FormsAssumption, Zenon DEF Letters
<1>2. DOMAIN s = 1..Len(s) /\ \A i \in 1..Len(s) : s[i] \in Letters
  OBVIOUS
<1>3. ToLowercase(s) = [i \in 1..Len(s) |-> LowerOf[s[i]]]
  BY <1>2, Zenon DEF ToLowercase
<1>. DEFINE t == [i \in 1..Len(s) |-> LowerOf[s[i]]]
<1>4. t \in Seq(Letters) /\ Len(t) = Len(s)
  BY <1>1, <1>2
<1>5. DOMAIN t = 1..Len(s) /\ \A i \in 1..Len(s) : t[i] = LowerOf[s[i]]
  BY Zenon
<1>. HIDE DEF t
<1>6. [i \in DOMAIN t |-> LowerOf[t[i]]] = t
  BY <1>1, <1>2, <1>4, <1>5
<1>. QED
  BY <1>3, <1>4, <1>5, <1>6, Zenon DEF ToLowercase, t

\* A text that begins with one letter.
LEMMA Prefixed ==
  ASSUME NEW x, NEW S, NEW s \in Seq(S)
  PROVE  /\ Len(<<x>> \o s) = Len(s) + 1 /\ (<<x>> \o s)[1] = x
         /\ \A i \in 1..Len(s) : (<<x>> \o s)[i + 1] = s[i]
         /\ <<x>> \o s # <<>> /\ Head(<<x>> \o s) = x /\ Tail(<<x>> \o s) = s
<1>. DEFINE T == S \cup {x}
<1>1. <<x>> \in Seq(T) /\ s \in Seq(T)
  OBVIOUS
<1>2. <<x>> \o s \in Seq(T) /\ Len(<<x>> \o s) = Len(s) + 1 /\ (<<x>> \o s)[1] = x
      /\ \A i \in 1..Len(s) : (<<x>> \o s)[i + 1] = s[i]
  BY <1>1
<1>. HIDE DEF T
<1>3. PICK w : w = <<x>> \o s
  BY Zenon
<1>4. w \in Seq(T) /\ Len(w) = Len(s) + 1 /\ w[1] = x /\ \A i \in 1..Len(s) : w[i + 1] = s[i]
  BY <1>2, <1>3, Zenon
<1>5. w # <<>> /\ Head(w) = x
  BY <1>1, <1>4
<1>6. Tail(w) = s
  <2>1. Tail(w) \in Seq(T) /\ Len(Tail(w)) = Len(s) /\ \A i \in 1..Len(s) : Tail(w)[i] = w[i + 1]
    BY <1>1, <1>4, <1>5
  <2>. QED
    BY <1>1, <1>4, <2>1
<1>. QED
  BY <1>2, <1>3, <1>5, <1>6, Zenon

\* The lower-case form of a custom environment's text.
LEMMA LowerPrefixed ==
  ASSUME NEW s \in Seq(Letters)
  PROVE  /\ <<"custom">> \o s \in Seq(Letters)
         /\ ToLowercase(<<"custom">> \o s) = <<"custom">> \o ToLowercase(s)
<1>1. "custom" \in Letters /\ LowerOf["custom"] = "custom"
  BY FormsAssumption, Zenon DEF Letters
<1>2. PICK t : t = ToLowercase(s)
  BY Zenon
<1>3. t \in Seq(Letters) /\ Len(t) = Len(s) /\ \A i \in 1..Len(s) : t[i] = LowerOf[s[i]]
  BY <1>2, Lowers, Zenon
<1>4. PICK w : w = <<"custom">> \o s
  BY Zenon
<1>5. w \in Seq(Letters) /\ Len(w) = Len(s) + 1 /\ w[1] = "custom"
      /\ \A i \in 1..Len(s) : w[i + 1] = s[i]
  BY <1>1, <1>4, Prefixed
<1>6. PICK v : v = <<"custom">> \o t
  BY Zenon
<1>7. v \in Seq(Letters) /\ Len(v) = Len(s) + 1 /\ v[1] = "custom"
      /\ \A i \in 1..Len(s) : v[i + 1] = t[i]
  BY <1>1, <1>3, <1>6, Prefixed
<1>8. PICK u : u = ToLowercase(w)
  BY Zenon
<1>9. u \in Seq(Letters) /\ Len(u) = Len(s) + 1 /\ \A i \in 1..Len(w) : u[i] = LowerOf[w[i]]
  BY <1>5, <1>8, Lowers, Zenon
<1>10. \A i \in 1..Len(u) : u[i] = v[i]
  <2>. SUFFICES ASSUME NEW i \in 1..Len(u)
                PROVE  u[i] = v[i]
    BY Zenon
  <2>1. CASE i = 1
    BY <1>1, <1>5, <1>7, <1>9, <2>1, Zenon
  <2>2. CASE i # 1
    <3>1. i - 1 \in 1..Len(s) /\ i = (i - 1) + 1 /\ i \in 1..Len(w)
      BY <1>5, <1>9, <2>2
    <3>2. w[i] = s[i - 1] /\ v[i] = t[i - 1]
      BY <1>5, <1>7, <3>1, Zenon
    <3>. QED
      BY <1>3, <1>9, <3>1, <3>2, Zenon
  <2>. QED
    BY <2>1, <2>2, Zenon
<1>11. u = v
  BY <1>7, <1>9, <1>10
<1>. QED
  BY <1>2, <1>4, <1>5, <1>6, <1>8, <1>11, Zenon

\* What as_str writes, from_str reads again but for the case of a custom name.
LEMMA RoundTrip ==
  ASSUME NEW env, Named(env)
  PROVE  Parses(ToLowercase(EnvText(env))) /\ ParseEnv(EnvText(env)) = Lowered(env)
<1>0. env.name \in Seq(Letters) /\ env.custom \in BOOLEAN
  BY Zenon DEF Named, EnvForms
<1>1. CASE ~env.custom
  <2>1. PICK b \in Builtin : env.name = <<b>>
    BY <1>1, Zenon DEF Named
  <2>2. b \in Letters /\ LowerOf[b] = b
    BY FormsAssumption, Zenon DEF Letters
  <2>3. ToLowercase(<<b>>) = <<b>>
    BY <2>2 DEF ToLowercase
  <2>. QED
    BY <1>0, <1>1, <2>1, <2>3, Zenon DEF Parses, ParseEnv, EnvText, Lowered, Env
<1>2. CASE env.custom
  <2>. DEFINE t == ToLowercase(env.name)
              w == <<"custom">> \o env.name
  <2>1. "custom" \notin Builtin
    BY FormsAssumption, Zenon
  <2>2. t \in Seq(Letters)
    BY <1>0, Lowers, Zenon
  <2>3. (<<"custom">> \o t)[1] = "custom"
    BY <2>2, Prefixed, Zenon
  <2>4. ToLowercase(w) = <<"custom">> \o t
    BY <1>0, LowerPrefixed, Zenon
  <2>. HIDE DEF t
  <2>5. ASSUME NEW b \in Builtin, <<"custom">> \o t = <<b>>
        PROVE  FALSE
    <3>1. <<b>>[1] = b
      BY Zenon
    <3>. QED
      BY <2>1, <2>3, <2>5, <3>1, Zenon
  <2>6. <<"custom">> \o t # <<>> /\ Head(<<"custom">> \o t) = "custom" /\ Tail(<<"custom">> \o t) = t
    BY <2>2, Prefixed, Zenon
  <2>7. EnvText(env) = w
    BY <1>2, Zenon DEF EnvText
  <2>8. Parses(ToLowercase(w)) /\ ParseEnv(w) = Env(TRUE, t)
    BY <2>4, <2>5, <2>6, Zenon DEF Parses, ParseEnv
  <2>. QED
    BY <1>0, <1>2, <2>7, <2>8, Zenon DEF Lowered, Env, t
<1>. QED
  BY <1>0, <1>1, <1>2, Zenon

\* Parsing again changes nothing, and keeps what an environment is.
LEMMA LoweredIs ==
  ASSUME NEW env, Named(env)
  PROVE  /\ Named(Lowered(env)) /\ Lowered(Lowered(env)) = Lowered(env)
         /\ ToLowercase(EnvText(Lowered(env))) = ToLowercase(EnvText(env))
         /\ LowerName(env) <=> env = Lowered(env)
<1>0. env.name \in Seq(Letters) /\ env.custom \in BOOLEAN /\ env = Env(env.custom, env.name)
  BY Zenon DEF Named, EnvForms, Env
<1>1. PICK s : s = ToLowercase(env.name)
  BY Zenon
<1>2. s \in Seq(Letters) /\ ToLowercase(s) = s
  BY <1>0, <1>1, Lowers, Zenon
<1>3. Lowered(env) = [custom |-> env.custom, name |-> s]
  BY <1>1, Zenon DEF Lowered, Env
<1>4. ASSUME NEW b \in Builtin, env.name = <<b>>
      PROVE  s = <<b>>
  <2>1. b \in Letters /\ LowerOf[b] = b
    BY FormsAssumption, Zenon DEF Letters
  <2>. QED
    BY <1>1, <1>4, <2>1 DEF ToLowercase
<1>5. Named(Lowered(env))
  <2>1. Lowered(env) \in EnvForms /\ Lowered(env).custom = env.custom /\ Lowered(env).name = s
    BY <1>0, <1>2, <1>3 DEF EnvForms
  <2>. QED
    BY <1>4, <2>1, Zenon DEF Named
<1>6. Lowered(Lowered(env)) = Lowered(env)
  BY <1>2, <1>3, Zenon DEF Lowered, Env
<1>7. LowerName(env) <=> env = Lowered(env)
  BY <1>0, <1>1, <1>3 DEF LowerName, Env
<1>8. ToLowercase(EnvText(Lowered(env))) = ToLowercase(EnvText(env))
  <2>1. CASE env.custom
    <3>1. EnvText(env) = <<"custom">> \o env.name /\ EnvText(Lowered(env)) = <<"custom">> \o s
      BY <1>3, <2>1 DEF EnvText
    <3>. QED
      BY <1>0, <1>1, <1>2, <3>1, LowerPrefixed, Zenon
  <2>2. CASE ~env.custom
    <3>1. EnvText(env) = env.name /\ EnvText(Lowered(env)) = s
      BY <1>3, <2>2 DEF EnvText
    <3>. QED
      BY <1>1, <1>2, <3>1, Zenon
  <2>. QED
    BY <2>1, <2>2, Zenon
<1>. QED
  BY <1>5, <1>6, <1>7, <1>8, Zenon

-----------------------------------------------------------------------------
(* Who hears of a connection.                                              *)

\* The forms the proto of a connection made with a tag takes.
ProtoOf(p, tag) ==
  \/ p = NewProto(tag)
  \/ tag = "Mtproto" /\ p = Proto("Xray", tag, "none")

\* The nodes that use a connection of the tag, were they all to hear of it.
Usable(tag) == tag \in XrayTags \cup {"Wireguard", "Shadowsocks"}

\* Who hears of a connection of the tag in an environment.
Servers(env, tag) ==
  IF tag = "Hysteria2" THEN {AuthService}
  ELSE {e \in NodeEnvs : e = env /\ env = Lowered(env) /\ Usable(tag)}

\* A text is a prefix of one as long exactly when it is that one.
LEMMA WholePrefix ==
  ASSUME NEW S, NEW s \in Seq(S), NEW p \in Seq(S), Len(p) = Len(s)
  PROVE  StartsWith(s, p) <=> s = p
BY DEF StartsWith

\* The environments of requests and nodes.
LEMMA DeserializeNamed ==
  ASSUME NEW text \in Texts
  PROVE  Named(Deserialize(text))
<1>1. text \in Seq(Letters)
  BY FormsAssumption, Zenon DEF Letters
<1>. QED
  BY <1>1, Zenon DEF Deserialize, Env, Named, EnvForms

\* A node hears of a connection exactly when its environment is that of the
\* connection, in lower case: the text is as long as the node's own topic.
LEMMA Accepted ==
  ASSUME NEW env, Named(env), NEW e
  PROVE  NodeAccepts(e, TopicText(Updates(env))) <=> e = env /\ env = Lowered(env)
<1>. DEFINE text == <<"updates-">> \o EnvText(env)
<1>0. EnvText(env) \in Seq(Letters) /\ env.name \in Seq(Letters) /\ env.custom \in BOOLEAN
  <2>1. env.name \in Seq(Letters) /\ env.custom \in BOOLEAN
    BY Zenon DEF Named, EnvForms
  <2>. QED
    BY <2>1, LowerPrefixed, Zenon DEF EnvText
<1>1. TopicText(Updates(env)) = text /\ text # <<"auth">> /\ Tail(text) = EnvText(env)
  <2>1. Updates(env) # Auth /\ Updates(env).env = env
    BY Zenon DEF Updates, Auth
  <2>2. text[1] = "updates-" /\ Tail(text) = EnvText(env)
    BY <1>0, Prefixed
  <2>3. <<"auth">>[1] = "auth"
    BY Zenon
  <2>. QED
    BY <2>1, <2>2, <2>3, Zenon DEF TopicText
<1>. HIDE DEF text
<1>2. ParseTopic(text) = Updates(Lowered(env))
  BY <1>1, RoundTrip, Zenon DEF ParseTopic
<1>3. \A d : Updates(d) = Updates(e) <=> d = e
  BY Zenon DEF Updates
<1>4. NodeAccepts(e, text) <=> StartsWith(text, TopicText(Updates(e))) /\ e = Lowered(env)
  BY <1>2, <1>3, Zenon DEF NodeAccepts
<1>5. StartsWith(text, TopicText(Updates(Lowered(env)))) <=> env = Lowered(env)
  <2>1. PICK low : low = Lowered(env)
    BY Zenon
  <2>2. /\ Named(low) /\ low = [custom |-> env.custom, name |-> ToLowercase(env.name)]
        /\ env = [custom |-> env.custom, name |-> env.name]
    BY <2>1, LoweredIs, Zenon DEF Lowered, Env, Named, EnvForms
  <2>3. low.name \in Seq(Letters) /\ Len(low.name) = Len(env.name) /\ low.custom = env.custom
    BY <1>0, <2>2, Lowers, Zenon
  <2>4. PICK p : p = <<"updates-">> \o EnvText(low)
    BY Zenon
  <2>5. TopicText(Updates(low)) = p
    BY <2>4, Zenon DEF TopicText, Updates, Auth
  <2>6. EnvText(low) \in Seq(Letters) /\ Len(EnvText(low)) = Len(EnvText(env))
        /\ (EnvText(low) = EnvText(env) => low.name = env.name)
    <3>1. CASE env.custom
      <4>1. EnvText(env) = <<"custom">> \o env.name /\ EnvText(low) = <<"custom">> \o low.name
        BY <2>3, <3>1, Zenon DEF EnvText
      <4>2. /\ <<"custom">> \o low.name \in Seq(Letters)
            /\ Len(<<"custom">> \o low.name) = Len(low.name) + 1
            /\ Tail(<<"custom">> \o low.name) = low.name
        <5>1. <<"custom">> \o low.name \in Seq(Letters)
          BY <2>3, LowerPrefixed, Zenon
        <5>. QED
          BY <2>3, <5>1, Prefixed
      <4>3. /\ Len(<<"custom">> \o env.name) = Len(env.name) + 1
            /\ Tail(<<"custom">> \o env.name) = env.name
        BY <1>0, Prefixed
      <4>4. Tail(EnvText(low)) = low.name /\ Tail(EnvText(env)) = env.name
        BY <4>1, <4>2, <4>3, Zenon
      <4>5. EnvText(low) \in Seq(Letters) /\ Len(EnvText(low)) = Len(EnvText(env))
        BY <2>3, <4>1, <4>2, <4>3, Zenon
      <4>. QED
        BY <4>4, <4>5, Zenon
    <3>2. CASE ~env.custom
      BY <2>3, <3>2, Zenon DEF EnvText
    <3>. QED
      BY <3>1, <3>2, Zenon
  <2>7. /\ text \in Seq(Letters \cup {"updates-"}) /\ p \in Seq(Letters \cup {"updates-"})
        /\ Len(p) = Len(text) /\ Tail(p) = EnvText(low)
    <3>1. Len(text) = Len(EnvText(env)) + 1
      BY <1>0, Prefixed DEF text
    <3>2. Len(p) = Len(EnvText(low)) + 1 /\ Tail(p) = EnvText(low)
      BY <2>4, <2>6, Prefixed, Zenon
    <3>3. ASSUME NEW x \in Seq(Letters)
          PROVE  <<"updates-">> \o x \in Seq(Letters \cup {"updates-"})
      OBVIOUS
    <3>4. text \in Seq(Letters \cup {"updates-"})
      BY <1>0, <3>3, Zenon DEF text
    <3>5. p \in Seq(Letters \cup {"updates-"})
      BY <2>4, <2>6, <3>3, Zenon
    <3>. QED
      BY <2>6, <3>1, <3>2, <3>4, <3>5, Zenon
  <2>8. StartsWith(text, p) <=> text = p
    BY <2>7, WholePrefix, Zenon
  <2>9. text = p => low = env
    BY <1>1, <2>2, <2>6, <2>7, Zenon
  <2>10. low = env => text = p
    BY <2>4, Zenon DEF text
  <2>. QED
    BY <2>1, <2>5, <2>8, <2>9, <2>10, Zenon
<1>. QED
  BY <1>1, <1>4, <1>5, Zenon

\* A message about a connection reaches its servers and nobody else.
LEMMA HeardBy ==
  ASSUME NEW c, NEW tag \in Tags, ProtoOf(c.proto, tag), Named(c.env)
  PROVE  Hears(TopicText(TopicOf(c)), c) = Servers(c.env, tag)
<1>1. /\ c.proto.tag = tag
      /\ DataOf(c.proto, "Hysteria2") # "none" <=> tag = "Hysteria2"
      /\ NodeHandles(Message(c)) <=> Usable(tag)
  BY DEF ProtoOf, NewProto, Proto, DataOf, NodeHandles, Message, Usable, Tags, XrayTags
<1>2. CASE tag = "Hysteria2"
  <2>1. TopicText(TopicOf(c)) = <<"auth">> /\ Message(c).token # "none"
    BY <1>1, <1>2, Zenon DEF TopicOf, TopicText, Message
  <2>. QED
    BY <1>2, <2>1, Zenon DEF Hears, Servers
<1>3. CASE tag # "Hysteria2"
  <2>1. TopicOf(c) = Updates(c.env)
    BY <1>1, <1>3, Zenon DEF TopicOf
  <2>2. TopicText(Updates(c.env)) # <<"auth">>
    <3>1. EnvText(c.env) \in Seq(Letters)
      BY LowerPrefixed, Zenon DEF EnvText, Named, EnvForms
    <3>2. (<<"updates-">> \o EnvText(c.env))[1] = "updates-" /\ <<"auth">>[1] = "auth"
      BY <3>1, Prefixed, Zenon
    <3>. QED
      BY <3>2, Zenon DEF TopicText, Updates, Auth
  <2>3. Hears(TopicText(TopicOf(c)), c) =
          {e \in NodeEnvs : NodeAccepts(e, TopicText(Updates(c.env))) /\ NodeHandles(Message(c))}
    BY <2>1, <2>2, Zenon DEF Hears
  <2>4. \A e : NodeAccepts(e, TopicText(Updates(c.env))) <=> e = c.env /\ c.env = Lowered(c.env)
    BY Accepted, Zenon
  <2>. QED
    BY <1>1, <1>3, <2>3, <2>4, Zenon DEF Servers
<1>. QED
  BY <1>2, <1>3, Zenon

-----------------------------------------------------------------------------
(* The invariant.                                                          *)

\* The row of a connection, deleted or not.
RowFor(c, deleted) ==
  [env |-> EnvText(c.env), tag |-> c.proto.tag, wg |-> DataOf(c.proto, "Wireguard"),
   password |-> DataOf(c.proto, "Shadowsocks"), token |-> DataOf(c.proto, "Hysteria2"),
   deleted |-> deleted]

\* Whatever syncs have done, the connection is the one that was made but for the
\* case of its environment and the variant of Mtproto; its row is that of what
\* was made.
SameConnection ==
  /\ Named(made.env) /\ made.proto.tag \in Tags /\ made.proto = NewProto(made.proto.tag)
  /\ conn \in [env : {made.env, Lowered(made.env)}, proto : {conn.proto}, deleted : BOOLEAN]
  /\ ProtoOf(conn.proto, made.proto.tag)
  /\ row = RowFor(made, conn.deleted)

\* The environment has no name in the parsed topics: it is not in lower case.
Unheard == made.env # Lowered(made.env) /\ made.proto.tag # "Hysteria2"

\* Nobody serves a connection who would not hear of its deletion, but for the nodes of
\* an environment that is not in lower case.
ServedAsHeard ==
  LET all == Servers(conn.env, made.proto.tag) IN
  /\ ~Unheard => serving = IF conn.deleted THEN {} ELSE all
  /\ Unheard => serving \subseteq {made.env} \cup (IF conn.deleted THEN {} ELSE all)

\* The inductive invariant of ConnForms.
FormsInv == SameConnection /\ ServedAsHeard

\* What hears of the connection, in whatever form it is now.
LEMMA ConnHeard ==
  ASSUME SameConnection
  PROVE  /\ Named(conn.env)
         /\ Hears(TopicText(TopicOf(conn)), conn) = Servers(conn.env, made.proto.tag)
<1>1. Named(conn.env)
  BY LoweredIs, Zenon DEF SameConnection
<1>. QED
  BY <1>1, HeardBy, Zenon DEF SameConnection

\* A new connection.
LEMMA FormsStart == FormsInit => FormsInv
<1>. SUFFICES ASSUME FormsInit
              PROVE  FormsInv
  BY Zenon
<1>1. PICK text \in Texts, tag \in Tags :
        /\ made = [env |-> Deserialize(text), proto |-> NewProto(tag), deleted |-> FALSE]
        /\ conn = made
        /\ row = ToRow(made)
        /\ serving = IF made.proto.variant = "Mtproto" THEN {}
                     ELSE Hears(TopicText(TopicOf(made)), made)
  BY Zenon DEF FormsInit
<1>2. made.env = Deserialize(text) /\ made.proto = NewProto(tag) /\ made.deleted = FALSE
  BY <1>1, Zenon
<1>3. made.proto.tag = tag
  BY <1>2 DEF NewProto, Proto
<1>4. SameConnection
  <2>1. row = RowFor(made, conn.deleted)
    BY <1>1, <1>2, Zenon DEF ToRow, RowFor
  <2>. QED
    BY <1>1, <1>2, <1>3, <2>1, DeserializeNamed, Zenon DEF SameConnection, ProtoOf
<1>5. made.proto.variant = "Mtproto" => Servers(made.env, tag) = {}
  BY <1>2 DEF NewProto, Proto, Servers, Usable, XrayTags, Tags
<1>6. serving = Servers(made.env, tag)
  BY <1>1, <1>3, <1>4, <1>5, ConnHeard, Zenon
<1>. QED
  BY <1>1, <1>2, <1>3, <1>4, <1>6, Zenon DEF FormsInv, ServedAsHeard

\* What a sync makes of the row.
LEMMA Loaded ==
  ASSUME SameConnection
  PROVE  /\ ~Unloadable(row)
         /\ FromRow(row) = [env |-> Lowered(made.env), proto |-> FromRow(row).proto,
                            deleted |-> conn.deleted]
         /\ ProtoOf(FromRow(row).proto, made.proto.tag)
<1>1. PICK tag \in Tags : made.proto = NewProto(tag) /\ made.proto.tag = tag
  BY Zenon DEF SameConnection
<1>2. /\ row.env = EnvText(made.env) /\ row.tag = tag /\ row.deleted = conn.deleted
      /\ row.wg = DataOf(made.proto, "Wireguard")
      /\ row.password = DataOf(made.proto, "Shadowsocks")
      /\ row.token = DataOf(made.proto, "Hysteria2")
  BY <1>1, Zenon DEF SameConnection, RowFor
<1>3. tag \in {"Wireguard", "Shadowsocks", "Hysteria2"} => ColumnOf(row, tag) = "some"
  BY <1>1, <1>2 DEF ColumnOf, DataOf, NewProto, Proto, XrayTags
<1>4. ~Unloadable(row)
  BY <1>2, <1>3, Zenon DEF Unloadable
<1>5. ParseEnv(row.env) = Lowered(made.env)
  BY <1>2, RoundTrip, Zenon DEF SameConnection
<1>6. ProtoOf(FromRow(row).proto, tag)
  BY <1>2, <1>3, Zenon DEF FromRow, ProtoOf, NewProto, Proto, Tags, XrayTags
<1>. QED
  BY <1>1, <1>2, <1>4, <1>5, <1>6, Zenon DEF FromRow

\* Deleting and restoring change the mark in Cache and row alike.
LEMMA MarkKeeps ==
  ASSUME SameConnection, NEW d \in BOOLEAN, UNCHANGED made,
         row' = [row EXCEPT !.deleted = d], conn' = [conn EXCEPT !.deleted = d]
  PROVE  SameConnection' /\ conn'.deleted = d /\ conn'.env = conn.env
<1>1. conn' \in [env : {made.env, Lowered(made.env)}, proto : {conn.proto}, deleted : BOOLEAN]
      /\ conn'.deleted = d /\ conn'.env = conn.env /\ conn'.proto = conn.proto
  BY Zenon DEF SameConnection
<1>2. row' = RowFor(made, d)
  BY Zenon DEF SameConnection, RowFor
<1>. QED
  BY <1>1, <1>2, Zenon DEF SameConnection, RowFor

\* Every step keeps the invariant.
LEMMA FormsStep == FormsInv /\ [FormsNext]_formsVars => FormsInv'
<1>. SUFFICES ASSUME FormsInv, [FormsNext]_formsVars
              PROVE  FormsInv'
  BY Zenon
<1>. USE DEF FormsInv
<1>0. Hears(TopicText(TopicOf(conn)), conn) = Servers(conn.env, made.proto.tag)
  BY ConnHeard, Zenon
<1>l. Lowered(Lowered(made.env)) = Lowered(made.env)
  BY LoweredIs, Zenon DEF SameConnection
<1>1. CASE DeleteConnection
  <2>1. SameConnection' /\ conn'.deleted = TRUE /\ made' = made
    BY <1>1, MarkKeeps, Zenon DEF DeleteConnection
  <2>2. serving' = serving \ Servers(conn.env, made.proto.tag) /\ conn.deleted = FALSE
    BY <1>0, <1>1, Zenon DEF DeleteConnection, SameConnection
  <2>3. serving' \subseteq {made.env} /\ (~Unheard => serving' = {})
    BY <2>2, Zenon DEF ServedAsHeard
  <2>. QED
    BY <2>1, <2>3, Zenon DEF ServedAsHeard, Unheard
<1>2. CASE RestoreConnection
  <2>1. SameConnection' /\ conn'.deleted = FALSE /\ conn'.env = conn.env /\ made' = made
    BY <1>2, MarkKeeps, Zenon DEF RestoreConnection
  <2>2. serving' = serving \cup Servers(conn.env, made.proto.tag) /\ conn.deleted
    BY <1>0, <1>2, Zenon DEF RestoreConnection
  <2>3. /\ ~Unheard => serving' = Servers(conn.env, made.proto.tag)
        /\ Unheard => serving' \subseteq {made.env} \cup Servers(conn.env, made.proto.tag)
    BY <2>2, Zenon DEF ServedAsHeard
  <2>. QED
    BY <2>1, <2>3, Zenon DEF ServedAsHeard, Unheard
<1>3. CASE Sync
  <2>1. conn' = [env |-> Lowered(made.env), proto |-> FromRow(row).proto,
                 deleted |-> conn.deleted]
        /\ ProtoOf(FromRow(row).proto, made.proto.tag) /\ UNCHANGED <<made, row, serving>>
    BY <1>3, Loaded, Zenon DEF Sync
  <2>2. conn'.env = Lowered(made.env) /\ conn'.deleted = conn.deleted
        /\ conn'.proto = FromRow(row).proto
    BY <2>1, Zenon
  <2>3. SameConnection'
    BY <2>1, <2>2, Zenon DEF SameConnection
  <2>4. /\ Servers(conn.env, made.proto.tag) \subseteq Servers(Lowered(made.env), made.proto.tag)
        /\ ~Unheard => Servers(conn.env, made.proto.tag) = Servers(Lowered(made.env), made.proto.tag)
    BY <1>l, Zenon DEF Servers, SameConnection, Unheard
  <2>. QED
    BY <2>1, <2>2, <2>3, <2>4, Zenon DEF ServedAsHeard, Unheard
<1>4. ASSUME NEW s, Resync(s)
      PROVE  FormsInv'
  <2>1. SameConnection' /\ serving' = serving \cup {s} /\ UNCHANGED <<made, conn>> /\ ~conn.deleted
    BY <1>4, Zenon DEF Resync, SameConnection
  <2>2. /\ conn.proto.tag = made.proto.tag
        /\ NodeHandles(Message(conn)) <=> Usable(made.proto.tag)
        /\ Usable(made.proto.tag) => made.proto.tag # "Hysteria2"
    BY DEF SameConnection, ProtoOf, NewProto, Proto, DataOf, NodeHandles, Message, Usable, Tags,
           XrayTags
  <2>3. s = made.env \/ s \in Servers(conn.env, made.proto.tag)
    BY <1>4, <1>l, <2>2, Zenon DEF Resync, Servers, SameConnection
  <2>4. ~Unheard => s \in Servers(conn.env, made.proto.tag)
    BY <1>4, <1>l, <2>2, Zenon DEF Resync, Servers, SameConnection, Unheard
  <2>. QED
    BY <2>1, <2>3, <2>4, Zenon DEF ServedAsHeard, Unheard
<1>5. CASE UNCHANGED formsVars
  BY <1>5, Zenon DEF formsVars, SameConnection, ServedAsHeard, Unheard
<1>. QED
  BY <1>1, <1>2, <1>3, <1>4, <1>5, Zenon DEF FormsNext

\* It holds of every behaviour of ConnForms.
LEMMA FormsAlways == FormsSpec => []FormsInv
BY FormsStart, FormsStep, PTL DEF FormsSpec

\* However a connection is deleted, restored and loaded from its row, the row loads
\* again and Cache and row agree but for the case of a custom environment and the
\* Mtproto variant (ConnRow::from, Connection::try_from, get_state_from_db).
THEOREM RowsLoad == FormsSpec => []RowIsFaithful
<1>1. FormsInv => RowIsFaithful
  <2>. SUFFICES ASSUME FormsInv
                PROVE  RowIsFaithful
    BY Zenon
  <2>1. ~Unloadable(row)
    BY Loaded, Zenon DEF FormsInv
  <2>2. conn.proto.tag = made.proto.tag /\ (conn.proto # made.proto => made.proto.tag = "Mtproto")
    BY DEF FormsInv, SameConnection, ProtoOf, NewProto, Proto
  <2>3. conn.deleted = row.deleted
    BY Zenon DEF FormsInv, SameConnection, RowFor
  <2>4. conn.env # made.env => ~LowerName(made.env)
    BY LoweredIs, Zenon DEF FormsInv, SameConnection
  <2>5. ToLowercase(EnvText(conn.env)) = ToLowercase(EnvText(made.env))
    BY LoweredIs, Zenon DEF FormsInv, SameConnection
  <2>. QED
    BY <2>1, <2>2, <2>3, <2>4, <2>5, Zenon DEF RowIsFaithful
<1>. QED
  BY <1>1, FormsAlways, PTL

\* A live connection in a lower-case environment is served by exactly the nodes of that
\* environment, or by the auth service, and a deleted one by nobody, for any environment
\* names and any syncs and resyncs in between (Topic, run_subscriber,
\* get_connections_handler); one whose environment has upper-case letters stays, once
\* deleted, at most with the nodes of just that name.
THEOREM HeardByItsEnv == FormsSpec => []ServedByItsEnv
<1>1. FormsInv => ServedByItsEnv
  <2>. SUFFICES ASSUME FormsInv
                PROVE  ServedByItsEnv
    BY Zenon
  <2>0. /\ LowerName(made.env) <=> made.env = Lowered(made.env)
        /\ ParseEnv(EnvText(made.env)) = Lowered(made.env)
        /\ conn.env \in {made.env, Lowered(made.env)}
        /\ made.proto.tag # "Hysteria2" => (Usable(made.proto.tag) <=> made.proto.tag # "Mtproto")
    BY LoweredIs, RoundTrip, Zenon DEF FormsInv, SameConnection, Usable, Tags, XrayTags
  <2>1. CASE ~Unheard
    <3>1. serving = IF conn.deleted THEN {} ELSE Servers(conn.env, made.proto.tag)
      BY <2>1, Zenon DEF FormsInv, ServedAsHeard
    <3>2. LowerName(made.env) \/ made.proto.tag = "Hysteria2"
      BY <2>0, <2>1, Zenon DEF Unheard
    <3>3. Servers(conn.env, made.proto.tag)
            = IF made.proto.tag = "Hysteria2" THEN {AuthService}
              ELSE {env \in NodeEnvs : env = made.env /\ made.proto.tag # "Mtproto"}
      BY <2>0, <2>1, Zenon DEF Servers, Unheard
    <3>. QED
      BY <3>1, <3>2, <3>3, Zenon DEF ServedByItsEnv
  <2>2. CASE Unheard
    <3>1. serving \subseteq {made.env} \cup (IF conn.deleted THEN {} ELSE Servers(conn.env, made.proto.tag))
      BY <2>2, Zenon DEF FormsInv, ServedAsHeard
    <3>2. Servers(conn.env, made.proto.tag) \subseteq {made.env, Lowered(made.env)}
      BY <2>0, <2>2, Zenon DEF Servers, Unheard
    <3>3. ~(LowerName(made.env) \/ made.proto.tag = "Hysteria2")
      BY <2>0, <2>2, Zenon DEF Unheard
    <3>. QED
      BY <2>0, <3>1, <3>2, <3>3, Zenon DEF ServedByItsEnv
  <2>. QED
    BY <2>1, <2>2, Zenon
<1>. QED
  BY <1>1, FormsAlways, PTL

-----------------------------------------------------------------------------
(* Trial.                                                                  *)

\* The lines of the trial file and the requests under way.
Line == [who : People, open : BOOLEAN, whole : BOOLEAN]
Req == [who : People, at : Steps \ {"idle"}, left : 0..Slots]

\* Request r is under way for p.
Serving(r, p) == req[r] \in Req /\ req[r].who = p

\* The types of Trial's variables.
Types ==
  /\ req \in [Requests -> {NoReq} \cup Req]
  /\ store \subseteq People
  /\ file \in Seq(Line)
  /\ granted \in [People -> Nat]
  /\ mail \in [People -> 0..3]

\* Apart from people excused, one request serves a person; there is no trial before
\* its add_sub, and from then on the request goes on to save it, or has.
OneServed ==
  \A p \in People \ excused :
    /\ \A r, q \in Requests : Serving(r, p) /\ Serving(q, p) => r = q
    /\ granted[p] <= 1
    /\ \A r \in Requests : Serving(r, p) /\ req[r].at \in {"bonus", "sub"} => granted[p] = 0
    /\ granted[p] = 1 => \/ p \in store
                         \/ \E r \in Requests : Serving(r, p) /\ req[r].at \in {"conns", "save"}

\* Whoever is about to get a line is in the store already.
LineAfterMap == \A r \in Requests : req[r].at = "append" => req[r].who \in store

\* The people whom a request past add_sub serves, who have a line, are in the store
\* or are being mailed, have a trial.
GrantedFirst ==
  /\ \A r \in Requests : req[r].at \in {"conns", "save", "append"} => granted[req[r].who] > 0
  /\ \A i \in 1..Len(file) : granted[file[i].who] > 0
  /\ RefusedMeansGranted

\* The inductive invariant of Trial.
TInv == Types /\ OneServed /\ LineAfterMap /\ GrantedFirst

-----------------------------------------------------------------------------
\* NoReq is not being served.
LEMMA ReqShape ==
  /\ \A x \in Req : x # NoReq /\ x.at # "idle" /\ x.at \in Steps /\ x.who \in People
  /\ NoReq.at = "idle"
BY DEF Req, NoReq, Steps

\* A write changes nobody's name and adds none but the line's.
LEMMA AppendedShape ==
  ASSUME file \in Seq(Line), NEW line \in Line, NEW f \in Appended(line)
  PROVE  /\ f \in Seq(Line)
         /\ \A i \in 1..Len(f) : f[i].who = line.who \/ \E j \in 1..Len(file) : f[i].who = file[j].who
<1>1. CASE f = Append(file, line)
  <2>1. f \in Seq(Line) /\ Len(f) = Len(file) + 1 /\ f[Len(file) + 1] = line
        /\ \A i \in 1..Len(file) : f[i] = file[i]
    BY <1>1
  <2>. QED
    BY <2>1
<1>2. CASE file # <<>> /\ \E old \in {file, [file EXCEPT ![Len(file)].whole = FALSE]} :
             f = Append(old, [line EXCEPT !.whole = FALSE])
  <2>1. PICK old \in {file, [file EXCEPT ![Len(file)].whole = FALSE]} :
          f = Append(old, [line EXCEPT !.whole = FALSE])
    BY <1>2, Zenon
  <2>2. [line EXCEPT !.whole = FALSE] \in Line /\ [line EXCEPT !.whole = FALSE].who = line.who
    BY Zenon DEF Line
  <2>3. /\ old \in Seq(Line) /\ Len(old) = Len(file)
        /\ \A i \in 1..Len(file) : old[i].who = file[i].who
    <3>1. CASE old = file
      BY <3>1, Zenon
    <3>2. CASE old = [file EXCEPT ![Len(file)].whole = FALSE]
      <4>1. Len(file) \in 1..Len(file) /\ file[Len(file)] \in Line
        BY <1>2
      <4>2. [file[Len(file)] EXCEPT !.whole = FALSE] \in Line
            /\ [file[Len(file)] EXCEPT !.whole = FALSE].who = file[Len(file)].who
        BY <4>1, Zenon DEF Line
      <4>. QED
        BY <3>2, <4>1, <4>2
    <3>. QED
      BY <2>1, <3>1, <3>2, Zenon
  <2>. QED
    BY <2>1, <2>2, <2>3
<1>. QED
  BY <1>1, <1>2, Zenon DEF Appended

-----------------------------------------------------------------------------
(* Steps of the request that r serves.                                     *)

\* Goto keeps the person, and so does a connection less to create; End forgets them.
LEMMA MoveShape ==
  ASSUME Types, NEW r \in Requests, req[r].at # "idle"
  PROVE  /\ req[r] \in Req /\ req[r].who \in People
         /\ \A x : req' = [req EXCEPT ![r] = x]
                     => req'[r] = x /\ \A q \in Requests \ {r} : req'[q] = req[q]
         /\ \A a \in Steps \ {"idle"} :
              /\ [req[r] EXCEPT !.at = a] \in Req
              /\ [req[r] EXCEPT !.at = a].who = req[r].who
              /\ [req[r] EXCEPT !.at = a].at = a
<1>1. req[r] \in Req
  BY DEF Types, NoReq
<1>. QED
  BY <1>1, Zenon DEF Types, Req

\* Goto moves the request on.
LEMMA GotoShape ==
  ASSUME Types, NEW r \in Requests, req[r].at # "idle", NEW a \in Steps \ {"idle"}, Goto(r, a)
  PROVE  \E x \in Req : req' = [req EXCEPT ![r] = x] /\ x.who = req[r].who /\ x.at = a
<1> DEFINE x == [req[r] EXCEPT !.at = a]
<1>1. x \in Req /\ x.who = req[r].who /\ x.at = a
  BY MoveShape, Zenon
<1>2. req' = [req EXCEPT ![r] = x]
  BY Zenon DEF Goto
<1>. HIDE DEF x
<1>. QED
  BY <1>1, <1>2, Zenon

\* NoReq is no request.
LEMMA NoReqShape == NoReq \notin Req
BY ReqShape, Zenon

\* What a step of r other than add_sub may do without a second trial: whoever has a
\* trial is in the store before r is done with them, or excused.
LEMMA OneServedKept ==
  ASSUME Types, OneServed, NEW r \in Requests, req[r] \in Req,
         NEW x \in {NoReq} \cup Req, req' = [req EXCEPT ![r] = x],
         x \in Req => /\ x.who = req[r].who
                      /\ x.at \in {"bonus", "sub"} => req[r].at \in {"bonus", "sub"},
         req[r].at \in {"conns", "save"} =>
           \/ x \in Req /\ x.at \in {"conns", "save"}
           \/ req[r].who \in store' \cup excused',
         granted' = granted, store \subseteq store', excused \subseteq excused'
  PROVE  OneServed'
<1>0. req'[r] = x /\ \A q \in Requests \ {r} : req'[q] = req[q]
  BY Zenon DEF Types
<1>1. \A q \in Requests, p \in People : Serving(q, p)' => Serving(q, p)
  BY <1>0, ReqShape, Zenon DEF Serving
<1> SUFFICES ASSUME NEW p \in People, p \notin excused'
             PROVE  /\ \A q, s \in Requests : Serving(q, p)' /\ Serving(s, p)' => q = s
                    /\ granted[p] <= 1
                    /\ \A q \in Requests : Serving(q, p)' /\ req'[q].at \in {"bonus", "sub"}
                                             => granted[p] = 0
                    /\ granted[p] = 1 =>
                         \/ p \in store'
                         \/ \E q \in Requests : Serving(q, p)' /\ req'[q].at \in {"conns", "save"}
  BY Zenon DEF OneServed
<1>2. p \notin excused
  BY Zenon
<1>3. /\ \A q, s \in Requests : Serving(q, p)' /\ Serving(s, p)' => q = s
      /\ granted[p] <= 1
  BY <1>1, <1>2, Zenon DEF OneServed
<1>4. ASSUME NEW q \in Requests, Serving(q, p)', req'[q].at \in {"bonus", "sub"}
      PROVE  granted[p] = 0
  <2>1. Serving(q, p) /\ req[q].at \in {"bonus", "sub"}
    BY <1>0, <1>1, <1>4, Zenon DEF Serving
  <2>. QED
    BY <1>2, <2>1, Zenon DEF OneServed
<1>5. ASSUME granted[p] = 1, p \notin store'
      PROVE  \E q \in Requests : Serving(q, p)' /\ req'[q].at \in {"conns", "save"}
  <2>1. PICK q \in Requests : Serving(q, p) /\ req[q].at \in {"conns", "save"}
    BY <1>2, <1>5, Zenon DEF OneServed
  <2>2. CASE q = r
    BY <1>0, <1>5, <2>1, <2>2, Zenon DEF Serving
  <2>3. CASE q # r
    BY <1>0, <2>1, <2>3, Zenon DEF Serving
  <2>. QED
    BY <2>2, <2>3, Zenon
<1>. QED
  BY <1>3, <1>4, <1>5, Zenon

\* add_sub: the request has this person to itself, and they had no trial.
LEMMA OneServedAddSub ==
  ASSUME Types, OneServed, NEW r \in Requests, AddSub(r)
  PROVE  OneServed'
<1>p. PICK p \in People : p = req[r].who
  BY MoveShape, Zenon DEF AddSub
<1>0. req[r].at = "sub" /\ granted' = [granted EXCEPT ![p] = @ + 1] /\ store' = store
  BY <1>p, Zenon DEF AddSub
<1>1. req[r] \in Req
  BY <1>0, MoveShape, Zenon
<1>2. \A q \in Requests : q # r => req'[q] = req[q]
  BY Zenon DEF AddSub, Goto, End, Types
<1>3. \A d \in People : d # p => granted'[d] = granted[d]
  BY <1>0, Zenon DEF Types
<1>4. ASSUME NEW d \in People, d # p, d \notin excused'
      PROVE  OneServed!(d)'
  <2>1. \A q \in Requests : Serving(q, d)' <=> Serving(q, d)
    <3>1. ~Serving(r, d)
      BY <1>p, <1>4, Zenon DEF Serving
    <3>2. ~Serving(r, d)'
      <4>1. req'[r] = NoReq \/ req'[r] = [req[r] EXCEPT !.at = "conns"]
        BY Zenon DEF AddSub, Goto, End, Types
      <4>2. [req[r] EXCEPT !.at = "conns"].who = p
        BY <1>p, <1>0, MoveShape, Zenon DEF Steps
      <4>. QED
        BY <1>4, <4>1, <4>2, ReqShape, Zenon DEF Serving
    <3>. QED
      BY <1>2, <3>1, <3>2, Zenon DEF Serving
  <2>2. d \notin excused
    BY <1>4, Zenon DEF AddSub
  <2>3. \A q \in Requests : Serving(q, d) => q # r /\ req'[q] = req[q]
    BY <1>p, <1>2, <1>4, Zenon DEF Serving
  <2>. QED
    BY <1>0, <1>3, <1>4, <2>1, <2>2, <2>3, Zenon DEF OneServed
<1>5. ASSUME p \notin excused'
      PROVE  OneServed!(p)'
  <2>1. p \notin excused /\ Goto(r, "conns")
    BY <1>p, <1>5, Zenon DEF AddSub
  <2>2. req'[r] = [req[r] EXCEPT !.at = "conns"]
    BY <2>1, Zenon DEF Goto, Types
  <2>3. Serving(r, p)' /\ req'[r].at = "conns"
    BY <1>p, <1>0, <1>1, <2>2, MoveShape DEF Serving, Steps
  <2>4. Serving(r, p) /\ granted[p] = 0
    BY <1>p, <1>0, <1>1, <2>1, Zenon DEF Serving, OneServed
  <2>5. granted'[p] = 1
    BY <1>0, <2>4 DEF Types
  <2>6. \A q \in Requests : Serving(q, p)' => q = r
    BY <1>1, <1>2, <2>1, <2>4 DEF Serving, OneServed
  <2>. QED
    BY <2>3, <2>5, <2>6
<1>. QED
  BY <1>4, <1>5 DEF OneServed

\* The bonus, the connections, and errors before and between them: the stores stay,
\* and a request that gives up after add_sub excuses the person.
LEMMA PassingKeeps ==
  ASSUME TInv, NEW r \in Requests,
         \/ Bonus(r) \/ AddSubFails(r) \/ AddConn(r) \/ AddConnRefused(r) \/ AddConnDone(r)
  PROVE  TInv'
<1>0. /\ UNCHANGED <<store, file, granted, mail>> /\ excused \subseteq excused'
      /\ req[r].at \in {"bonus", "sub", "conns"}
  BY Zenon DEF Bonus, AddSubFails, AddConn, AddConnRefused, AddConnDone
<1>1. Types /\ req[r] \in Req /\ req[r].who \in People
  BY <1>0, MoveShape, Zenon DEF TInv
<1>2. PICK x \in {NoReq} \cup Req :
        /\ req' = [req EXCEPT ![r] = x]
        /\ x \in Req => /\ x.who = req[r].who
                        /\ x.at \in {"bonus", "sub"} => req[r].at \in {"bonus", "sub"}
                        /\ x.at \in {"conns", "save", "append"} => req[r].at = "conns"
                        /\ x.at # "append"
        /\ req[r].at \in {"conns", "save"} =>
             \/ x \in Req /\ x.at \in {"conns", "save"}
             \/ req[r].who \in excused'
  <2>1. CASE End(r) /\ (req[r].at = "conns" => req[r].who \in excused')
    BY <1>0, <2>1, NoReqShape, Zenon DEF End
  <2>2. CASE Bonus(r) /\ Goto(r, "sub")
    <3>1. req[r].at = "bonus" /\ "sub" \in Steps \ {"idle"}
      BY <2>2, Zenon DEF Bonus, Steps
    <3>2. PICK x \in Req : req' = [req EXCEPT ![r] = x] /\ x.who = req[r].who /\ x.at = "sub"
      BY <1>1, <2>2, <3>1, GotoShape, Zenon
    <3>. QED
      BY <3>1, <3>2, Zenon
  <2>3. CASE AddConn(r)
    <3>1. [req[r] EXCEPT !.left = @ - 1] \in Req
          /\ [req[r] EXCEPT !.left = @ - 1].who = req[r].who
          /\ [req[r] EXCEPT !.left = @ - 1].at = "conns"
      BY <1>1, <2>3, TrialAssumption DEF AddConn, Req
    <3>2. req' = [req EXCEPT ![r] = [req[r] EXCEPT !.left = @ - 1]] /\ req[r].at = "conns"
      BY <2>3, Zenon DEF AddConn
    <3>3. PICK x \in Req : req' = [req EXCEPT ![r] = x] /\ x.who = req[r].who /\ x.at = "conns"
      BY <3>1, <3>2, Zenon
    <3>. QED
      BY <3>2, <3>3, Zenon
  <2>4. CASE AddConnDone(r)
    <3>1. req[r].at = "conns" /\ "save" \in Steps \ {"idle"} /\ Goto(r, "save")
      BY <2>4, Zenon DEF AddConnDone, Steps
    <3>2. PICK x \in Req : req' = [req EXCEPT ![r] = x] /\ x.who = req[r].who /\ x.at = "save"
      BY <1>1, <3>1, GotoShape, Zenon
    <3>. QED
      BY <3>1, <3>2, Zenon
  <2>. QED
    BY <2>1, <2>2, <2>3, <2>4, Zenon DEF Bonus, AddSubFails, AddConnRefused
<1>3. req'[r] = x /\ \A q \in Requests \ {r} : req'[q] = req[q]
  BY <1>1, <1>2, Zenon DEF Types
<1>4. Types'
  BY <1>0, <1>1, <1>2, Zenon DEF Types
<1>5. OneServed'
  BY <1>0, <1>1, <1>2, OneServedKept, Zenon DEF TInv
<1>6. LineAfterMap'
  BY <1>0, <1>2, <1>3, ReqShape DEF TInv, LineAfterMap
<1>7. GrantedFirst'
  <2>1. x.at \in {"conns", "save", "append"} => granted[x.who] > 0
    BY <1>2, ReqShape, Zenon DEF TInv, GrantedFirst
  <2>. QED
    BY <1>0, <1>3, <2>1, Zenon DEF TInv, GrantedFirst, RefusedMeansGranted
<1>. QED
  BY <1>4, <1>5, <1>6, <1>7, Zenon DEF TInv

\* add_sub.
LEMMA AddSubKeeps ==
  ASSUME TInv, NEW r \in Requests, AddSub(r)
  PROVE  TInv'
<1>0. Types /\ req[r].at = "sub" /\ UNCHANGED <<store, file, mail>>
  BY Zenon DEF TInv, AddSub
<1>1. PICK p \in People : p = req[r].who
  BY <1>0, MoveShape, Zenon
<1>2. granted' = [granted EXCEPT ![p] = @ + 1]
  BY <1>1, Zenon DEF AddSub
<1>3. /\ granted' \in [People -> Nat] /\ granted'[p] > 0
      /\ \A d \in People : granted[d] > 0 => granted'[d] > 0
  BY <1>0, <1>2 DEF Types
<1>4. PICK x \in {NoReq} \cup Req :
        req' = [req EXCEPT ![r] = x] /\ (x \in Req => x.who = p /\ x.at = "conns")
  <2>1. CASE End(r)
    BY <2>1, NoReqShape, Zenon DEF End
  <2>2. CASE Goto(r, "conns")
    <3>1. "conns" \in Steps \ {"idle"}
      BY Zenon DEF Steps
    <3>2. PICK x \in Req : req' = [req EXCEPT ![r] = x] /\ x.who = req[r].who /\ x.at = "conns"
      BY <1>0, <2>2, <3>1, GotoShape, Zenon
    <3>. QED
      BY <1>1, <3>2, Zenon
  <2>. QED
    BY <2>1, <2>2, Zenon DEF AddSub
<1>5. req'[r] = x /\ \A q \in Requests \ {r} : req'[q] = req[q]
  BY <1>0, <1>4, Zenon DEF Types
<1>6. Types'
  BY <1>0, <1>3, <1>4, Zenon DEF Types
<1>7. LineAfterMap'
  BY <1>0, <1>4, <1>5, ReqShape DEF TInv, LineAfterMap
<1>8. GrantedFirst'
  <2>1. \A q \in Requests : req'[q].at \in {"conns", "save", "append"} => granted'[req'[q].who] > 0
    <3>1. ASSUME NEW q \in Requests, q # r, req[q].at \in {"conns", "save", "append"}
          PROVE  granted'[req[q].who] > 0
      BY <1>0, <1>3, <3>1, MoveShape, Zenon DEF TInv, GrantedFirst
    <3>. QED
      BY <1>3, <1>4, <1>5, <3>1, ReqShape, Zenon
  <2>2. \A i \in 1..Len(file) : granted'[file[i].who] > 0
    <3>1. ASSUME NEW i \in 1..Len(file)
          PROVE  file[i].who \in People
      <4>1. file[i] \in Line
        BY <1>0 DEF Types
      <4>. QED
        BY <4>1, Zenon DEF Line
    <3>. QED
      BY <1>3, <3>1, Zenon DEF TInv, GrantedFirst
  <2>3. RefusedMeansGranted'
    BY <1>0, <1>3, Zenon DEF TInv, GrantedFirst, RefusedMeansGranted
  <2>. QED
    BY <1>0, <2>1, <2>2, <2>3, Zenon DEF GrantedFirst
<1>. QED
  BY <1>0, <1>6, <1>7, <1>8, OneServedAddSub, Zenon DEF TInv

\* The map.
LEMMA SaveKeeps ==
  ASSUME TInv, NEW r \in Requests, Save(r)
  PROVE  TInv'
<1>0. /\ Types /\ req[r].at = "save" /\ store' = store \cup {req[r].who}
      /\ UNCHANGED <<file, granted, mail, excused>>
  BY Zenon DEF TInv, Save
<1>1. PICK x \in Req : /\ req' = [req EXCEPT ![r] = x]
                       /\ x.who = req[r].who /\ x.at = "append"
  <2>1. "append" \in Steps \ {"idle"} /\ Goto(r, "append")
    BY Zenon DEF Save, Steps
  <2>. QED
    BY <1>0, <2>1, GotoShape
<1>2. req'[r] = x /\ (\A q \in Requests \ {r} : req'[q] = req[q]) /\ req[r] \in Req
      /\ req[r].who \in People
  BY <1>0, <1>1, MoveShape, Zenon
<1>3. granted[req[r].who] > 0
  BY <1>0, Zenon DEF TInv, GrantedFirst
<1>4. Types'
  BY <1>0, <1>1, <1>2, Zenon DEF Types
<1>5. OneServed'
  BY <1>0, <1>1, <1>2, OneServedKept, Zenon DEF TInv
<1>6. LineAfterMap'
  BY <1>0, <1>1, <1>2 DEF TInv, LineAfterMap
<1>7. GrantedFirst'
  BY <1>0, <1>1, <1>2, <1>3 DEF TInv, GrantedFirst, RefusedMeansGranted
<1>. QED
  BY <1>4, <1>5, <1>6, <1>7, Zenon DEF TInv

\* The line, or an error in its place, and the mail: the person is in the map.
LEMMA AppendKeeps ==
  ASSUME TInv, NEW r \in Requests, AppendLine(r) \/ AppendFails(r)
  PROVE  TInv'
<1>0. /\ Types /\ req[r].at = "append" /\ SpawnMail(req[r].who)
      /\ req' = [req EXCEPT ![r] = NoReq]
      /\ UNCHANGED <<store, granted, excused>>
  BY Zenon DEF TInv, AppendLine, AppendFails, End
<1>1. PICK p \in People : p = req[r].who
  BY <1>0, MoveShape, Zenon
<1>2. req'[r] = NoReq /\ (\A q \in Requests \ {r} : req'[q] = req[q]) /\ req[r] \in Req
  BY <1>0, MoveShape, Zenon
<1>3. granted[p] > 0 /\ p \in store
  BY <1>0, <1>1, Zenon DEF TInv, GrantedFirst, LineAfterMap
<1>4. /\ file' \in Seq(Line)
      /\ \A i \in 1..Len(file') : granted[file'[i].who] > 0
  <2>1. CASE AppendFails(r)
    BY <1>0, <2>1, Zenon DEF AppendFails, Types, TInv, GrantedFirst
  <2>2. CASE AppendLine(r)
    <3>1. PICK line \in Line : line.who = p /\ file' \in Appended(line)
      <4>1. [who |-> p, open |-> FALSE, whole |-> TRUE] \in Line
        BY Zenon DEF Line
      <4>. QED
        BY <1>1, <2>2, <4>1, Zenon DEF AppendLine
    <3>2. /\ file' \in Seq(Line)
          /\ \A i \in 1..Len(file') :
               file'[i].who = p \/ \E j \in 1..Len(file) : file'[i].who = file[j].who
      BY <1>0, <3>1, AppendedShape, Zenon DEF Types
    <3>. QED
      BY <1>3, <3>2, Zenon DEF TInv, GrantedFirst
  <2>. QED
    BY <2>1, <2>2, Zenon
<1>5. /\ mail' \in [People -> 0..3]
      /\ \A d \in People : mail'[d] > 0 => mail[d] > 0 \/ d = p
  BY <1>0, <1>1 DEF SpawnMail, Types
<1>6. Types'
  BY <1>0, <1>4, <1>5, Zenon DEF Types
<1>7. OneServed'
  BY <1>0, <1>2, NoReqShape, OneServedKept, Zenon DEF TInv
<1>8. LineAfterMap'
  BY <1>0, <1>2, ReqShape DEF TInv, LineAfterMap
<1>9. GrantedFirst'
  <2>1. RefusedMeansGranted'
    BY <1>0, <1>3, <1>5, Zenon DEF TInv, GrantedFirst, RefusedMeansGranted
  <2>2. \A q \in Requests : req'[q].at \in {"conns", "save", "append"} => granted[req'[q].who] > 0
    BY <1>2, ReqShape, Zenon DEF TInv, GrantedFirst
  <2>. QED
    BY <1>0, <1>4, <2>1, <2>2, Zenon DEF GrantedFirst
<1>. QED
  BY <1>6, <1>7, <1>8, <1>9, Zenon DEF TInv

-----------------------------------------------------------------------------
(* The other steps.                                                        *)

\* Whoever passes the check and is not excused has no trial, and no request.
LEMMA CheckKeeps ==
  ASSUME TInv, NEW r \in Requests, NEW p \in People, CheckEmailHmac(r, p)
  PROVE  TInv'
<1> DEFINE x == [who |-> p, at |-> "bonus", left |-> Slots]
<1>0. /\ Types /\ req[r] = NoReq /\ p \notin store /\ req' = [req EXCEPT ![r] = x]
      /\ excused' = IF p \in Others(r) THEN excused \cup {p} ELSE excused
      /\ UNCHANGED <<store, file, granted, mail>>
  BY Zenon DEF TInv, CheckEmailHmac
<1>1. x \in Req /\ x.who = p /\ x.at = "bonus"
  BY TrialAssumption DEF Req, Steps
<1>. HIDE DEF x
<1>2. req'[r] = x /\ \A q \in Requests \ {r} : req'[q] = req[q]
  BY <1>0, Zenon DEF Types
<1>3. Types'
  BY <1>0, <1>1, Zenon DEF Types
<1>4. OneServed'
  <2>1. ASSUME NEW d \in People, d # p, d \notin excused'
        PROVE  OneServed!(d)'
    <3>1. \A q \in Requests : Serving(q, d)' <=> Serving(q, d)
      BY <1>0, <1>1, <1>2, <2>1, NoReqShape, Zenon DEF Serving
    <3>2. \A q \in Requests : Serving(q, d) => req'[q] = req[q]
      BY <1>0, <1>2, NoReqShape, Zenon DEF Serving
    <3>3. d \notin excused
      BY <1>0, <2>1, Zenon
    <3>. QED
      BY <1>0, <3>1, <3>2, <3>3, Zenon DEF OneServed, TInv
  <2>2. ASSUME p \notin excused'
        PROVE  OneServed!(p)'
    <3>1. p \notin excused /\ p \notin Others(r)
      BY <1>0, <2>2, Zenon
    <3>2. \A q \in Requests : ~Serving(q, p)
      BY <1>0, <3>1, NoReqShape, Zenon DEF Others, Serving
    <3>3. \A q \in Requests : Serving(q, p)' => q = r
      BY <1>2, <3>2, Zenon DEF Serving
    <3>4. granted[p] = 0
      BY <1>0, <3>1, <3>2 DEF TInv, OneServed, Types
    <3>. QED
      BY <1>0, <3>3, <3>4
  <2>. QED
    BY <2>1, <2>2 DEF OneServed
<1>5. LineAfterMap'
  BY <1>0, <1>1, <1>2 DEF TInv, LineAfterMap
<1>6. GrantedFirst'
  BY <1>0, <1>1, <1>2, Zenon DEF TInv, GrantedFirst, RefusedMeansGranted
<1>. QED
  BY <1>3, <1>4, <1>5, <1>6, Zenon DEF TInv

\* An attempt to mail.
LEMMA SendMailKeeps ==
  ASSUME TInv, NEW p \in People, SendMail(p)
  PROVE  TInv'
<1>0. Types /\ UNCHANGED <<req, store, file, granted, excused>>
  BY Zenon DEF TInv, SendMail
<1>1. mail' \in [People -> 0..3] /\ \A d \in People : mail'[d] > 0 => mail[d] > 0
  <2>1. mail \in [People -> 0..3] /\ mail[p] \in 1..3
    BY <1>0 DEF SendMail, Types
  <2>2. PICK n \in 0..3 : mail' = [mail EXCEPT ![p] = n]
    BY <2>1 DEF SendMail
  <2>. QED
    BY <2>1, <2>2
<1>2. OneServed' /\ LineAfterMap'
  BY <1>0 DEF TInv, OneServed, LineAfterMap, Serving
<1>3. GrantedFirst'
  BY <1>0, <1>1, Zenon DEF TInv, GrantedFirst, RefusedMeansGranted
<1>. QED
  BY <1>0, <1>1, <1>2, <1>3, Zenon DEF TInv, Types

\* A restart excuses whoever has a trial and no line; a cut line names somebody who
\* was about to get it.
LEMMA RestartKeeps ==
  ASSUME TInv, Restart
  PROVE  TInv'
<1>0. /\ Types /\ store' = LoadTrials(file')
      /\ excused' = excused \cup {p \in People : granted[p] > 0 /\ p \notin store'}
      /\ req' = [r \in Requests |-> NoReq]
      /\ mail' = [p \in People |-> 0] /\ granted' = granted
  BY Zenon DEF TInv, Restart
<1>1. /\ file' \in Seq(Line)
      /\ \A i \in 1..Len(file') : granted[file'[i].who] > 0
  <2>1. CASE file' = file
    BY <1>0, <2>1, Zenon DEF Types, TInv, GrantedFirst
  <2>2. CASE file' # file
    <3>1. PICK r \in Requests, intact \in BOOLEAN :
            /\ req[r].at = "append"
            /\ file' \in Appended([who |-> req[r].who, open |-> TRUE, whole |-> intact])
      BY <2>2, Zenon DEF Restart
    <3>2. req[r].who \in People /\ granted[req[r].who] > 0
      BY <1>0, <3>1, MoveShape, Zenon DEF TInv, GrantedFirst
    <3>3. PICK line \in Line : line.who = req[r].who /\ file' \in Appended(line)
      BY <3>1, <3>2, Zenon DEF Line
    <3>4. /\ file' \in Seq(Line)
          /\ \A i \in 1..Len(file') :
               file'[i].who = line.who \/ \E j \in 1..Len(file) : file'[i].who = file[j].who
      BY <1>0, <3>3, AppendedShape, Zenon DEF Types
    <3>. QED
      BY <3>2, <3>3, <3>4, Zenon DEF TInv, GrantedFirst
  <2>. QED
    BY <2>1, <2>2, Zenon
<1>2. \A i \in 1..Len(file') : file'[i].who \in People
  <2> TAKE i \in 1..Len(file')
  <2>1. file'[i] \in Line
    BY <1>1
  <2>. QED
    BY <2>1, Zenon DEF Line
<1>3. store' \subseteq People /\ \A p \in store' : granted[p] > 0
  BY <1>0, <1>1, <1>2, Zenon DEF LoadTrials
<1>4. \A r \in Requests : req'[r] = NoReq
  BY <1>0, Zenon
<1>5. Types'
  <2>1. req' \in [Requests -> {NoReq} \cup Req] /\ mail' \in [People -> 0..3]
    BY <1>0
  <2>. QED
    BY <1>0, <1>1, <1>3, <2>1, Zenon DEF Types
<1>6. OneServed'
  <2>1. \A r \in Requests, p \in People : ~Serving(r, p)'
    BY <1>4, NoReqShape, Zenon DEF Serving
  <2>2. \A p \in People \ excused' : granted[p] <= 1 /\ (granted[p] = 1 => p \in store')
    BY <1>0 DEF TInv, OneServed
  <2>. QED
    BY <1>0, <2>1, <2>2, Zenon DEF OneServed
<1>7. LineAfterMap'
  BY <1>4, ReqShape, Zenon DEF LineAfterMap
<1>8. GrantedFirst'
  BY <1>0, <1>1, <1>3, <1>4, ReqShape DEF GrantedFirst, RefusedMeansGranted
<1>. QED
  BY <1>5, <1>6, <1>7, <1>8, Zenon DEF TInv

-----------------------------------------------------------------------------
(* The invariant, and what follows from it.                                *)

\* One step of Next, or a stuttering step.
LEMMA TInvInductive ==
  ASSUME TInv, [Next]_vars
  PROVE  TInv'
<1>1. CASE UNCHANGED vars
  BY <1>1, Zenon DEF vars, TInv, Types, OneServed, LineAfterMap, GrantedFirst,
                     RefusedMeansGranted, Serving
<1>2. ASSUME NEW r \in Requests, Serve(r)
      PROVE  TInv'
  BY <1>2, PassingKeeps, AddSubKeeps, SaveKeeps, AppendKeeps, Zenon DEF Serve
<1>3. ASSUME NEW r \in Requests, NEW p \in People,
             CheckEmailHmac(r, p) \/ CheckEmailHmacRefuses(r, p)
      PROVE  TInv'
  BY <1>1, <1>3, CheckKeeps, Zenon DEF CheckEmailHmacRefuses
<1>4. ASSUME NEW p \in People, SendMail(p)
      PROVE  TInv'
  BY <1>4, SendMailKeeps, Zenon
<1>. QED
  BY <1>1, <1>2, <1>3, <1>4, RestartKeeps, Zenon DEF Next

\* At first nobody has a trial.
LEMMA TInvInit == Init => TInv
<1> SUFFICES ASSUME Init PROVE TInv
  BY Zenon
<1>0. /\ req = [r \in Requests |-> NoReq] /\ store = {} /\ file = <<>>
      /\ granted = [p \in People |-> 0] /\ mail = [p \in People |-> 0]
  BY Zenon DEF Init
<1>1. Types
  BY <1>0 DEF Types
<1>2. OneServed
  BY <1>0, NoReqShape DEF OneServed, Serving
<1>3. LineAfterMap /\ GrantedFirst
  BY <1>0, ReqShape DEF LineAfterMap, GrantedFirst, RefusedMeansGranted
<1>. QED
  BY <1>1, <1>2, <1>3, Zenon DEF TInv

\* TInv holds throughout.
LEMMA TInvAlways == Spec => []TInv
BY TInvInit, TInvInductive, PTL DEF Spec

\* post_trial_handler gives a person one trial, however many of their requests there
\* are, unless two of them passed check_email_hmac together, one failed after its
\* subscription was created, or a restart found no line for the person.
THEOREM TrialOnce == Spec => []OneTrial
<1>1. TInv => OneTrial
  BY DEF TInv, Types, OneServed, OneTrial
<1>. QED
  BY <1>1, TInvAlways, PTL

\* Nobody is refused by check_email_hmac, or mailed by send_email_background, who
\* has no trial, whatever lines crashes cut and later ones are glued to.
THEOREM RefusedHadTrial == Spec => []RefusedMeansGranted
<1>1. TInv => RefusedMeansGranted
  BY Zenon DEF TInv, GrantedFirst
<1>. QED
  BY <1>1, TInvAlways, PTL

-----------------------------------------------------------------------------
(* What a restart remembers.                                               *)

\* The requests that are about to write their line.
Writing == {req[r].who : r \in {q \in Requests : req[q].at = "append"}}

\* Without a fault every line is whole, and nobody's is missing.
FaultsForget ==
  /\ faults \in Nat
  /\ faults = 0 => unsaved = {} /\ \A i \in 1..Len(file) : file[i].whole /\ ~file[i].open

\* What is invariant of the memory of trials besides.
MInv == Remembered /\ FaultsForget

\* A step of request r that writes no line: the person it saves is about to get one.
LEMMA WritingMoves ==
  ASSUME Types, NEW r \in Requests, NEW x, req' = [req EXCEPT ![r] = x],
         req[r].at # "append"
  PROVE  Writing \subseteq Writing' /\ (x.at = "append" => x.who \in Writing')
<1>1. req'[r] = x /\ \A q \in Requests \ {r} : req'[q] = req[q]
  BY Zenon DEF Types
<1>. QED
  BY <1>1, Zenon DEF Writing

\* What does not touch the stores, and makes no request that is about to write one
\* that is not, keeps MInv.
LEMMA MInvElsewhere ==
  ASSUME MInv, UNCHANGED <<file, unsaved>>, Writing \subseteq Writing',
         store' \subseteq store \cup Writing',
         faults' = faults \/ Fault
  PROVE  MInv'
<1>1. LoadTrials(file)' = LoadTrials(file)
  BY Zenon DEF LoadTrials
<1>2. Remembered'
  BY <1>1, Zenon DEF MInv, Remembered, Writing
<1>3. FaultsForget'
  BY DEF MInv, FaultsForget, Fault
<1>. QED
  BY <1>2, <1>3, Zenon DEF MInv

\* The steps of a request up to the map: the store grows last, by whom the request
\* is about to write a line for.
LEMMA ServeRemembers ==
  ASSUME Types, MInv, NEW r \in Requests,
         \/ Bonus(r) \/ AddSub(r) \/ AddSubFails(r)
         \/ AddConn(r) \/ AddConnRefused(r) \/ AddConnDone(r) \/ Save(r)
  PROVE  MInv'
<1>1. /\ UNCHANGED <<file, unsaved>> /\ (faults' = faults \/ Fault)
      /\ req[r].at \in {"bonus", "sub", "conns", "save"}
  BY Zenon DEF Bonus, AddSub, AddSubFails, AddConn, AddConnRefused, AddConnDone, Save
<1>2. PICK x : /\ req' = [req EXCEPT ![r] = x]
               /\ Save(r) => x = [req[r] EXCEPT !.at = "append"]
  <2>1. CASE Save(r)
    BY <2>1, Zenon DEF Save, Goto
  <2>2. CASE ~Save(r)
    BY <2>2, Zenon DEF Bonus, AddSub, AddSubFails, AddConn, AddConnRefused, AddConnDone, Goto, End
  <2>. QED
    BY <2>1, <2>2, Zenon
<1>3. Writing \subseteq Writing' /\ (x.at = "append" => x.who \in Writing')
  BY <1>1, <1>2, WritingMoves, Zenon
<1>4. store' \subseteq store \cup Writing'
  <2>1. CASE Save(r)
    <3>0. req[r] \in Req
      BY <1>1, MoveShape, Zenon
    <3>1. x.at = "append" /\ x.who = req[r].who
      BY <1>2, <2>1, <3>0, Zenon DEF Req
    <3>. QED
      BY <1>3, <2>1, <3>1, Zenon DEF Save
  <2>2. CASE ~Save(r)
    BY <2>2, Zenon DEF Bonus, AddSub, AddSubFails, AddConn, AddConnRefused, AddConnDone
  <2>. QED
    BY <2>1, <2>2, Zenon
<1>. QED
  BY <1>1, <1>3, <1>4, MInvElsewhere, Zenon

\* A line appended to whole ones is whole, and they stay.
LEMMA WholeAppended ==
  ASSUME file \in Seq(Line), NEW line \in Line, line.whole, ~line.open,
         \A i \in 1..Len(file) : file[i].whole /\ ~file[i].open,
         NEW f \in Appended(line)
  PROVE  /\ LoadTrials(file) \cup {line.who} \subseteq LoadTrials(f)
         /\ \A i \in 1..Len(f) : f[i].whole /\ ~f[i].open
<1>1. f = Append(file, line)
  <2>1. CASE file = <<>>
    BY <2>1, Zenon DEF Appended
  <2>2. CASE file # <<>>
    <3>1. Len(file) \in 1..Len(file)
      BY <2>2
    <3>. QED
      BY <3>1, Zenon DEF Appended
  <2>. QED
    BY <2>1, <2>2, Zenon
<1>2. /\ Len(file) \in Nat /\ Len(f) = Len(file) + 1 /\ f[Len(file) + 1] = line
      /\ \A i \in 1..Len(file) : f[i] = file[i]
  BY <1>1
<1>3. \A i \in 1..Len(f) : i \in 1..Len(file) \/ i = Len(file) + 1
  BY <1>2
<1>4. Len(file) + 1 \in 1..Len(f) /\ \A i \in 1..Len(file) : i \in 1..Len(f)
  BY <1>2
<1>. QED
  BY <1>2, <1>3, <1>4, Zenon DEF LoadTrials

\* The end of a request.  A failed write, and one that glues the line to a cut one,
\* leave the people they lose in unsaved; a line is cut by a fault only.
LEMMA AppendRemembers ==
  ASSUME Types, MInv, NEW r \in Requests, AppendLine(r) \/ AppendFails(r)
  PROVE  MInv'
<1> DEFINE p == req[r].who
<1>1. /\ req' = [req EXCEPT ![r] = NoReq] /\ store' = store /\ req[r].at = "append"
  BY Zenon DEF AppendLine, AppendFails, End
<1>2. Writing \subseteq Writing' \cup {p}
  <2>1. \A q \in Requests \ {r} : req'[q] = req[q]
    BY <1>1, Zenon DEF Types
  <2>. QED
    BY <2>1, Zenon DEF Writing
<1>3. CASE AppendFails(r)
  <2>1. file' = file /\ unsaved' = unsaved \cup {p} /\ faults' = faults + 1
    BY <1>3, Zenon DEF AppendFails, Fault
  <2>2. LoadTrials(file)' = LoadTrials(file)
    BY <2>1, Zenon DEF LoadTrials
  <2>3. Remembered'
    BY <1>1, <1>2, <2>1, <2>2, Zenon DEF MInv, Remembered, Writing
  <2>. QED
    BY <2>1, <2>3 DEF MInv, FaultsForget
<1>4. CASE AppendLine(r)
  <2>1. /\ file' \in Appended([who |-> p, open |-> FALSE, whole |-> TRUE])
        /\ unsaved' = unsaved \cup ((LoadTrials(file) \cup {p}) \ LoadTrials(file)')
        /\ faults' = faults
    BY <1>4, Zenon DEF AppendLine, LoadTrials
  <2>2. Remembered'
    BY <1>1, <1>2, <2>1, Zenon DEF MInv, Remembered, Writing
  <2>3. FaultsForget'
    <3>1. [who |-> p, open |-> FALSE, whole |-> TRUE] \in Line
      BY <1>1, MoveShape, Zenon DEF Line
    <3>2. faults = 0 => /\ LoadTrials(file) \cup {p} \subseteq LoadTrials(file')
                        /\ \A i \in 1..Len(file') : file'[i].whole /\ ~file'[i].open
      BY <2>1, <3>1, WholeAppended, Zenon DEF MInv, FaultsForget, Types
    <3>. QED
      BY <2>1, <3>2, Zenon DEF MInv, FaultsForget
  <2>. QED
    BY <2>2, <2>3, Zenon DEF MInv
<1>. QED
  BY <1>3, <1>4, Zenon

\* One step of Next, or a stuttering step.
LEMMA MInvInductive ==
  ASSUME TInv, MInv, [Next]_vars
  PROVE  MInv'
<1>0. Types
  BY Zenon DEF TInv
<1>1. CASE UNCHANGED vars
  <2>1. Writing' = Writing
    BY <1>1, Zenon DEF vars, Writing
  <2>. QED
    BY <1>1, <2>1, MInvElsewhere, Zenon DEF vars
<1>2. ASSUME NEW r \in Requests, Serve(r)
      PROVE  MInv'
  BY <1>0, <1>2, ServeRemembers, AppendRemembers, Zenon DEF Serve
<1>3. ASSUME NEW r \in Requests, NEW p \in People, CheckEmailHmac(r, p)
      PROVE  MInv'
  <2>1. /\ UNCHANGED <<file, store, unsaved, faults>> /\ req[r] = NoReq
        /\ \E x : req' = [req EXCEPT ![r] = x]
    BY <1>3, Zenon DEF CheckEmailHmac
  <2>2. Writing \subseteq Writing'
    BY <1>0, <2>1, ReqShape, WritingMoves, Zenon
  <2>. QED
    BY <2>1, <2>2, MInvElsewhere, Zenon
<1>4. ASSUME NEW p \in People, SendMail(p)
      PROVE  MInv'
  <2>1. UNCHANGED <<req, file, store, unsaved, faults>>
    BY <1>4, Zenon DEF SendMail
  <2>2. Writing' = Writing
    BY <2>1, Zenon DEF Writing
  <2>. QED
    BY <2>1, <2>2, MInvElsewhere, Zenon
<1>5. CASE Restart
  <2>1. store' = LoadTrials(file)' /\ faults' = faults + 1
    BY <1>5, Zenon DEF Restart, Fault, LoadTrials
  <2>. QED
    BY <2>1 DEF MInv, Remembered, FaultsForget
<1>. QED
  BY <1>1, <1>2, <1>3, <1>4, <1>5, Zenon DEF Next, CheckEmailHmacRefuses

\* MInv holds throughout.
LEMMA MInvAlways == Spec => []MInv
<1>1. Init => MInv
  BY DEF Init, MInv, Remembered, FaultsForget
<1>. QED
  BY <1>1, TInvAlways, MInvInductive, PTL DEF Spec

\* load_trials finds everybody whom the EmailStore refuses, but those whose request
\* is at its line and those whose line failed, was cut or was glued to a cut one.
THEOREM RestartRemembers == Spec => []Remembered
<1>1. MInv => Remembered
  BY Zenon DEF MInv
<1>. QED
  BY <1>1, MInvAlways, PTL

\* Concurrent requests lose nobody's line: where none failed and the API never died,
\* load_trials would find everybody but those whose request is at its line.
THEOREM FaultlessForgetsNobody ==
  Spec => [](faults = 0 => store \subseteq LoadTrials(file) \cup Writing)
<1>1. MInv => (faults = 0 => store \subseteq LoadTrials(file) \cup Writing)
  BY Zenon DEF MInv, Remembered, FaultsForget, Writing
<1>. QED
  BY <1>1, MInvAlways, PTL
=============================================================================
