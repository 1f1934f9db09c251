----------------------------- MODULE ConnForms ------------------------------
(***************************************************************************)
(* The forms a connection takes: what a request asks for, the Connection in *)
(* the Cache, its row, the Connection that a database sync makes of the     *)
(* row, and the messages about it, whose topic is text that nodes subscribe *)
(* to by prefix and parse again (src/memory/env.rs, src/zmq/topic.rs,       *)
(* src/bin/api/postgres/connection.rs).  Each conversion is modelled by     *)
(* what it does; the ones below follow one connection through any sequence  *)
(* of deletions, restorations, syncs and resyncs.                          *)
(*                                                                         *)
(* A text is a sequence of letters; "custom" and the built-in environment   *)
(* names are one letter each.                                              *)
(***************************************************************************)
EXTENDS Naturals, Sequences

CONSTANTS
  Builtin,   \* experimental, dev, production, ru, wl
  Default,   \* experimental
  LowerOf,   \* LowerOf[x]: the lower-case form of letter x
  Texts,     \* environments as requests and configurations spell them
  NodeTexts  \* environments of the nodes, as their configurations spell them

ASSUME FormsAssumption ==
  /\ Default \in Builtin /\ "custom" \notin Builtin
  /\ \A x \in DOMAIN LowerOf : LowerOf[x] \in DOMAIN LowerOf /\ LowerOf[LowerOf[x]] = LowerOf[x]
  /\ \A x \in Builtin \cup {"custom"} : x \in DOMAIN LowerOf /\ LowerOf[x] = x
  /\ NodeTexts \subseteq Texts /\ Texts \subseteq Seq(DOMAIN LowerOf)

-----------------------------------------------------------------------------
(* Env.                                                                    *)

Env(custom, name) == [custom |-> custom, name |-> name]
ToLowercase(text) == [i \in DOMAIN text |-> LowerOf[text[i]]]

\* serde: a name that is not built in is a custom one, as it stands.
Deserialize(text) == Env(~\E b \in Builtin : text = <<b>>, text)

\* Display, as_str, as_bytes.
EnvText(env) == IF env.custom THEN <<"custom">> \o env.name ELSE env.name

\* What from_str takes, but for the aliases exp, development and prod, which
\* EnvText never writes.
Parses(t) == (\E b \in Builtin : t = <<b>>) \/ (t # <<>> /\ Head(t) = "custom")

\* from_str, and From<String>: what it cannot parse is the default.
ParseEnv(text) ==
  LET t == ToLowercase(text) IN
  IF ~Parses(t) THEN Env(FALSE, <<Default>>)
  ELSE IF \E b \in Builtin : t = <<b>> THEN Env(FALSE, t)
  ELSE Env(TRUE, Tail(t))

-----------------------------------------------------------------------------
(* Topic.  An Auth topic is its own text.                                  *)

Auth == [kind |-> "auth"]
Updates(env) == [kind |-> "updates", env |-> env]
NoTopic == [kind |-> "none"]

TopicText(topic) == IF topic = Auth THEN <<"auth">>
                    ELSE <<"updates-">> \o EnvText(topic.env)

\* from_str, which fails where the environment does.
ParseTopic(text) == IF text = <<"auth">> THEN Auth
                    ELSE IF Parses(ToLowercase(Tail(text))) THEN Updates(ParseEnv(Tail(text)))
                    ELSE NoTopic

StartsWith(text, prefix) ==
  Len(prefix) <= Len(text) /\ \A i \in 1..Len(prefix) : text[i] = prefix[i]

\* Mutant: the parsed environment is not compared.
NodeAcceptsPrefix(env, text) == StartsWith(text, TopicText(Updates(env)))

\* A SUB socket for env passes a text on by prefix; run_subscriber then parses
\* it and compares the environment.
NodeAccepts(env, text) ==
  /\ StartsWith(text, TopicText(Updates(env)))
  /\ ParseTopic(text) = Updates(env)

-----------------------------------------------------------------------------
(* Proto and ConnRow.  data is the WgParam, password, token or secret.     *)

XrayTags == {"VlessTcpReality", "VlessGrpcReality", "VlessXhttpReality", "Vmess"}
Tags == XrayTags \cup {"Wireguard", "Shadowsocks", "Hysteria2", "Mtproto"}
Proto(variant, tag, data) == [variant |-> variant, tag |-> tag, data |-> data]

\* The proto that the handlers make for a tag.
NewProto(tag) == IF tag \in XrayTags THEN Proto("Xray", tag, "none")
                                     ELSE Proto(tag, tag, "some")

\* get_password, get_token, get_wireguard: the data of one variant each.
DataOf(proto, variant) == IF proto.variant = variant THEN proto.data ELSE "none"

\* ConnRow::from: the secret of an Mtproto connection has no column.
ToRow(c) ==
  [env |-> EnvText(c.env), tag |-> c.proto.tag,
   wg |-> DataOf(c.proto, "Wireguard"),
   password |-> DataOf(c.proto, "Shadowsocks"),
   token |-> DataOf(c.proto, "Hysteria2"),
   deleted |-> c.deleted]

ColumnOf(row, tag) == CASE tag = "Wireguard" -> row.wg
                        [] tag = "Shadowsocks" -> row.password
                        [] tag = "Hysteria2" -> row.token
                        [] OTHER -> "none"

\* Connection::try_from fails: one such row fails the whole sync.
Unloadable(row) == /\ row.tag \in {"Wireguard", "Shadowsocks", "Hysteria2"}
                   /\ ColumnOf(row, row.tag) = "none"

\* Mutant: the environment is taken as it stands, as serde does.
FromRowVerbatim(row) ==
  [env |-> Deserialize(row.env),
   proto |-> IF row.tag \in {"Wireguard", "Shadowsocks", "Hysteria2"}
               THEN Proto(row.tag, row.tag, ColumnOf(row, row.tag))
               ELSE Proto("Xray", row.tag, "none"),
   deleted |-> row.deleted]

\* Connection::try_from: every other tag, Mtproto included, becomes Xray.
FromRow(row) ==
  [env |-> ParseEnv(row.env),
   proto |-> IF row.tag \in {"Wireguard", "Shadowsocks", "Hysteria2"}
               THEN Proto(row.tag, row.tag, ColumnOf(row, row.tag))
               ELSE Proto("Xray", row.tag, "none"),
   deleted |-> row.deleted]

-----------------------------------------------------------------------------
VARIABLES
  made,     \* the Connection as it was created (history)
  conn,     \* the Connection in the Cache
  row,      \* its row
  serving   \* who serves it: environments of nodes, and the auth service

formsVars == <<made, conn, row, serving>>

AuthService == [custom |-> FALSE, name |-> <<"auth">>]
NodeEnvs == {Deserialize(text) : text \in NodeTexts}

\* delete_connection and restore_connections_by_subscription.
TopicOf(c) == IF DataOf(c.proto, "Hysteria2") # "none" THEN Auth ELSE Updates(c.env)

\* as_create_message, as_update_message, as_delete_message.
Message(c) == [tag |-> c.proto.tag,
               wg |-> DataOf(c.proto, "Wireguard"),
               password |-> DataOf(c.proto, "Shadowsocks"),
               token |-> DataOf(c.proto, "Hysteria2")]

\* handle_message of a node: what it can use, whether to add or to remove.
NodeHandles(msg) ==
  \/ msg.tag \in XrayTags
  \/ msg.tag = "Wireguard" /\ msg.wg # "none"
  \/ msg.tag = "Shadowsocks" /\ msg.password # "none"

\* Who acts on a message about c under this topic; the auth service needs a token.
Hears(text, c) ==
  IF text = <<"auth">> THEN {s \in {AuthService} : Message(c).token # "none"}
  ELSE {env \in NodeEnvs : NodeAccepts(env, text) /\ NodeHandles(Message(c))}

\* create_connection_handler and post_trial_handler: a new Mtproto connection
\* is not published.
FormsInit ==
  \E text \in Texts, tag \in Tags :
    /\ made = [env |-> Deserialize(text), proto |-> NewProto(tag), deleted |-> FALSE]
    /\ conn = made
    /\ row = ToRow(made)
    /\ serving = IF made.proto.variant = "Mtproto" THEN {}
                 ELSE Hears(TopicText(TopicOf(made)), made)

DeleteConnection ==
  /\ ~conn.deleted
  /\ row' = [row EXCEPT !.deleted = TRUE]
  /\ conn' = [conn EXCEPT !.deleted = TRUE]
  /\ serving' = serving \ Hears(TopicText(TopicOf(conn)), conn)
  /\ UNCHANGED made

RestoreConnection ==
  /\ conn.deleted
  /\ row' = [row EXCEPT !.deleted = FALSE]
  /\ conn' = [conn EXCEPT !.deleted = FALSE]
  /\ serving' = serving \cup Hears(TopicText(TopicOf(conn)), conn)
  /\ UNCHANGED made

\* get_state_from_db.
Sync ==
  /\ ~Unloadable(row)
  /\ conn' = FromRow(row)
  /\ UNCHANGED <<made, row, serving>>

\* get_connections_handler, asked by s (sync_connections, get_connections): a live
\* connection of the node's environment, or a Hysteria2 one, goes out under the Init
\* topic of s, where no environment is compared.
Resync(s) ==
  /\ ~conn.deleted
  /\ \/ s \in NodeEnvs /\ conn.env = s /\ NodeHandles(Message(conn))
     \/ s = AuthService /\ conn.proto.tag = "Hysteria2" /\ Message(conn).token # "none"
  /\ serving' = serving \cup {s}
  /\ UNCHANGED <<made, conn, row>>

FormsNext == \/ DeleteConnection \/ RestoreConnection \/ Sync
             \/ \E s \in NodeEnvs \cup {AuthService} : Resync(s)

FormsSpec == FormsInit /\ [][FormsNext]_formsVars

-----------------------------------------------------------------------------
(* Properties.                                                             *)

LowerName(env) == ToLowercase(env.name) = env.name

\* A row that add_conn wrote can be loaded again, so that no connection, however
\* it was deleted and restored, makes get_state_from_db fail for everyone; and
\* Cache and row agree but for the two things the row does not keep: the case of a
\* custom environment's name and the Mtproto variant.
RowIsFaithful ==
  /\ ~Unloadable(row)
  /\ conn.proto.tag = made.proto.tag /\ conn.deleted = row.deleted
  /\ conn.proto # made.proto => made.proto.tag = "Mtproto"
  /\ conn.env # made.env => ~LowerName(made.env)
  /\ ToLowercase(EnvText(conn.env)) = ToLowercase(EnvText(made.env))

\* A live connection whose environment's name is in lower case is served exactly
\* by the nodes of that environment, and a Hysteria2 one by the auth service: the
\* prefix match of ZeroMQ lets no other node in and the text forms lose nobody,
\* whatever syncs and resyncs come between; deleted, it is served by nobody, though
\* its messages may have gone to different topics before and after a sync.  A
\* name with upper-case letters is no node's in the topics that are parsed: its nodes
\* get the connection from a resync only, before a sync, and do not hear of its
\* deletion; after a sync it is served under the lower-case name.
ServedByItsEnv ==
  IF LowerName(made.env) \/ made.proto.tag = "Hysteria2"
    THEN serving = IF conn.deleted THEN {}
                   ELSE IF made.proto.tag = "Hysteria2" THEN {AuthService}
                   ELSE {env \in NodeEnvs : env = made.env /\ made.proto.tag # "Mtproto"}
    ELSE serving \subseteq IF conn.deleted THEN {made.env}
                           ELSE {made.env, ParseEnv(EnvText(made.env))}
=============================================================================
