---------------------------- MODULE VirtualHosts ----------------------------
(***************************************************************************)
(* http::vhosts, the part of server::load_config() that fills it, and the  *)
(* part of process_request() that picks the host of a request.  Host names *)
(* are sequences of letters; a port in a text is one letter of PortLetter. *)
(***************************************************************************)
EXTENDS Tables

CONSTANTS
  PortLetter,    \* a function from the texts of ports to their numbers
  HttpPort,      \* HTTP_DEFAULT_PORT
  HttpsPort,     \* HTTPS_DEFAULT_PORT
  Key,           \* the keys of hosts and aliases in the configuration
  Name,          \* the names requests ask for
  Literal,       \* those of them that are IP addresses with colons
  ListenPort,    \* the ports of the listeners
  MaxHosts       \* bound on the hosts and aliases of a configuration

VARIABLES
  stage,         \* "loading", "serving" or "failed"
  vhosts,        \* _M_vhosts: <<name, port, root>>, in order
  default,       \* _M_default_vhost, the empty sequence when there is none
  loaded,        \* the keys read so far, with the root they were given
  asked,         \* the last request
  answer         \* what it was answered: a virtual host, or a code in a sequence of its own

vars == <<stage, vhosts, default, loaded, asked, answer>>

NoHost == <<>>
NoRequest == [form |-> "none"]

\* The name and the port of a text, the port after the last ":" (memrchr()).
SplitAt(text, otherwise) ==
  LET colons == {k \in 1 .. Len(text) : text[k] = ":"}
      c == Max(colons)
      port == SubSeq(text, c + 1, Len(text))
  IN CASE colons = {} -> [ok |-> TRUE, name |-> text, port |-> otherwise]
       [] colons # {} /\ Len(port) = 1 /\ port[1] \in DOMAIN PortLetter ->
            [ok |-> TRUE, name |-> SubSeq(text, 1, c - 1), port |-> PortLetter[port[1]]]
       [] OTHER -> [ok |-> FALSE]

\* vhosts::search().
PlaceOf(name, port) ==
  Place([k \in 1 .. Len(vhosts) |->
           IF Order(name, vhosts[k][1]) = 0 THEN port - vhosts[k][2]
           ELSE Order(name, vhosts[k][1])])

\* vhosts::find().
Find(name, port) ==
  LET place == PlaceOf(name, port) IN IF place.found THEN vhosts[place.at] ELSE NoHost

-----------------------------------------------------------------------------
\* vhosts::add(); a host that cannot be added ends load_config().
Add(v, is_default) ==
  LET place == PlaceOf(v[1], v[2])
  IN IF (is_default /\ default # NoHost) \/ place.found
       THEN stage' = "failed" /\ UNCHANGED <<vhosts, default>>
       ELSE /\ vhosts' = InsertAt(vhosts, place.at, v)
            /\ default' = IF is_default THEN v ELSE default
            /\ UNCHANGED stage

Init ==
  /\ stage = "loading"
  /\ vhosts = <<>> /\ default = NoHost /\ loaded = <<>>
  /\ asked = NoRequest /\ answer = NoHost

\* A host or an alias of the configuration, with its root.
Load(key, root, is_default) ==
  LET host == SplitAt(key, HttpPort)
  IN /\ stage = "loading" /\ Len(loaded) < MaxHosts
     /\ loaded' = Append(loaded, <<key, root>>)
     /\ IF host.ok /\ ~(":" \in ToSet(key) /\ host.name = <<>>)
          THEN Add(<<host.name, host.port, root>>, is_default)
          ELSE stage' = "failed" /\ UNCHANGED <<vhosts, default>>
     /\ UNCHANGED <<asked, answer>>

LoadHost(key, is_default) ==
  Load(key, IF loaded = <<>> THEN 1 ELSE loaded[Len(loaded)][2] + 1, is_default)

\* An alias has the root of the host before it, its parent.
LoadAlias(key) == loaded # <<>> /\ Load(key, loaded[Len(loaded)][2], FALSE)

Serve ==
  /\ stage = "loading" /\ loaded # <<>> /\ stage' = "serving"
  /\ UNCHANGED <<vhosts, default, loaded, asked, answer>>

-----------------------------------------------------------------------------
Refused(code) == <<code>>
FoundOr404(v) == IF v = NoHost THEN Refused("404") ELSE v

\* The host of an absolute URL; HTTP/1.1 asks for a Host header as well.
ByUrl(q) ==
  IF q.version = "1.1" /\ ~q.has_host THEN Refused("400") ELSE FoundOr404(Find(q.name, q.port))

\* Defect: the host of a Host header, without regard to the default of the scheme.
ByHostOfHttp(q) ==
  LET host == SplitAt(q.host, HttpPort)
  IN CASE ~q.has_host /\ q.version = "1.1" -> Refused("400")
       [] ~q.has_host /\ q.version # "1.1" -> FoundOr404(default)
       [] q.has_host /\ ~host.ok -> Refused("400")
       [] OTHER -> FoundOr404(Find(host.name, host.port))

\* The host of a Host header, or the default one.
ByHost(q) ==
  LET host == SplitAt(q.host, IF q.https THEN HttpsPort ELSE HttpPort)
  IN CASE ~q.has_host /\ q.version = "1.1" -> Refused("400")
       [] ~q.has_host /\ q.version # "1.1" -> FoundOr404(default)
       [] q.has_host /\ ~host.ok -> Refused("400")
       [] OTHER -> FoundOr404(Find(host.name, host.port))

Answer(q) == IF q.form = "absolute" THEN ByUrl(q) ELSE ByHost(q)

\* The text of a port, none for the default of the scheme.
PortText(port, https) ==
  IF port = (IF https THEN HttpsPort ELSE HttpPort) THEN <<>>
  ELSE <<":", CHOOSE l \in DOMAIN PortLetter : PortLetter[l] = port>>

\* What a client asks for when it wants something of a host at a port: an IP
\* address with colons is in brackets, which the URL parser has removed.
Wanting(name, port, https, version, form) ==
  [form |-> form, version |-> version, https |-> https,
   name |-> name, port |-> port, has_host |-> TRUE,
   host |-> (IF name \in Literal THEN <<"[">> \o name \o <<"]">> ELSE name) \o PortText(port, https)]

\* A request without a Host header: with a path alone it names no host.
WithoutHost(q) ==
  IF q.form = "absolute" THEN [q EXCEPT !.has_host = FALSE, !.host = <<>>]
  ELSE [q EXCEPT !.has_host = FALSE, !.host = <<>>, !.name = <<>>, !.port = 0]

\* What the listener speaks is of no interest when the URL says everything.
Requests ==
  LET version == {"1.0", "1.1"}
      named == {Wanting(n, p, s, v, "path") :
                  n \in Name, p \in ListenPort, s \in BOOLEAN, v \in version}
               \cup {Wanting(n, p, FALSE, v, "absolute") :
                       n \in Name, p \in ListenPort, v \in version}
  IN named \cup {WithoutHost(q) : q \in named}

\* One request: it changes nothing that another one would see.
Request(q) ==
  /\ stage = "serving" /\ asked = NoRequest
  /\ asked' = q /\ answer' = Answer(q)
  /\ UNCHANGED <<stage, vhosts, default, loaded>>

Next ==
  \/ \E key \in Key, is_default \in BOOLEAN : LoadHost(key, is_default)
  \/ \E key \in Key : LoadAlias(key)
  \/ Serve
  \/ \E q \in Requests : Request(q)

Spec == Init /\ [][Next]_vars

-----------------------------------------------------------------------------
\* The configuration as a relation: the root each host and alias stands for.
Configured ==
  {<<SplitAt(k[1], HttpPort).name, SplitAt(k[1], HttpPort).port, k[2]>> : k \in ToSet(loaded)}

\* Type invariant.
TypeOK ==
  /\ stage \in {"loading", "serving", "failed"}
  /\ \A k \in DOMAIN vhosts : vhosts[k][1] \in Seq(Letters) /\ vhosts[k][2] \in 1 .. 65535
  /\ default # NoHost => default \in ToSet(vhosts)
  /\ answer \in {NoHost, Refused("400"), Refused("404")} \cup ToSet(vhosts)

\* A configuration that is served says for every name and port where they
\* lead, once; the array finds exactly that, whatever order the file was in.
FindsWhatWasLoaded ==
  stage = "serving" /\ asked = NoRequest =>
    /\ ToSet(vhosts) = Configured /\ Len(vhosts) = Len(loaded)
    /\ \A v \in Configured : Find(v[1], v[2]) = v
    /\ \A name \in Name, port \in ListenPort :
         Find(name, port) = NoHost <=> ~\E v \in Configured : v[1] = name /\ v[2] = port

\* A request is answered by the host it names, or by the default one when it
\* names none, never by another.
AnsweredByItsHost ==
  answer \in ToSet(vhosts) =>
    IF asked.has_host THEN answer[1] = asked.name /\ answer[2] = asked.port
    ELSE asked.form = "absolute" \/ answer = default

\* A host is the same one whether the client names it in an absolute URL or in
\* the Host header, with or without the port its scheme implies.  (Not so an
\* IPv6 address, which is looked up with its brackets in a Host header only.)
SameHostEitherWay ==
  stage = "serving" /\ asked = NoRequest =>
    \A name \in Name \ Literal, port \in ListenPort, https \in BOOLEAN :
      Answer(Wanting(name, port, https, "1.1", "absolute"))
        = Answer(Wanting(name, port, https, "1.1", "path"))
=============================================================================
