------------------------------ MODULE Routing ------------------------------
(***************************************************************************)
(* The way of one request: `gen-workload' puts it into a request file,     *)
(* `test' or gomb sends it, HAProxy as configured by `gen-proxy-config'    *)
(* (perf/haproxy.go and templates/haproxy) or Envoy as configured by       *)
(* `sync-envoy-config' (perf/envoy.go) passes it on, and a backend answers *)
(* it.  Each of the commands has asked serve-backends for the ports of the *)
(* backends at some time, and serve-backends may be started again, which   *)
(* gives the backends other ports and the test bed another bundle of       *)
(* certificates.                                                           *)
(*                                                                         *)
(* What a start gave is known by the number of the start: the list of the  *)
(* backends of start s is ports[s], its bundle is s.  Backends and proxies *)
(* read a bundle from the one directory, where that of an earlier start    *)
(* may lie again (CertFiles), or that of a second serve-backends.          *)
(***************************************************************************)
EXTENDS Naturals, Sequences

CONSTANTS
  Nbackends,                                \* --nbackends
  HTTPPort, HTTPSPort, HTTPSPortSNIOnly,    \* the ports of the proxy
  Bindings,                                 \* bound: what ports the backends may get
  StrayBundles,                             \* what other runs of serve-backends created
  MaxStarts                                 \* bound: starts of serve-backends

AllTrafficTypes == {"edge", "http", "passthrough", "reencrypt"}

\* A backend is its name: the traffic type and a number.
Backends == AllTrafficTypes \X (0 .. Nbackends - 1)
TrafficType(b) == b[1]
TLSBackends == {"passthrough", "reencrypt"} \X (0 .. Nbackends - 1)
Nobody == <<"nobody", 0>>

proxyHttpPort  == 8080
proxyHttpsPort == 8443
ProxyPorts == {HTTPPort, HTTPSPort, HTTPSPortSNIOnly}

\* The ports come from the kernel, which gives nobody a port that is taken.
ASSUME RoutingAssumption ==
  /\ Nbackends \in Nat /\ MaxStarts \in Nat
  /\ ProxyPorts \subseteq Nat
  /\ StrayBundles \subseteq Nat \ (0 .. MaxStarts)
  /\ HTTPPort # HTTPSPort /\ HTTPSPortSNIOnly \notin {HTTPPort, HTTPSPort}
  /\ Bindings \subseteq [Backends -> Nat \ ProxyPorts]
  /\ \A p \in Bindings : \A b, c \in Backends : p[b] = p[c] => b = c

VARIABLES
  ports,     \* the ports of the backends, for each start so far
  leaf,      \* the bundle of the certificate that each backend serves
  proxy,     \* the proxy that runs: what it is, its list, the bundle of its CA
  requests,  \* the list the request files were made from, 0 for none
  req,       \* the request that was sent last
  at,        \* where it is
  wire,      \* what is spoken where it arrives there: "http" or "tls"
  opened,    \* a proxy has ended the TLS of the client
  dest,      \* the port a backend is dialled at
  trusts,    \* the bundle its certificate must be of, 0 when it is not checked
  server,    \* the backend that answers
  fresh      \* history: all was of the running start when it was sent, and is

connection == <<wire, opened, dest, trusts, server>>
commands   == <<ports, leaf, proxy, requests>>
vars == <<commands, req, at, connection, fresh>>

Start == Len(ports)

\* What can lie in the directory.
Bundles == (1 .. Start) \cup StrayBundles

-----------------------------------------------------------------------------
(* gen-workload and gen-hosts.                                             *)

Workloads == {"direct", "haproxy", "haproxy-reencrypt-only"}

\* The names of the request files and the traffic in them.
RequestConfigs ==
  [edge |-> {"edge"}, http |-> {"http"}, mix |-> AllTrafficTypes,
   passthrough |-> {"passthrough"}, reencrypt |-> {"reencrypt"}]

RequestFiles ==
  {f \in Workloads \X DOMAIN RequestConfigs :
     f[1] = "haproxy-reencrypt-only" => f[2] = "reencrypt"}

filterInTrafficByType(types, list) ==
  IF list = 0 THEN {} ELSE {b \in Backends : TrafficType(b) \in types}

directPortSelector(b, list)   == ports[list][b]
haproxyPortOfScheme(b)        == IF TrafficType(b) \in {"http", "edge"} THEN HTTPPort ELSE HTTPSPort
haproxyPortSelector(b)        == IF TrafficType(b) = "http" THEN HTTPPort ELSE HTTPSPort
haproxySNIOnlyPortSelector(b) == IF TrafficType(b) = "http" THEN HTTPPort ELSE HTTPSPortSNIOnly

directSchemeSelector(b)  == IF TrafficType(b) \in {"http", "edge"} THEN "http" ELSE "https"
haproxySchemeTLS(b)      == IF TrafficType(b) = "http" THEN "http" ELSE "tls"
haproxySchemeSelector(b) == IF TrafficType(b) = "http" THEN "http" ELSE "https"

PortIn(w, b, list) ==
  CASE w = "direct"  -> directPortSelector(b, list)
    [] w = "haproxy" -> haproxyPortSelector(b)
    [] OTHER         -> haproxySNIOnlyPortSelector(b)

SchemeIn(w, b) ==
  IF w = "direct" THEN directSchemeSelector(b) ELSE haproxySchemeSelector(b)

\* Every name has an address, of the proxy or of the backends.
GenHosts == AllTrafficTypes \X (0 .. Nbackends - 1)

\* `test' looks at the scheme of a request, gomb at its port.
port(scheme) == IF scheme = "http" THEN HTTPPort ELSE HTTPSPort

-----------------------------------------------------------------------------
(* gen-proxy-config: the maps, the sections and their server lines.        *)

filterBackendsByType(types, list) ==
  IF list = 0 THEN {} ELSE {b \in Backends : TrafficType(b) \in types}

MapEntry == [edge |-> "be_edge_http", http |-> "be_http",
             passthrough |-> "be_tcp", reencrypt |-> "be_secure"]

MapFile(types, list) ==
  [b \in filterBackendsByType(types, list) |-> MapEntry[TrafficType(b)]]

os_http_be             == MapFile({"http"}, proxy.list)
os_edge_reencrypt_be   == MapFile({"reencrypt", "edge"}, proxy.list)
os_tcp_be              == MapFile({"passthrough"}, proxy.list)
os_sni_passthrough     == filterBackendsByType({"passthrough"}, proxy.list)
os_route_http_redirect == filterBackendsByType({}, proxy.list)

\* The sections of haproxy.cfg, by name.
SectionName(b) ==
  CASE TrafficType(b) = "edge"      -> "be_edge_http"
    [] TrafficType(b) = "http"      -> "be_http"
    [] TrafficType(b) = "reencrypt" -> "be_secure"
    [] OTHER                        -> "be_tcp"

Sections == {"be_http", "be_edge_http", "be_secure", "be_tcp"}
HasSection(name, b) ==
  b \in filterBackendsByType(AllTrafficTypes, proxy.list) /\ SectionName(b) = name

\* The server line: its port, "ssl" and "verify required ca-file".
PortOfFirst(b) == ports[proxy.list][<<TrafficType(b), 0>>]
ServerPort(b) == ports[proxy.list][b]
NoServerSSL(section) == FALSE
ServerSSL(section) == section = "be_secure"
VerifyNone(section) == 0
ServerVerify(section) == IF section = "be_secure" THEN proxy.root ELSE 0

\* Where the one server of be_sni listens.
be_sni_looping == "public_ssl"
be_sni == "fe_sni"

HAProxyFrontends ==
  {[name |-> "public", port |-> HTTPPort], [name |-> "public_ssl", port |-> HTTPSPort],
   [name |-> "public_ssl_sni_only", port |-> HTTPSPortSNIOnly]}

-----------------------------------------------------------------------------
(* sync-envoy-config: listeners, virtual hosts, filter chains and clusters. *)

EnvoyListeners ==
  {[name |-> "listener_http", port |-> proxyHttpPort],
   [name |-> "listener_https", port |-> proxyHttpsPort]}

\* The domains of the virtual hosts; a client names the port in its Host.
httpVirtualHosts  == filterBackendsByType({"http"}, proxy.list) \X {proxyHttpPort}
httpsVirtualHosts == filterBackendsByType({"edge", "reencrypt"}, proxy.list) \X {proxyHttpsPort}
passthroughFilterChains == filterBackendsByType({"passthrough"}, proxy.list)

ClusterPort(b) == ports[proxy.list][b]
ClusterTLS(b)  == TrafficType(b) = "reencrypt"

-----------------------------------------------------------------------------
(* serve-backends and serve-backend.                                       *)

Serves(b) == IF TrafficType(b) \in {"http", "edge"} THEN "http" ELSE "tls"

\* All TLS backends have one leaf certificate, with all the names in it.
SubjectAlternateNames == Backends

-----------------------------------------------------------------------------
NoRequest == [workload |-> "none", by |-> "test", host |-> Nobody,
              scheme |-> "http", port |-> 0]

Init ==
  /\ ports = <<>>
  /\ leaf = [b \in TLSBackends |-> 0]
  /\ proxy = [kind |-> "none", list |-> 0, root |-> 0]
  /\ requests = 0
  /\ req = NoRequest /\ at = "client"
  /\ wire = "http" /\ opened = FALSE /\ dest = 0 /\ trusts = 0 /\ server = Nobody
  /\ fresh = FALSE

Proxied == req.workload \notin {"none", "direct"}

\* The backends bind anew, and each of the TLS backends loads what it finds;
\* who was answering is gone.
StartBackends ==
  /\ Start < MaxStarts
  /\ \E p \in Bindings : ports' = Append(ports, p)
  /\ leaf' \in [TLSBackends -> Bundles']
  /\ at' = IF at = "server" THEN "failed" ELSE at
  /\ fresh' = FALSE
  /\ UNCHANGED <<proxy, requests, req, connection>>

\* It removes the old files first; then it may be told nothing, or write what
\* it was told a while ago.
GenWorkload ==
  /\ requests' \in 0 .. Start
  /\ UNCHANGED <<ports, leaf, proxy, req, at, connection, fresh>>

\* A proxy takes up what its generator has made: from the list it was told,
\* perhaps a while ago, and with the name of the CA file, which the proxy opens
\* itself and now.  HAProxy is started anew; an Envoy that runs takes the
\* snapshot.
Configure(kind) ==
  /\ \E list \in 1 .. Start, root \in Bundles :
       proxy' = [kind |-> kind, list |-> list, root |-> root]
  /\ at' = IF Proxied /\ ~(kind = "envoy" /\ proxy.kind = "envoy") THEN "failed" ELSE at
  /\ fresh' = (fresh /\ ~Proxied)
  /\ UNCHANGED <<ports, leaf, requests, req, connection>>

-----------------------------------------------------------------------------
\* The running start is the one the list is of; and for reencrypt, the proxy
\* and the backend have read the same bundle.
Current(w, b) ==
  IF w = "direct" THEN requests = Start
  ELSE /\ proxy.kind # "none" /\ proxy.list = Start
       /\ TrafficType(b) = "reencrypt" => proxy.root = leaf[b]

Send(w, by, b) ==
  LET scheme == SchemeIn(w, b)
      number == IF by = "test" THEN port(scheme) ELSE PortIn(w, b, requests)
  IN /\ req' = [workload |-> w, by |-> by, host |-> b, scheme |-> scheme, port |-> number]
     /\ wire' = IF scheme = "http" THEN "http" ELSE "tls"
     /\ at' = IF w = "direct" THEN "dialling" ELSE "connecting"
     /\ dest' = IF w = "direct" THEN number ELSE 0
     /\ opened' = FALSE /\ trusts' = 0 /\ server' = Nobody
     /\ fresh' = Current(w, b)

Issue ==
  /\ at \in {"client", "server", "failed"}
  /\ \E f \in RequestFiles, by \in {"test", "gomb"} :
       \E b \in filterInTrafficByType(RequestConfigs[f[2]], requests) \cap GenHosts :
         Send(f[1], by, b)
  /\ UNCHANGED commands

-----------------------------------------------------------------------------
(* One step in the proxy leads to a place, or the request fails there.     *)

Goto(place) == at' = place /\ UNCHANGED <<commands, req, dest, trusts, server, fresh>>
Fail == Goto("failed") /\ UNCHANGED <<wire, opened>>
Forward(place) == Goto(place) /\ UNCHANGED <<wire, opened>>
Terminate(place) == Goto(place) /\ wire' = "http" /\ opened' = TRUE

Listeners ==
  IF proxy.kind = "haproxy" THEN HAProxyFrontends
  ELSE IF proxy.kind = "envoy" THEN EnvoyListeners ELSE {}

Connect ==
  /\ at = "connecting"
  /\ \/ \E l \in Listeners : l.port = req.port /\ Forward(l.name)
     \/ (\A l \in Listeners : l.port # req.port) /\ Fail

InMap(m) == req.host \in DOMAIN m /\ HasSection(m[req.host], req.host)

\* Without an entry the backend is openshift_default, which has no server.
Public ==
  /\ at = "public"
  /\ IF wire = "http" /\ req.host \notin os_route_http_redirect /\ InMap(os_http_be)
     THEN Forward(os_http_be[req.host]) ELSE Fail

PublicSSL ==
  /\ at = "public_ssl"
  /\ IF wire # "tls" THEN Fail
     ELSE IF req.host \notin os_sni_passthrough THEN Forward(be_sni)
     ELSE IF InMap(os_tcp_be) THEN Forward(os_tcp_be[req.host]) ELSE Fail

TerminateTLS ==
  IF wire = "tls" /\ InMap(os_edge_reencrypt_be)
  THEN Terminate(os_edge_reencrypt_be[req.host]) ELSE Fail

FeSNI == at = "fe_sni" /\ TerminateTLS

PublicSSLSNIOnly == at = "public_ssl_sni_only" /\ TerminateTLS

\* A section or a cluster dials the one server it has; without TLS there is no
\* certificate to verify.
DialAs(number, ssl, root) ==
  /\ at' = "dialling"
  /\ dest' = number
  /\ wire' = IF ssl THEN "tls" ELSE wire
  /\ trusts' = IF ssl THEN root ELSE 0
  /\ UNCHANGED <<commands, req, opened, server, fresh>>

Section ==
  /\ at \in Sections
  /\ DialAs(ServerPort(req.host), ServerSSL(at), ServerVerify(at))

ListenerHTTP ==
  /\ at = "listener_http"
  /\ IF wire = "http" /\ <<req.host, req.port>> \in httpVirtualHosts
     THEN Forward("cluster") ELSE Fail

ListenerHTTPS ==
  /\ at = "listener_https"
  /\ IF wire # "tls" THEN Fail
     ELSE IF req.host \in passthroughFilterChains THEN Forward("cluster")
     ELSE IF <<req.host, req.port>> \in httpsVirtualHosts THEN Terminate("cluster") ELSE Fail

Cluster ==
  /\ at = "cluster"
  /\ DialAs(ClusterPort(req.host), ClusterTLS(req.host), proxy.root)

-----------------------------------------------------------------------------
\* A bundle has a root of its own; what it signed is known to no other root.
Verified(b) ==
  trusts # 0 => trusts = leaf[b] /\ req.host \in SubjectAlternateNames

Owner(b) == Start > 0 /\ ports[Start][b] = dest

\* Whoever has the port now takes the connection, if it is what it serves.
Accept ==
  /\ at = "dialling"
  /\ \E b \in Backends :
       /\ Owner(b) /\ wire = Serves(b) /\ Verified(b)
       /\ server' = b
  /\ at' = "server"
  /\ UNCHANGED <<commands, req, wire, opened, dest, trusts, fresh>>

Refuse ==
  /\ at = "dialling"
  /\ \A b \in Backends : ~(Owner(b) /\ wire = Serves(b) /\ Verified(b))
  /\ Fail

HAProxyStep == Public \/ PublicSSL \/ FeSNI \/ PublicSSLSNIOnly \/ Section
EnvoyStep   == ListenerHTTP \/ ListenerHTTPS \/ Cluster
Travel == Connect \/ HAProxyStep \/ EnvoyStep \/ Accept \/ Refuse

Next ==
  \/ StartBackends \/ GenWorkload
  \/ \E kind \in {"haproxy", "envoy"} : Configure(kind)
  \/ Issue \/ Travel

Spec == Init /\ [][Next]_vars

\* Proxies, clients and backends go on with a request that they have.  Nobody
\* has to start a command or to send a request.
FairSpec == Spec /\ WF_vars(Travel)

-----------------------------------------------------------------------------
(* Properties.                                                             *)

Places == {"client", "connecting", "dialling", "server", "failed",
           "public", "public_ssl", "fe_sni", "public_ssl_sni_only",
           "listener_http", "listener_https", "cluster"} \cup Sections

CommandTypeOK ==
  /\ ports \in Seq(Bindings) /\ Start <= MaxStarts
  /\ leaf \in [TLSBackends -> {0} \cup Bundles]
  /\ proxy \in [kind : {"none", "haproxy", "envoy"}, list : 0 .. Start, root : {0} \cup Bundles]
  /\ requests \in 0 .. Start

\* The type invariant.
TypeOK ==
  /\ CommandTypeOK
  /\ req \in [workload : Workloads \cup {"none"}, by : {"test", "gomb"},
              host : Backends \cup {Nobody}, scheme : {"http", "https"}, port : Nat]
  /\ at \in Places
  /\ wire \in {"http", "tls"} /\ opened \in BOOLEAN
  /\ dest \in Nat /\ trusts \in {0} \cup Bundles
  /\ server \in Backends \cup {Nobody}
  /\ fresh \in BOOLEAN

\* What the commands are not made for: `test' sends a direct request to the
\* port of the proxy, Envoy has two listeners with ports of their own.
Supported ==
  /\ req.workload = "direct" => req.by = "gomb"
  /\ Proxied /\ proxy.kind = "envoy" =>
       req.port = IF req.scheme = "http" THEN proxyHttpPort ELSE proxyHttpsPort

\* Whatever was generated when, a request that finds the list of the running
\* start in its proxy (or in its file, without a proxy), and for reencrypt the CA
\* of the bundle its backend serves, does not fail, and the backend it names
\* answers it.
ReachesNamedBackend ==
  fresh /\ Supported =>
    at # "failed" /\ (at = "server" => server = req.host)

\* Even when a proxy has the ports of an earlier start, a request is answered
\* over the encryption its traffic type stands for: passthrough is opened by
\* the backend alone, reencrypt is opened and encrypted again, edge is opened
\* and sent on in the clear.
EncryptionKept ==
  at = "server" /\ Proxied =>
    /\ opened <=> TrafficType(req.host) \in {"edge", "reencrypt"}
    /\ (wire = "tls") <=> TrafficType(req.host) \in {"passthrough", "reencrypt"}

\* A reencrypt request is answered through a proxy only by a backend whose
\* certificate the proxy has checked against the CA of the same bundle: on stale
\* ports neither an unchecked connection nor one checked against another bundle
\* is answered, whoever has the port now.
ReencryptTrusted ==
  at = "server" /\ Proxied /\ TrafficType(req.host) = "reencrypt" =>
    server \in TLSBackends /\ trusts = leaf[server]

\* When another backend answers than the one that is named, the one that is named
\* had the port in an earlier start: nothing but a restart misleads a request.
WrongOnlyByRestart ==
  at = "server" /\ server # req.host =>
    \E s \in 1 .. Start - 1 : ports[s][req.host] = dest

(***************************************************************************)
(* The inductive invariant: what is known of a request at each place.      *)
(***************************************************************************)
Type == TrafficType(req.host)

Outside == {"connecting", "public", "public_ssl", "fe_sni", "public_ssl_sni_only",
            "listener_http", "listener_https"}
HAProxyPlaces == {"public", "public_ssl", "fe_sni", "public_ssl_sni_only"} \cup Sections
EnvoyPlaces   == {"listener_http", "listener_https", "cluster"}

\* What a proxy was made from and what the backends serve was there to be read.
GeneratedInv ==
  /\ proxy.kind # "none" => proxy.list > 0 /\ proxy.root > 0
  /\ Start > 0 => \A b \in TLSBackends : leaf[b] > 0

\* A request names a backend, and its scheme and port are right for its type.
RequestInv ==
  /\ (req.workload = "none") <=> (at = "client")
  /\ at # "client" => req.host \in Backends
  /\ Proxied =>
       /\ req.scheme = haproxySchemeSelector(req.host)
       /\ IF Type = "http" THEN req.port = HTTPPort
          ELSE req.port = HTTPSPort \/ (req.port = HTTPSPortSNIOnly /\ Type = "reencrypt")

\* A request is where it can have come by its port, and in a section or a
\* cluster of its type.
PlaceInv ==
  /\ at \in Outside \cup Sections \cup {"cluster"} => Proxied
  /\ at \in HAProxyPlaces => proxy.kind = "haproxy"
  /\ at \in EnvoyPlaces => proxy.kind = "envoy"
  /\ at = "public" => req.port = HTTPPort
  /\ at \in {"public_ssl", "fe_sni"} => req.port = HTTPSPort
  /\ at = "public_ssl_sni_only" => req.port = HTTPSPortSNIOnly
  /\ at = "listener_http" => req.port = proxyHttpPort
  /\ at = "listener_https" => req.port = proxyHttpsPort
  /\ at \in Sections => at = SectionName(req.host)

\* What is spoken there, and under whose certificates.
WireInv ==
  /\ at \in Outside => ~opened /\ (wire = "tls" <=> Type # "http")
  /\ at \in Sections \cup {"cluster"} =>
       /\ (opened <=> Type \in {"edge", "reencrypt"})
       /\ (wire = "tls" <=> Type = "passthrough")
  /\ at \in {"dialling", "server"} /\ Proxied =>
       /\ (opened <=> Type \in {"edge", "reencrypt"})
       /\ (wire = "tls" <=> Type \in {"passthrough", "reencrypt"})
       /\ Type = "reencrypt" => trusts > 0
  /\ at = "server" => wire = Serves(server) /\ (trusts # 0 => trusts = leaf[server])

\* A fresh request goes where its backend is now.
FreshInv ==
  fresh =>
    /\ at # "client" /\ Start > 0 /\ (Proxied => Current(req.workload, req.host))
    /\ at = "fe_sni" => Type # "passthrough"
    /\ at \in {"dialling", "server"} /\ Supported => dest = ports[Start][req.host]
    /\ at = "dialling" =>
         /\ wire = Serves(req.host)
         /\ trusts # 0 => req.host \in TLSBackends /\ trusts = leaf[req.host]

\* A backend is dialled at a port that the one that is named has or had, unless
\* `test' sends to the port of a proxy that is not there.
DestInv ==
  /\ at \in {"dialling", "server"} =>
       dest \in ProxyPorts \/ \E s \in 1 .. Start : ports[s][req.host] = dest
  /\ at = "server" => server \in Backends /\ Owner(server)

\* What holds of every request, at every place, whenever anything restarts.
RouteInv == GeneratedInv /\ RequestInv /\ PlaceInv /\ WireInv /\ FreshInv /\ DestInv

\* A request that is fresh and supported is answered unless the test bed or
\* its proxy changes: no route leads in a circle or to a place without exit.
FreshIsServed == (fresh /\ Supported) ~> (at = "server" \/ ~fresh)
=============================================================================
