--------------------------- MODULE RoutingProofs ---------------------------
(***************************************************************************)
(* Theorems about Routing, for any number of backends, any ports of the    *)
(* proxy, any ports the kernel gives and any number of starts.             *)
(***************************************************************************)
EXTENDS Routing, TLAPS

Inv == TypeOK /\ RouteInv /\ ReachesNamedBackend

-----------------------------------------------------------------------------
(* The constants, the selectors and the lists.                             *)

LEMMA BackendFacts ==
  ASSUME NEW b \in Backends
  PROVE  /\ TrafficType(b) \in AllTrafficTypes
         /\ b \in GenHosts
         /\ Serves(b) = "tls" <=> TrafficType(b) \in {"passthrough", "reencrypt"}
         /\ Serves(b) = "tls" <=> b \in TLSBackends
  BY DEF Backends, TrafficType, GenHosts, Serves, AllTrafficTypes, TLSBackends

LEMMA PortNumbers ==
  /\ HTTPPort \in Nat /\ HTTPSPort \in Nat /\ HTTPSPortSNIOnly \in Nat
  /\ HTTPPort # HTTPSPort /\ HTTPSPortSNIOnly \notin {HTTPPort, HTTPSPort}
  /\ MaxStarts \in Nat /\ StrayBundles \subseteq Nat /\ 0 \notin StrayBundles
  BY RoutingAssumption DEF RoutingAssumption, ProxyPorts

\* A bundle has a number, which is not 0, and goes on lying there.
LEMMA BundleFacts ==
  ASSUME TypeOK
  PROVE  /\ Start \in Nat /\ Bundles \subseteq Nat \ {0}
         /\ Start' = Start => Bundles' = Bundles
         /\ Start' = Start + 1 => Bundles \subseteq Bundles'
<1>1. Start \in Nat
  BY DEF TypeOK, CommandTypeOK, Start
<1> QED
  BY <1>1, PortNumbers DEF Bundles

\* A start gave every backend a port, and no two the same.
LEMMA ListFacts ==
  ASSUME TypeOK, NEW l \in 1 .. Start
  PROVE  /\ \A b \in Backends : ports[l][b] \in Nat /\ ports[l][b] \notin ProxyPorts
         /\ \A b, c \in Backends : ports[l][b] = ports[l][c] => b = c
<1>1. ports[l] \in Bindings
  BY DEF TypeOK, CommandTypeOK, Start
<1>2. ports[l] \in [Backends -> Nat \ ProxyPorts]
  BY <1>1, RoutingAssumption DEF RoutingAssumption
<1> QED
  BY <1>1, <1>2, RoutingAssumption DEF RoutingAssumption

\* What the workloads through a proxy ask for.
LEMMA ProxiedRequest ==
  ASSUME NEW b \in Backends, NEW w \in {"haproxy", "haproxy-reencrypt-only"}, NEW list,
         w = "haproxy-reencrypt-only" => TrafficType(b) = "reencrypt"
  PROVE  /\ SchemeIn(w, b) = haproxySchemeSelector(b)
         /\ IF TrafficType(b) = "http" THEN PortIn(w, b, list) = HTTPPort
            ELSE PortIn(w, b, list) = HTTPSPort
                 \/ (PortIn(w, b, list) = HTTPSPortSNIOnly /\ TrafficType(b) = "reencrypt")
         /\ IF TrafficType(b) = "http" THEN port(SchemeIn(w, b)) = HTTPPort
            ELSE port(SchemeIn(w, b)) = HTTPSPort
  BY BackendFacts
     DEF SchemeIn, PortIn, haproxyPortSelector, haproxySNIOnlyPortSelector,
         haproxySchemeSelector, port

\* A request without a proxy speaks what its backend serves.
LEMMA DirectRequest ==
  ASSUME NEW b \in Backends
  PROVE  (IF SchemeIn("direct", b) = "http" THEN "http" ELSE "tls") = Serves(b)
  BY DEF SchemeIn, directSchemeSelector, Serves

-----------------------------------------------------------------------------
LEMMA InitInv == Init => Inv
<1> SUFFICES ASSUME Init PROVE Inv
  OBVIOUS
<1>1. Start = 0 /\ ports \in Seq(Bindings)
  BY DEF Init, Start
<1>2. TypeOK
  <2>1. CommandTypeOK
    BY <1>1, PortNumbers DEF Init, CommandTypeOK, Bundles
  <2>2. req \in [workload : Workloads \cup {"none"}, by : {"test", "gomb"},
                host : Backends \cup {Nobody}, scheme : {"http", "https"}, port : Nat]
    BY DEF Init, NoRequest
  <2>3. at \in Places /\ trusts \in {0} \cup Bundles
    BY <1>1 DEF Init, Places
  <2> QED
    BY <2>1, <2>2, <2>3 DEF Init, TypeOK
<1>3. RouteInv
  BY <1>1
     DEF Init, RouteInv, GeneratedInv, RequestInv, PlaceInv, WireInv, FreshInv, DestInv, NoRequest,
         Proxied, Outside, Sections, HAProxyPlaces, EnvoyPlaces
<1> QED
  BY <1>2, <1>3 DEF Init, Inv, ReachesNamedBackend

-----------------------------------------------------------------------------
(* The commands.                                                           *)

LEMMA StartBackendsInv == Inv /\ StartBackends => Inv'
<1> SUFFICES ASSUME Inv, StartBackends PROVE Inv'
  OBVIOUS
<1> USE DEF StartBackends, connection, Inv
<1>1. PICK p \in Bindings : ports' = Append(ports, p)
  OBVIOUS
<1>2. ports' \in Seq(Bindings) /\ Start' = Start + 1 /\ Start \in Nat
  BY <1>1 DEF TypeOK, CommandTypeOK, Start
<1>3. Start' <= MaxStarts
  BY <1>2, PortNumbers
<1>4. at' \in Places /\ Bundles \subseteq Bundles' /\ Bundles' \subseteq Nat \ {0}
  BY <1>2, PortNumbers, BundleFacts DEF TypeOK, Places, Bundles
<1>5. TypeOK'
  <2>1. CommandTypeOK'
    <3>1. /\ proxy \in [kind : {"none", "haproxy", "envoy"}, list : 0 .. Start',
                        root : {0} \cup Bundles']
          /\ requests \in 0 .. Start'
      <4>1. proxy \in [kind : {"none", "haproxy", "envoy"}, list : 0 .. Start,
                       root : {0} \cup Bundles] /\ requests \in 0 .. Start
        BY DEF TypeOK, CommandTypeOK
      <4>2. 0 .. Start \subseteq 0 .. Start'
        BY <1>2
      <4> HIDE DEF Start, Bundles
      <4> QED
        BY <1>4, <4>1, <4>2
    <3>2. leaf' \in [TLSBackends -> {0} \cup Bundles']
      <4>1. leaf' \in [TLSBackends -> Bundles']
        OBVIOUS
      <4> QED
        BY <4>1
    <3> QED
      BY <1>2, <1>3, <3>1, <3>2 DEF CommandTypeOK
  <2>2. trusts' \in {0} \cup Bundles'
    BY <1>4 DEF TypeOK
  <2> QED
    BY <2>1, <2>2, <1>4 DEF TypeOK
<1>6. RequestInv' /\ PlaceInv'
  BY DEF RouteInv, RequestInv, PlaceInv, Proxied, Type, Outside,
         HAProxyPlaces, EnvoyPlaces, Sections
<1>7. GeneratedInv'
  <2>1. leaf' \in [TLSBackends -> Bundles']
    OBVIOUS
  <2>2. \A n \in Bundles' : n > 0
    BY <1>4
  <2>3. \A b \in TLSBackends : leaf'[b] \in Bundles'
    BY <2>1
  <2> QED
    BY <2>2, <2>3 DEF RouteInv, GeneratedInv
<1>8. WireInv'
  BY DEF RouteInv, WireInv, Proxied, Type, Outside, Sections
<1>9. DestInv'
  <2>1. \A s \in 1 .. Start : s \in 1 .. Start' /\ ports'[s] = ports[s]
    BY <1>1, <1>2 DEF TypeOK, CommandTypeOK, Start
  <2>2. at' # "server" /\ (at' = "dialling" => at = "dialling")
    OBVIOUS
  <2> QED
    BY <2>1, <2>2 DEF RouteInv, DestInv
<1> QED
  BY <1>5, <1>6, <1>7, <1>8, <1>9 DEF RouteInv, FreshInv, ReachesNamedBackend

LEMMA GenWorkloadInv == Inv /\ GenWorkload => Inv'
<1> SUFFICES ASSUME Inv, GenWorkload PROVE Inv'
  OBVIOUS
<1> USE DEF GenWorkload, Inv
<1>1. UNCHANGED <<ports, leaf, proxy, req, at, connection, fresh>>
  OBVIOUS
<1>2. Start \in Nat /\ Start' = Start /\ Bundles' = Bundles
  BY <1>1, BundleFacts DEF Start
<1>3. CommandTypeOK'
  BY <1>1, <1>2 DEF TypeOK, CommandTypeOK
<1>4. TypeOK'
  BY <1>1, <1>2, <1>3 DEF TypeOK, connection
<1>5. GeneratedInv' /\ DestInv'
  BY <1>1, <1>2 DEF RouteInv, GeneratedInv, DestInv, Owner, connection
<1>6. RequestInv' /\ PlaceInv' /\ WireInv'
  BY <1>1, <1>2 DEF RouteInv, RequestInv, PlaceInv, WireInv, Proxied, Type, connection
<1>7. Proxied /\ Current(req.workload, req.host) => Current(req.workload, req.host)'
  BY <1>1, <1>2 DEF Current, Proxied
<1>8. FreshInv'
  BY <1>1, <1>2, <1>7 DEF RouteInv, FreshInv, Supported, Proxied, Type, connection
<1>9. ReachesNamedBackend'
  BY <1>1 DEF ReachesNamedBackend, Supported, Proxied, connection
<1> QED
  BY <1>4, <1>5, <1>6, <1>8, <1>9 DEF RouteInv

LEMMA ConfigureInv ==
  ASSUME Inv, NEW kind \in {"haproxy", "envoy"}, Configure(kind)
  PROVE  Inv'
<1> USE DEF Configure, connection, Inv
<1>1. PICK list \in 1 .. Start, root \in Bundles :
        proxy' = [kind |-> kind, list |-> list, root |-> root]
  OBVIOUS
<1>2. Start \in Nat /\ Start' = Start /\ Bundles' = Bundles /\ Bundles \subseteq Nat \ {0}
  BY BundleFacts DEF Start
<1>3. /\ proxy' \in [kind : {"none", "haproxy", "envoy"}, list : 0 .. Start,
                     root : {0} \cup Bundles]
      /\ proxy'.kind = kind /\ proxy'.list > 0 /\ proxy'.root > 0
  BY <1>1, <1>2
<1>4. at' \in Places /\ (at' = "failed" \/ at' = at)
  BY DEF TypeOK, Places
<1>5. TypeOK'
  <2>1. CommandTypeOK'
    BY <1>2, <1>3 DEF TypeOK, CommandTypeOK
  <2> QED
    BY <2>1, <1>2, <1>4 DEF TypeOK
<1>6. GeneratedInv'
  BY <1>2, <1>3 DEF RouteInv, GeneratedInv
<1>7. RequestInv'
  BY DEF RouteInv, RequestInv, Proxied, Type
<1>8. PlaceInv'
  BY <1>3
     DEF RouteInv, RequestInv, PlaceInv, Proxied, Type, Outside, HAProxyPlaces, EnvoyPlaces,
         Sections
<1>9. WireInv'
  BY <1>4 DEF RouteInv, RequestInv, WireInv, Proxied, Type, Outside, Sections
<1>10. DestInv'
  BY <1>2, <1>4 DEF RouteInv, DestInv, Owner
<1>11. ASSUME fresh' PROVE fresh /\ ~Proxied /\ ~Proxied' /\ at' = at
  BY <1>11 DEF Proxied
<1>12. FreshInv'
  BY <1>2, <1>11 DEF RouteInv, RequestInv, FreshInv, Proxied, Supported, Type
<1>13. ReachesNamedBackend'
  BY <1>11 DEF ReachesNamedBackend, Supported
<1> QED
  BY <1>5, <1>6, <1>7, <1>8, <1>9, <1>10, <1>12, <1>13 DEF RouteInv

-----------------------------------------------------------------------------
(* The clients.                                                            *)

LEMMA IssueInv == Inv /\ Issue => Inv'
<1> SUFFICES ASSUME Inv, Issue PROVE Inv'
  OBVIOUS
<1> USE DEF Inv, Issue, commands
<1>1. PICK f \in RequestFiles, by \in {"test", "gomb"} :
        \E b \in filterInTrafficByType(RequestConfigs[f[2]], requests) \cap GenHosts :
          Send(f[1], by, b)
  OBVIOUS
<1>2. PICK b \in filterInTrafficByType(RequestConfigs[f[2]], requests) : Send(f[1], by, b)
  BY <1>1
<1> DEFINE w == f[1]
           scheme == SchemeIn(w, b)
           number == IF by = "test" THEN port(scheme) ELSE PortIn(w, b, requests)
<1>3. /\ requests # 0 /\ b \in Backends /\ TrafficType(b) \in RequestConfigs[f[2]]
  BY DEF filterInTrafficByType
<1>4. w \in Workloads /\ (w = "haproxy-reencrypt-only" => TrafficType(b) = "reencrypt")
  BY <1>3 DEF RequestFiles, RequestConfigs
<1>5. Start \in Nat /\ Start' = Start /\ Bundles' = Bundles /\ requests \in 1 .. Start
  BY <1>3, BundleFacts DEF TypeOK, CommandTypeOK, Start
<1>6. /\ req' = [workload |-> w, by |-> by, host |-> b, scheme |-> scheme, port |-> number]
      /\ wire' = (IF scheme = "http" THEN "http" ELSE "tls")
      /\ at' = (IF w = "direct" THEN "dialling" ELSE "connecting")
      /\ dest' = (IF w = "direct" THEN number ELSE 0)
      /\ opened' = FALSE /\ trusts' = 0 /\ server' = Nobody
      /\ fresh' = Current(w, b)
  BY <1>2 DEF Send
<1>7. scheme \in {"http", "https"}
  BY <1>4 DEF SchemeIn, directSchemeSelector, haproxySchemeSelector
<1>8. number \in Nat
  <2>1. port(scheme) \in Nat
    BY PortNumbers DEF port
  <2>2. PortIn(w, b, requests) \in Nat
    BY <1>3, <1>5, ListFacts, PortNumbers
       DEF PortIn, directPortSelector, haproxyPortSelector, haproxySNIOnlyPortSelector
  <2> QED
    BY <2>1, <2>2
<1>9. TypeOK'
  <2>1. CommandTypeOK'
    BY <1>5 DEF TypeOK, CommandTypeOK
  <2>2. req' \in [workload : Workloads \cup {"none"}, by : {"test", "gomb"},
                  host : Backends \cup {Nobody}, scheme : {"http", "https"}, port : Nat]
    BY <1>3, <1>4, <1>6, <1>7, <1>8
  <2>3. at' \in Places /\ fresh' \in BOOLEAN
    BY <1>6 DEF Places, Current
  <2>4. dest' \in Nat /\ trusts' \in {0} \cup Bundles'
    BY <1>5, <1>6, <1>8
  <2> QED
    BY <2>1, <2>2, <2>3, <2>4, <1>6 DEF TypeOK
<1>10. GeneratedInv'
  BY <1>5 DEF RouteInv, GeneratedInv
<1>11. Proxied' = (w # "direct") /\ Type' = TrafficType(b)
  BY <1>4, <1>6 DEF Proxied, Type, Workloads
<1>12. ASSUME w # "direct"
       PROVE  /\ scheme = haproxySchemeSelector(b)
              /\ IF TrafficType(b) = "http" THEN number = HTTPPort
                 ELSE number = HTTPSPort
                      \/ (number = HTTPSPortSNIOnly /\ TrafficType(b) = "reencrypt")
  BY <1>3, <1>4, <1>12, ProxiedRequest DEF Workloads
<1>13. RequestInv'
  BY <1>3, <1>4, <1>6, <1>11, <1>12 DEF RequestInv, Workloads
<1>14. PlaceInv'
  BY <1>6, <1>11 DEF PlaceInv, Outside, Sections, HAProxyPlaces, EnvoyPlaces
<1>15. WireInv'
  BY <1>6, <1>11, <1>12 DEF WireInv, Outside, Sections, haproxySchemeSelector
<1>16. ASSUME fresh' PROVE Current(w, b)' /\ (w = "direct" => requests = Start)
  BY <1>5, <1>6, <1>16 DEF Current
<1>17. ASSUME w = "direct", fresh', Supported' PROVE dest' = ports'[Start'][b]
  <2>1. by # "test"
    BY <1>6, <1>17 DEF Supported
  <2> QED
    BY <2>1, <1>5, <1>6, <1>16, <1>17 DEF PortIn, directPortSelector
<1>18. w = "direct" => wire' = Serves(b)
  BY <1>3, <1>6, DirectRequest
<1>19. FreshInv'
  BY <1>5, <1>6, <1>16, <1>17, <1>18 DEF FreshInv
<1>20. ReachesNamedBackend'
  BY <1>6 DEF ReachesNamedBackend
<1>21. DestInv'
  <2>1. w = "direct" => number \in ProxyPorts \/ number = ports[requests][b]
    BY DEF PortIn, directPortSelector, port, ProxyPorts
  <2> QED
    BY <2>1, <1>5, <1>6 DEF DestInv
<1> QED
  BY <1>9, <1>10, <1>13, <1>14, <1>15, <1>19, <1>20, <1>21 DEF RouteInv

-----------------------------------------------------------------------------
(* The way through a proxy.                                                *)

\* A step to another place leaves the commands and the request alone.
LEMMA GotoKeeps ==
  ASSUME TypeOK, NEW place \in Places, Goto(place),
         wire' \in {"http", "tls"}, opened' \in BOOLEAN
  PROVE  /\ TypeOK'
         /\ Start' = Start /\ Start \in Nat
         /\ Proxied' = Proxied /\ Type' = Type /\ Supported' = Supported
         /\ Current(req.workload, req.host)' = Current(req.workload, req.host)
<1>1. Start' = Start /\ Start \in Nat /\ Bundles' = Bundles
  BY BundleFacts DEF Goto, commands, Start
<1>2. CommandTypeOK'
  BY <1>1 DEF Goto, commands, TypeOK, CommandTypeOK
<1>3. Proxied' = Proxied /\ Type' = Type
  BY DEF Goto, Proxied, Type
<1> QED
  BY <1>1, <1>2, <1>3 DEF Goto, commands, TypeOK, Supported, Current

\* A request may fail anywhere, but not when it is fresh and supported.
LEMMA FailInv ==
  ASSUME Inv, Fail, at # "client", ~(fresh /\ Supported)
  PROVE  Inv'
<1> USE DEF Inv, Fail, Goto
<1>1. TypeOK' /\ Start' = Start /\ Supported' = Supported /\ Proxied' = Proxied
      /\ Current(req.workload, req.host)' = Current(req.workload, req.host)
  BY GotoKeeps DEF Places, TypeOK
<1>2. GeneratedInv' /\ RequestInv'
  BY <1>1 DEF RouteInv, GeneratedInv, RequestInv, commands, Proxied, Type
<1>3. PlaceInv' /\ WireInv' /\ DestInv'
  BY DEF PlaceInv, WireInv, DestInv, Outside, Sections, HAProxyPlaces, EnvoyPlaces
<1>4. FreshInv'
  BY <1>1 DEF RouteInv, FreshInv
<1> QED
  BY <1>1, <1>2, <1>3, <1>4 DEF RouteInv, ReachesNamedBackend

LEMMA PlacesAreApart ==
  /\ {"client", "failed", "server", "dialling"} \cap (Outside \cup Sections \cup {"cluster"}) = {}
  /\ Outside \cap (Sections \cup {"cluster"}) = {}
  /\ Outside \cup Sections \cup {"cluster"} \subseteq Places
  BY DEF Outside, Sections, Places

\* A step that leads on to another place of a proxy.
LEMMA MoveInv ==
  ASSUME Inv, at # "client", NEW place \in Outside \cup Sections \cup {"cluster"}, Goto(place),
         wire' \in {"http", "tls"}, opened' \in BOOLEAN,
         PlaceInv', WireInv', fresh /\ place = "fe_sni" => Type # "passthrough"
  PROVE  Inv'
<1> USE DEF Inv
<1>1. /\ TypeOK' /\ Start' = Start /\ Supported' = Supported /\ Type' = Type
      /\ Proxied' = Proxied
      /\ Current(req.workload, req.host)' = Current(req.workload, req.host)
  BY GotoKeeps, PlacesAreApart
<1>2. at' = place /\ at' \notin {"client", "failed", "server", "dialling"}
  BY PlacesAreApart DEF Goto
<1>3. GeneratedInv' /\ RequestInv' /\ DestInv'
  BY <1>1, <1>2 DEF Goto, RouteInv, GeneratedInv, RequestInv, DestInv, commands, Proxied, Type
<1>4. FreshInv'
  BY <1>1, <1>2 DEF Goto, RouteInv, FreshInv
<1> QED
  BY <1>1, <1>2, <1>3, <1>4 DEF RouteInv, ReachesNamedBackend

\* A fresh request through a proxy: its list is the list of the running start.
LEMMA FreshList ==
  ASSUME Inv, fresh, Proxied
  PROVE  /\ proxy.list = Start /\ Start > 0
         /\ Type = "reencrypt" => proxy.root = leaf[req.host]
         /\ req.host \in Backends
         /\ \A types \in SUBSET AllTrafficTypes :
              req.host \in filterBackendsByType(types, proxy.list) <=> Type \in types
<1>1. Start \in Nat /\ Start > 0
  BY DEF Inv, TypeOK, CommandTypeOK, Start, RouteInv, FreshInv
<1>2. proxy.list = Start /\ (Type = "reencrypt" => proxy.root = leaf[req.host])
  BY DEF Inv, RouteInv, FreshInv, Current, Proxied, Type
<1>3. req.host \in Backends
  BY DEF Inv, RouteInv, RequestInv, FreshInv
<1> QED
  BY <1>1, <1>2, <1>3 DEF filterBackendsByType, Type

\* What a map file leads to, and when it has an entry.
LEMMA MapFacts ==
  ASSUME NEW types \in SUBSET AllTrafficTypes, TypeOK,
         NEW m, m = MapFile(types, proxy.list)
  PROVE  /\ InMap(m) <=> req.host \in filterBackendsByType(types, proxy.list)
         /\ InMap(m) => /\ Type \in types
                        /\ m[req.host] = SectionName(req.host)
                        /\ m[req.host] \in Sections
<1>1. DOMAIN m = filterBackendsByType(types, proxy.list)
  BY DEF MapFile
<1>2. ASSUME req.host \in DOMAIN m
      PROVE  /\ Type \in types /\ m[req.host] = SectionName(req.host)
             /\ m[req.host] \in Sections /\ HasSection(m[req.host], req.host)
  <2>1. /\ req.host \in Backends /\ proxy.list # 0 /\ Type \in types
        /\ Type \in AllTrafficTypes /\ TrafficType(req.host) = Type
    BY <1>1, <1>2 DEF filterBackendsByType, Type
  <2>2. m[req.host] = MapEntry[Type]
    BY <1>1, <1>2 DEF MapFile, Type
  <2>3. MapEntry[Type] = SectionName(req.host) /\ SectionName(req.host) \in Sections
    BY <2>1 DEF MapEntry, SectionName, AllTrafficTypes, Sections
  <2> QED
    BY <2>1, <2>2, <2>3 DEF HasSection, filterBackendsByType
<1> QED
  BY <1>1, <1>2 DEF InMap

LEMMA ConnectInv == Inv /\ Connect => Inv'
<1> SUFFICES ASSUME Inv, Connect PROVE Inv'
  OBVIOUS
<1> USE DEF Connect
<1>1. at = "connecting" /\ Proxied /\ at \in Outside
  BY DEF Inv, RouteInv, PlaceInv, Outside
<1>2. req.host \in Backends /\ Type \in AllTrafficTypes
  BY <1>1, BackendFacts DEF Inv, RouteInv, RequestInv, Type
<1>3. CASE \E l \in Listeners : l.port = req.port /\ Forward(l.name)
  <2>1. PICK l \in Listeners : l.port = req.port /\ Forward(l.name)
    BY <1>3
  <2>2. CASE proxy.kind = "haproxy"
    <3>1. l \in HAProxyFrontends
      BY <2>2 DEF Listeners
    <3>2. /\ l.name \in {"public", "public_ssl", "public_ssl_sni_only"}
          /\ l.name = "public" => req.port = HTTPPort
          /\ l.name = "public_ssl" => req.port = HTTPSPort
          /\ l.name = "public_ssl_sni_only" => req.port = HTTPSPortSNIOnly
      BY <2>1, <3>1 DEF HAProxyFrontends
    <3>3. PlaceInv' /\ WireInv'
      BY <1>1, <2>1, <2>2, <3>2
         DEF Inv, RouteInv, PlaceInv, WireInv, Forward, Goto, commands, Outside, Sections,
             HAProxyPlaces, EnvoyPlaces, Proxied, Type
    <3> QED
      BY <1>1, <2>1, <3>2, <3>3, MoveInv DEF Forward, Outside, Inv, TypeOK
  <2>3. CASE proxy.kind = "envoy"
    <3>1. l \in EnvoyListeners
      BY <2>3 DEF Listeners
    <3>2. /\ l.name \in {"listener_http", "listener_https"}
          /\ l.name = "listener_http" => req.port = proxyHttpPort
          /\ l.name = "listener_https" => req.port = proxyHttpsPort
      BY <2>1, <3>1 DEF EnvoyListeners
    <3>3. PlaceInv' /\ WireInv'
      BY <1>1, <2>1, <2>3, <3>2
         DEF Inv, RouteInv, PlaceInv, WireInv, Forward, Goto, commands, Outside, Sections,
             HAProxyPlaces, EnvoyPlaces, Proxied, Type
    <3> QED
      BY <1>1, <2>1, <3>2, <3>3, MoveInv DEF Forward, Outside, Inv, TypeOK
  <2> QED
    BY <2>1, <2>2, <2>3 DEF Listeners
<1>4. CASE (\A l \in Listeners : l.port # req.port) /\ Fail
  <2>1. ~(fresh /\ Supported)
    <3> SUFFICES ASSUME fresh, Supported PROVE FALSE
      OBVIOUS
    <3>1. proxy.kind \in {"haproxy", "envoy"}
      BY <1>1 DEF Inv, TypeOK, CommandTypeOK, RouteInv, FreshInv, Current, Proxied
    <3>2. CASE proxy.kind = "haproxy"
      <4>1. req.port \in {HTTPPort, HTTPSPort, HTTPSPortSNIOnly}
        BY <1>1 DEF Inv, RouteInv, RequestInv
      <4> QED
        BY <1>4, <3>2, <4>1 DEF Listeners, HAProxyFrontends
    <3>3. CASE proxy.kind = "envoy"
      <4>1. req.port \in {proxyHttpPort, proxyHttpsPort}
        BY <1>1, <3>3 DEF Supported
      <4> QED
        BY <1>4, <3>3, <4>1 DEF Listeners, EnvoyListeners
    <3> QED
      BY <3>1, <3>2, <3>3
  <2> QED
    BY <1>1, <1>4, <2>1, FailInv
<1> QED
  BY <1>3, <1>4

LEMMA PublicInv == Inv /\ Public => Inv'
<1> SUFFICES ASSUME Inv, Public PROVE Inv'
  OBVIOUS
<1>1. /\ at = "public" /\ Proxied /\ proxy.kind = "haproxy" /\ req.port = HTTPPort
      /\ req.scheme = haproxySchemeSelector(req.host) /\ Type = "http"
  BY PortNumbers
     DEF Public, Inv, RouteInv, RequestInv, PlaceInv, Outside, HAProxyPlaces
<1>2. wire = "http" /\ ~opened
  BY <1>1 DEF Inv, RouteInv, WireInv, Outside, TypeOK
<1>3. /\ os_http_be = MapFile({"http"}, proxy.list) /\ {"http"} \in SUBSET AllTrafficTypes
      /\ {} \in SUBSET AllTrafficTypes /\ TypeOK
  BY DEF os_http_be, AllTrafficTypes, Inv
<1>4. CASE InMap(os_http_be) /\ req.host \notin os_route_http_redirect
  <2>1. Forward(os_http_be[req.host])
    BY <1>2, <1>4 DEF Public
  <2>2. os_http_be[req.host] = SectionName(req.host) /\ os_http_be[req.host] \in Sections
    BY <1>3, <1>4, MapFacts
  <2>3. PlaceInv' /\ WireInv'
    BY <1>1, <1>2, <2>1, <2>2
       DEF Forward, Goto, commands, PlaceInv, WireInv, Outside, Sections, HAProxyPlaces,
           EnvoyPlaces, Proxied, Type
  <2>4. os_http_be[req.host] # "fe_sni"
    BY <2>2 DEF Sections
  <2> QED
    BY <1>1, <2>1, <2>2, <2>3, <2>4, MoveInv DEF Forward, Inv, TypeOK
<1>5. CASE ~(InMap(os_http_be) /\ req.host \notin os_route_http_redirect)
  <2>1. ~fresh
    BY <1>1, <1>3, <1>5, FreshList, MapFacts DEF os_route_http_redirect
  <2> QED
    BY <1>1, <1>5, <2>1, FailInv DEF Public
<1> QED
  BY <1>4, <1>5

LEMMA PublicSSLInv == Inv /\ PublicSSL => Inv'
<1> SUFFICES ASSUME Inv, PublicSSL PROVE Inv'
  OBVIOUS
<1>1. /\ at = "public_ssl" /\ Proxied /\ proxy.kind = "haproxy" /\ req.port = HTTPSPort
      /\ Type # "http"
  BY PortNumbers
     DEF PublicSSL, Inv, RouteInv, RequestInv, PlaceInv, Outside, HAProxyPlaces
<1>2. wire = "tls" /\ ~opened
  BY <1>1 DEF Inv, RouteInv, WireInv, Outside, TypeOK
<1>3. /\ os_tcp_be = MapFile({"passthrough"}, proxy.list)
      /\ {"passthrough"} \in SUBSET AllTrafficTypes /\ TypeOK
  BY DEF os_tcp_be, AllTrafficTypes, Inv
<1>4. CASE req.host \notin os_sni_passthrough
  <2>1. Forward("fe_sni") /\ "fe_sni" \in Outside
    BY <1>2, <1>4 DEF PublicSSL, be_sni, Outside
  <2>2. PlaceInv' /\ WireInv'
    BY <1>1, <1>2, <2>1
       DEF Forward, Goto, commands, PlaceInv, WireInv, Outside, Sections, HAProxyPlaces,
           EnvoyPlaces, Proxied, Type
  <2>3. fresh => Type # "passthrough"
    BY <1>1, <1>3, <1>4, FreshList DEF os_sni_passthrough
  <2> QED
    BY <1>1, <2>1, <2>2, <2>3, MoveInv DEF Forward, Inv, TypeOK
<1>5. CASE req.host \in os_sni_passthrough
  <2>1. InMap(os_tcp_be)
    BY <1>3, <1>5, MapFacts DEF os_sni_passthrough
  <2>2. Forward(os_tcp_be[req.host])
    BY <1>2, <1>5, <2>1 DEF PublicSSL
  <2>3. /\ os_tcp_be[req.host] = SectionName(req.host) /\ os_tcp_be[req.host] \in Sections
        /\ Type = "passthrough"
    BY <1>3, <2>1, MapFacts
  <2>4. PlaceInv' /\ WireInv'
    BY <1>1, <1>2, <2>2, <2>3
       DEF Forward, Goto, commands, PlaceInv, WireInv, Outside, Sections, HAProxyPlaces,
           EnvoyPlaces, Proxied, Type
  <2>5. os_tcp_be[req.host] # "fe_sni"
    BY <2>3 DEF Sections
  <2> QED
    BY <1>1, <2>2, <2>3, <2>4, <2>5, MoveInv DEF Forward, Inv, TypeOK
<1> QED
  BY <1>4, <1>5

LEMMA TerminateTLSInv == Inv /\ (FeSNI \/ PublicSSLSNIOnly) => Inv'
<1> SUFFICES ASSUME Inv, FeSNI \/ PublicSSLSNIOnly PROVE Inv'
  OBVIOUS
<1>1. /\ at \in {"fe_sni", "public_ssl_sni_only"} /\ Proxied /\ proxy.kind = "haproxy"
      /\ TerminateTLS
  BY DEF FeSNI, PublicSSLSNIOnly, Inv, RouteInv, PlaceInv, Outside, HAProxyPlaces
<1>2. at = "public_ssl_sni_only" => Type = "reencrypt"
  BY <1>1, PortNumbers DEF Inv, RouteInv, RequestInv, PlaceInv
<1>3. /\ os_edge_reencrypt_be = MapFile({"reencrypt", "edge"}, proxy.list)
      /\ {"reencrypt", "edge"} \in SUBSET AllTrafficTypes /\ TypeOK
  BY DEF os_edge_reencrypt_be, AllTrafficTypes, Inv
<1>4. CASE wire = "tls" /\ InMap(os_edge_reencrypt_be)
  <2>1. Terminate(os_edge_reencrypt_be[req.host])
    BY <1>1, <1>4 DEF TerminateTLS
  <2>2. /\ os_edge_reencrypt_be[req.host] = SectionName(req.host)
        /\ os_edge_reencrypt_be[req.host] \in Sections
        /\ Type \in {"reencrypt", "edge"}
    BY <1>3, <1>4, MapFacts
  <2>3. PlaceInv' /\ WireInv'
    BY <1>1, <2>1, <2>2
       DEF Terminate, Goto, commands, PlaceInv, WireInv, Outside, Sections, HAProxyPlaces,
           EnvoyPlaces, Proxied, Type
  <2>4. os_edge_reencrypt_be[req.host] # "fe_sni"
    BY <2>2 DEF Sections
  <2> QED
    BY <1>1, <2>1, <2>2, <2>3, <2>4, MoveInv DEF Terminate
<1>5. CASE ~(wire = "tls" /\ InMap(os_edge_reencrypt_be))
  <2>1. ~fresh
    <3> SUFFICES ASSUME fresh PROVE FALSE
      OBVIOUS
    <3>1. req.host \in Backends /\ Type \in AllTrafficTypes
      BY <1>1, FreshList, BackendFacts DEF Type
    <3>2. Type # "http"
      BY <1>1, <1>2, PortNumbers DEF Inv, RouteInv, PlaceInv, RequestInv
    <3>3. wire = "tls"
      BY <1>1, <3>2 DEF Inv, RouteInv, WireInv, Outside
    <3>4. Type \in {"reencrypt", "edge"}
      BY <1>1, <1>2, <3>1, <3>2 DEF Inv, RouteInv, FreshInv, AllTrafficTypes
    <3> QED
      BY <1>1, <1>3, <1>5, <3>3, <3>4, FreshList, MapFacts
  <2> QED
    BY <1>1, <1>5, <2>1, FailInv DEF TerminateTLS
<1> QED
  BY <1>4, <1>5

\* A section or a cluster dials the server of the request: over TLS, checked
\* against the root of the proxy, when the request is of a reencrypt backend.
LEMMA DialInv ==
  ASSUME Inv, at \in Sections \cup {"cluster"},
         NEW root, Type = "reencrypt" => root = proxy.root,
         DialAs(ports[proxy.list][req.host], Type = "reencrypt", root)
  PROVE  Inv'
<1> USE DEF Inv, DialAs, commands
<1>1. /\ Proxied /\ at # "client" /\ req.host \in Backends
      /\ proxy.kind \in {"haproxy", "envoy"} /\ Type \in AllTrafficTypes
  <2>1. Proxied /\ at # "client"
    BY DEF RouteInv, PlaceInv, Sections
  <2>2. proxy.kind \in {"haproxy", "envoy"}
    BY DEF RouteInv, PlaceInv, HAProxyPlaces, EnvoyPlaces
  <2> QED
    BY <2>1, <2>2, BackendFacts DEF RouteInv, RequestInv, Type
<1>2. /\ Start \in Nat /\ Start' = Start /\ Bundles' = Bundles
      /\ proxy.list \in 1 .. Start /\ proxy.root \in Bundles /\ proxy.root > 0
  <2>1. Start \in Nat /\ Start' = Start /\ Bundles' = Bundles /\ Bundles \subseteq Nat \ {0}
    BY BundleFacts DEF Start
  <2>2. proxy.list \in 0 .. Start /\ proxy.root \in {0} \cup Bundles
    BY DEF TypeOK, CommandTypeOK
  <2> QED
    BY <1>1, <2>1, <2>2 DEF RouteInv, GeneratedInv
<1>3. ports[proxy.list][req.host] \in Nat
  BY <1>1, <1>2, ListFacts
<1>4. TypeOK'
  <2>1. CommandTypeOK'
    BY <1>2 DEF TypeOK, CommandTypeOK
  <2>2. at' \in Places /\ trusts' \in {0} \cup Bundles'
    BY <1>2 DEF Places
  <2> QED
    BY <2>1, <2>2, <1>3 DEF TypeOK
<1>5. Proxied' = Proxied /\ Type' = Type /\ Supported' = Supported
  BY DEF Proxied, Type, Supported
<1>6. GeneratedInv' /\ RequestInv' /\ PlaceInv'
  BY <1>1, <1>2, <1>5
     DEF RouteInv, GeneratedInv, RequestInv, PlaceInv, Outside, Sections, HAProxyPlaces,
         EnvoyPlaces
<1>7. WireInv'
  BY <1>1, <1>2, <1>5 DEF RouteInv, WireInv, Outside, Sections
<1>8. ASSUME fresh
      PROVE  /\ proxy.list = Start /\ Start > 0
             /\ Current(req.workload, req.host)' /\ wire' = Serves(req.host)
             /\ trusts' # 0 => req.host \in TLSBackends /\ trusts' = leaf[req.host]
  <2>1. wire' = Serves(req.host)
    BY <1>1 DEF RouteInv, WireInv, TypeOK, Serves, AllTrafficTypes, Type
  <2>2. Type = "reencrypt" => req.host \in TLSBackends
    BY <1>1, BackendFacts DEF Type
  <2> QED
    BY <2>1, <2>2, <1>1, <1>2, <1>8, FreshList DEF RouteInv, FreshInv, Current
<1>9. FreshInv'
  BY <1>2, <1>8 DEF FreshInv
<1>11. DestInv'
  BY <1>2 DEF DestInv
<1>10. ReachesNamedBackend'
  BY DEF ReachesNamedBackend
<1> QED
  BY <1>4, <1>6, <1>7, <1>9, <1>10, <1>11 DEF RouteInv

LEMMA SectionInv == Inv /\ Section => Inv'
<1> SUFFICES ASSUME Inv, Section PROVE Inv'
  OBVIOUS
<1>1. /\ at \in Sections /\ at = SectionName(req.host)
      /\ DialAs(ServerPort(req.host), ServerSSL(at), ServerVerify(at))
  BY DEF Section, Inv, RouteInv, PlaceInv
<1>2. Type \in AllTrafficTypes
  <2>1. at # "client"
    BY <1>1 DEF Sections
  <2> QED
    BY <2>1, BackendFacts DEF Inv, RouteInv, RequestInv, Type
<1>3. (at = "be_secure") = (Type = "reencrypt")
  BY <1>1, <1>2 DEF SectionName, AllTrafficTypes, Type
<1> DEFINE root == ServerVerify(at)
<1>4. Type = "reencrypt" => root = proxy.root
  BY <1>3 DEF ServerVerify
<1>5. DialAs(ports[proxy.list][req.host], Type = "reencrypt", root)
  BY <1>1, <1>3 DEF ServerPort, ServerSSL
<1> HIDE DEF root
<1> QED
  BY <1>1, <1>4, <1>5, DialInv

LEMMA ClusterInv == Inv /\ Cluster => Inv'
<1> SUFFICES ASSUME Inv, Cluster PROVE Inv'
  OBVIOUS
<1>1. DialAs(ports[proxy.list][req.host], Type = "reencrypt", proxy.root)
  BY DEF Cluster, ClusterPort, ClusterTLS, Type
<1>2. at \in Sections \cup {"cluster"}
  BY DEF Cluster
<1> QED
  BY <1>1, <1>2, DialInv

LEMMA ListenerHTTPInv == Inv /\ ListenerHTTP => Inv'
<1> SUFFICES ASSUME Inv, ListenerHTTP PROVE Inv'
  OBVIOUS
<1>1. /\ at = "listener_http" /\ Proxied /\ proxy.kind = "envoy" /\ req.port = proxyHttpPort
      /\ req.scheme = haproxySchemeSelector(req.host)
  BY DEF ListenerHTTP, Inv, RouteInv, RequestInv, PlaceInv, Outside, EnvoyPlaces
<1>2. CASE wire = "http" /\ <<req.host, req.port>> \in httpVirtualHosts
  <2>1. Forward("cluster") /\ Type = "http" /\ ~opened
    BY <1>1, <1>2
       DEF ListenerHTTP, httpVirtualHosts, filterBackendsByType, Type, Inv, RouteInv, WireInv,
           Outside
  <2>2. PlaceInv' /\ WireInv'
    BY <1>1, <1>2, <2>1
       DEF Forward, Goto, commands, PlaceInv, WireInv, Outside, Sections, HAProxyPlaces,
           EnvoyPlaces, Proxied, Type
  <2> QED
    BY <1>1, <2>1, <2>2, MoveInv DEF Forward, Inv, TypeOK
<1>3. CASE ~(wire = "http" /\ <<req.host, req.port>> \in httpVirtualHosts)
  <2>1. ~(fresh /\ Supported)
    <3> SUFFICES ASSUME fresh, Supported PROVE FALSE
      OBVIOUS
    <3>1. Type = "http"
      BY <1>1 DEF Supported, haproxySchemeSelector, Type, proxyHttpPort, proxyHttpsPort
    <3>2. wire = "http"
      BY <1>1, <3>1 DEF Inv, RouteInv, WireInv, Outside, TypeOK
    <3>3. {"http"} \in SUBSET AllTrafficTypes
      BY DEF AllTrafficTypes
    <3> QED
      BY <1>1, <1>3, <3>1, <3>2, <3>3, FreshList DEF httpVirtualHosts
  <2> QED
    BY <1>1, <1>3, <2>1, FailInv DEF ListenerHTTP
<1> QED
  BY <1>2, <1>3

LEMMA ListenerHTTPSInv == Inv /\ ListenerHTTPS => Inv'
<1> SUFFICES ASSUME Inv, ListenerHTTPS PROVE Inv'
  OBVIOUS
<1>1. /\ at = "listener_https" /\ Proxied /\ proxy.kind = "envoy"
      /\ req.port = proxyHttpsPort /\ req.scheme = haproxySchemeSelector(req.host)
  BY DEF ListenerHTTPS, Inv, RouteInv, RequestInv, PlaceInv, Outside, EnvoyPlaces
<1>2. CASE wire = "tls" /\ req.host \in passthroughFilterChains
  <2>1. Forward("cluster") /\ Type = "passthrough" /\ ~opened
    BY <1>1, <1>2
       DEF ListenerHTTPS, passthroughFilterChains, filterBackendsByType, Type, Inv, RouteInv,
           WireInv, Outside
  <2>2. PlaceInv' /\ WireInv'
    BY <1>1, <1>2, <2>1
       DEF Forward, Goto, commands, PlaceInv, WireInv, Outside, Sections, HAProxyPlaces,
           EnvoyPlaces, Proxied, Type
  <2> QED
    BY <1>1, <2>1, <2>2, MoveInv DEF Forward, Inv, TypeOK
<1>3. CASE /\ wire = "tls" /\ req.host \notin passthroughFilterChains
           /\ <<req.host, req.port>> \in httpsVirtualHosts
  <2>1. Terminate("cluster") /\ Type \in {"edge", "reencrypt"}
    BY <1>3 DEF ListenerHTTPS, httpsVirtualHosts, filterBackendsByType, Type
  <2>2. PlaceInv' /\ WireInv'
    BY <1>1, <1>3, <2>1
       DEF Terminate, Goto, commands, PlaceInv, WireInv, Outside, Sections, HAProxyPlaces,
           EnvoyPlaces, Proxied, Type
  <2> QED
    BY <1>1, <2>1, <2>2, MoveInv DEF Terminate
<1>4. CASE \/ wire # "tls"
           \/ /\ req.host \notin passthroughFilterChains
              /\ <<req.host, req.port>> \notin httpsVirtualHosts
  <2>1. ~(fresh /\ Supported)
    <3> SUFFICES ASSUME fresh, Supported PROVE FALSE
      OBVIOUS
    <3>1. Type # "http"
      BY <1>1 DEF Supported, haproxySchemeSelector, Type, proxyHttpPort, proxyHttpsPort
    <3>2. wire = "tls"
      BY <1>1, <3>1 DEF Inv, RouteInv, WireInv, Outside
    <3>3. /\ {"passthrough"} \in SUBSET AllTrafficTypes
          /\ {"edge", "reencrypt"} \in SUBSET AllTrafficTypes
      BY DEF AllTrafficTypes
    <3>4. Type \in AllTrafficTypes
      BY <1>1, FreshList, BackendFacts DEF Type
    <3> QED
      BY <1>1, <1>4, <3>1, <3>2, <3>3, <3>4, FreshList
         DEF httpsVirtualHosts, passthroughFilterChains, AllTrafficTypes
  <2> QED
    BY <1>1, <1>4, <2>1, FailInv DEF ListenerHTTPS
<1> QED
  BY <1>2, <1>3, <1>4

-----------------------------------------------------------------------------
(* The backends.                                                           *)

\* A fresh and supported request is at the port of its backend, with what it
\* serves and the bundle its certificate is of.
LEMMA FreshDial ==
  ASSUME Inv, at = "dialling", fresh, Supported
  PROVE  /\ req.host \in Backends /\ Start \in Nat /\ Start > 0
         /\ Owner(req.host) /\ wire = Serves(req.host) /\ Verified(req.host)
         /\ \A b \in Backends : Owner(b) => b = req.host
<1>1. /\ req.host \in Backends /\ Start \in Nat /\ Start > 0
      /\ dest = ports[Start][req.host] /\ wire = Serves(req.host)
      /\ trusts # 0 => trusts = leaf[req.host]
  BY DEF Inv, TypeOK, CommandTypeOK, Start, RouteInv, RequestInv, FreshInv
<1>2. \A b, c \in Backends : ports[Start][b] = ports[Start][c] => b = c
  BY <1>1, ListFacts DEF Inv
<1> QED
  BY <1>1, <1>2 DEF Owner, Verified, SubjectAlternateNames

LEMMA AcceptInv == Inv /\ Accept => Inv'
<1> SUFFICES ASSUME Inv, Accept PROVE Inv'
  OBVIOUS
<1> USE DEF Inv, commands
<1>1. PICK b \in Backends : Owner(b) /\ wire = Serves(b) /\ Verified(b) /\ server' = b
  BY DEF Accept
<1>2. /\ at = "dialling" /\ at' = "server"
      /\ UNCHANGED <<commands, req, wire, opened, dest, trusts, fresh>>
  BY DEF Accept
<1>3. Start' = Start /\ Bundles' = Bundles /\ Proxied' = Proxied /\ Type' = Type /\ Supported' = Supported
      /\ Current(req.workload, req.host)' = Current(req.workload, req.host)
  BY <1>2, BundleFacts DEF Start, Proxied, Type, Supported, Current
<1>4. TypeOK'
  <2>1. CommandTypeOK'
    BY <1>2, <1>3 DEF TypeOK, CommandTypeOK
  <2> QED
    BY <2>1, <1>1, <1>2, <1>3 DEF TypeOK, Places
<1>5. GeneratedInv' /\ RequestInv' /\ PlaceInv'
  BY <1>2, <1>3
     DEF RouteInv, GeneratedInv, RequestInv, PlaceInv, Outside, Sections, HAProxyPlaces,
         EnvoyPlaces
<1>6. WireInv' /\ DestInv'
  BY <1>1, <1>2, <1>3 DEF RouteInv, WireInv, DestInv, Owner, Verified, Outside, Sections
<1>7. FreshInv'
  BY <1>2, <1>3 DEF RouteInv, FreshInv
<1>8. ReachesNamedBackend'
  BY <1>1, <1>2, <1>3, FreshDial DEF ReachesNamedBackend
<1> QED
  BY <1>4, <1>5, <1>6, <1>7, <1>8 DEF RouteInv

LEMMA RefuseInv == Inv /\ Refuse => Inv'
  BY FreshDial, FailInv DEF Refuse

-----------------------------------------------------------------------------
LEMMA StepInv == Inv /\ [Next]_vars => Inv'
<1> SUFFICES ASSUME Inv, [Next]_vars PROVE Inv'
  OBVIOUS
<1>1. CASE StartBackends
  BY <1>1, StartBackendsInv
<1>2. CASE GenWorkload
  BY <1>2, GenWorkloadInv
<1>3. ASSUME NEW kind \in {"haproxy", "envoy"}, Configure(kind) PROVE Inv'
  BY <1>3, ConfigureInv
<1>4. CASE Issue
  BY <1>4, IssueInv
<1>5. CASE Connect
  BY <1>5, ConnectInv
<1>6. CASE HAProxyStep
  BY <1>6, PublicInv, PublicSSLInv, TerminateTLSInv, SectionInv DEF HAProxyStep
<1>7. CASE EnvoyStep
  BY <1>7, ListenerHTTPInv, ListenerHTTPSInv, ClusterInv DEF EnvoyStep
<1>8. CASE Accept \/ Refuse
  BY <1>8, AcceptInv, RefuseInv
<1>9. CASE UNCHANGED vars
  BY <1>9
     DEF vars, commands, connection, Inv, TypeOK, CommandTypeOK, Start, RouteInv, GeneratedInv,
         RequestInv, PlaceInv, WireInv, FreshInv, DestInv, Owner, Bundles, ReachesNamedBackend,
         Supported, Proxied, Type, Current
<1> QED
  BY <1>1, <1>2, <1>3, <1>4, <1>5, <1>6, <1>7, <1>8, <1>9 DEF Next, Travel

LEMMA AlwaysInv == Spec => []Inv
  BY InitInv, StepInv, PTL DEF Spec

\* Every variable has its type, under any commands in any order.
THEOREM RoutingTypeCorrect == Spec => []TypeOK
<1>1. Inv => TypeOK
  BY DEF Inv
<1> QED
  BY <1>1, AlwaysInv, PTL

\* At every place of its way a request is what the place expects, whatever was
\* generated when and restarted since.
THEOREM RouteCorrect == Spec => []RouteInv
<1>1. Inv => RouteInv
  BY DEF Inv
<1> QED
  BY <1>1, AlwaysInv, PTL

\* A request that is fresh and supported does not fail, and the backend it names
\* answers it: for any number of backends, any ports of the proxies and whatever
\* bundle each of the others serves.
THEOREM NamedBackendReached == Spec => []ReachesNamedBackend
<1>1. Inv => ReachesNamedBackend
  BY DEF Inv
<1> QED
  BY <1>1, AlwaysInv, PTL

\* A request is answered over the encryption of its traffic type, even by a
\* proxy that has the ports of an earlier start.
THEOREM EncryptionCorrect == Spec => []EncryptionKept
<1>1. Inv => EncryptionKept
  BY DEF Inv, RouteInv, WireInv, EncryptionKept, Type
<1> QED
  BY <1>1, AlwaysInv, PTL

\* Who answers a reencrypt request has shown the proxy a certificate of the
\* bundle whose CA the proxy had, whatever each of them has read and when.
THEOREM TrustNeedsBundle == Spec => []ReencryptTrusted
<1>1. Inv => ReencryptTrusted
  <2> SUFFICES ASSUME Inv, at = "server", Proxied, Type = "reencrypt"
               PROVE  server \in TLSBackends /\ trusts = leaf[server]
    BY DEF ReencryptTrusted, Type
  <2>1. wire = "tls" /\ wire = Serves(server) /\ trusts > 0 /\ (trusts # 0 => trusts = leaf[server])
    BY DEF Inv, RouteInv, WireInv
  <2>2. server \in TLSBackends
    BY <2>1, BackendFacts DEF Inv, RouteInv, DestInv
  <2>3. trusts # 0
    BY <2>1
  <2> QED
    BY <2>1, <2>2, <2>3
<1> QED
  BY <1>1, AlwaysInv, PTL

\* A request that another backend answers was sent to a port that the one it
\* names had in an earlier start: maps, sections, clusters and request files
\* mix up no two backends, for any number of them.
THEOREM OnlyRestartMisleads == Spec => []WrongOnlyByRestart
<1>1. Inv => WrongOnlyByRestart
  <2> SUFFICES ASSUME Inv, at = "server", server # req.host
               PROVE  \E s \in 1 .. Start - 1 : ports[s][req.host] = dest
    BY DEF WrongOnlyByRestart
  <2>1. /\ Start \in Nat /\ Start > 0 /\ server \in Backends /\ req.host \in Backends
        /\ ports[Start][server] = dest
    BY BundleFacts DEF Inv, RouteInv, RequestInv, DestInv, Owner
  <2>2. Start \in 1 .. Start /\ dest \notin ProxyPorts
    BY <2>1, ListFacts DEF Inv
  <2>3. PICK s \in 1 .. Start : ports[s][req.host] = dest
    BY <2>2 DEF Inv, RouteInv, DestInv
  <2>4. s # Start
    BY <2>1, <2>2, <2>3, ListFacts DEF Inv
  <2> QED
    BY <2>1, <2>3, <2>4
<1> QED
  BY <1>1, AlwaysInv, PTL

-----------------------------------------------------------------------------
(* No request travels for ever.                                            *)

\* The most steps a request can still take.
StepsLeft(place) ==
  CASE place = "connecting" -> 5
    [] place = "public_ssl" -> 4
    [] place \in {"public", "public_ssl_sni_only", "fe_sni", "listener_http", "listener_https"} -> 3
    [] place \in Sections \cup {"cluster"} -> 2
    [] place = "dialling" -> 1
    [] OTHER -> 0

LEMMA StepsLeftValues ==
  /\ StepsLeft("connecting") = 5 /\ StepsLeft("public_ssl") = 4
  /\ \A p \in {"public", "public_ssl_sni_only", "fe_sni", "listener_http", "listener_https"} :
       StepsLeft(p) = 3
  /\ \A p \in Sections \cup {"cluster"} : StepsLeft(p) = 2
  /\ StepsLeft("dialling") = 1
  /\ StepsLeft("client") = 0 /\ StepsLeft("server") = 0 /\ StepsLeft("failed") = 0
  BY DEF StepsLeft, Sections

LEMMA MapsLeadToSections ==
  ASSUME TypeOK
  PROVE  \A m \in {os_http_be, os_edge_reencrypt_be, os_tcp_be} :
           InMap(m) => m[req.host] \in Sections
<1>1. \A types \in SUBSET AllTrafficTypes :
        InMap(MapFile(types, proxy.list)) => MapFile(types, proxy.list)[req.host] \in Sections
  BY MapFacts
<1>2. {"http"} \in SUBSET AllTrafficTypes /\ {"reencrypt", "edge"} \in SUBSET AllTrafficTypes
      /\ {"passthrough"} \in SUBSET AllTrafficTypes
  BY DEF AllTrafficTypes
<1> QED
  BY <1>1, <1>2 DEF os_http_be, os_edge_reencrypt_be, os_tcp_be

LEMMA TravelShortens ==
  ASSUME TypeOK, Travel
  PROVE  StepsLeft(at') < StepsLeft(at)
<1> USE StepsLeftValues DEF Forward, Goto, Fail
<1>1. CASE Connect
  <2>1. at = "connecting"
    BY <1>1 DEF Connect
  <2>2. \A l \in Listeners :
          l.name \in {"public", "public_ssl", "public_ssl_sni_only", "listener_http", "listener_https"}
    BY DEF Listeners, HAProxyFrontends, EnvoyListeners
  <2>3. at' \in {"public", "public_ssl", "public_ssl_sni_only", "listener_http", "listener_https",
                 "failed"}
    BY <1>1, <2>2 DEF Connect
  <2> QED
    BY <2>1, <2>3
<1>2. CASE Public
  <2>1. at = "public" /\ at' \in Sections \cup {"failed"}
    BY <1>2, MapsLeadToSections DEF Public
  <2> QED
    BY <2>1
<1>3. CASE PublicSSL
  <2>1. at = "public_ssl" /\ at' \in Sections \cup {"failed", "fe_sni"}
    BY <1>3, MapsLeadToSections DEF PublicSSL, be_sni
  <2> QED
    BY <2>1
<1>4. CASE FeSNI \/ PublicSSLSNIOnly
  <2>1. at \in {"fe_sni", "public_ssl_sni_only"} /\ at' \in Sections \cup {"failed"}
    BY <1>4, MapsLeadToSections DEF FeSNI, PublicSSLSNIOnly, TerminateTLS, Terminate
  <2> QED
    BY <2>1
<1>5. CASE Section \/ Cluster
  <2>1. at \in Sections \cup {"cluster"} /\ at' = "dialling"
    BY <1>5 DEF Section, Cluster, DialAs
  <2> QED
    BY <2>1
<1>6. CASE ListenerHTTP \/ ListenerHTTPS
  <2>1. at \in {"listener_http", "listener_https"} /\ at' \in {"cluster", "failed"}
    BY <1>6 DEF ListenerHTTP, ListenerHTTPS, Terminate
  <2> QED
    BY <2>1
<1>7. CASE Accept \/ Refuse
  <2>1. at = "dialling" /\ at' \in {"server", "failed"}
    BY <1>7 DEF Accept, Refuse
  <2> QED
    BY <2>1
<1> QED
  BY <1>1, <1>2, <1>3, <1>4, <1>5, <1>6, <1>7 DEF Travel, HAProxyStep, EnvoyStep

\* A step of a proxy or of a backend brings the request nearer to its end, and
\* no command takes it back.
Shortens ==
  /\ Travel => StepsLeft(at') < StepsLeft(at)
  /\ Issue \/ StepsLeft(at') <= StepsLeft(at)

\* No request goes round between frontends, sections and clusters, fresh or
\* stale, whatever is generated or restarted on its way: it takes at most five
\* steps.  With Travel enabled at every place but the ends (which is left to
\* the run) this makes FreshIsServed hold.
THEOREM NoCircle == Spec => [][Shortens]_vars
<1>1. TypeOK /\ [Next]_vars => [Shortens]_vars
  <2> SUFFICES ASSUME TypeOK, Next PROVE Shortens
    OBVIOUS
  <2>1. StepsLeft(at) \in Nat /\ StepsLeft(at') \in Nat
    BY DEF StepsLeft
  <2>2. CASE Travel
    BY <2>1, <2>2, TravelShortens DEF Shortens
  <2>3. CASE StartBackends \/ GenWorkload \/ \E kind \in {"haproxy", "envoy"} : Configure(kind)
    <3>1. at' = at \/ at' = "failed"
      BY <2>3 DEF StartBackends, Configure, GenWorkload
    <3>2. StepsLeft(at') <= StepsLeft(at)
      BY <2>1, <3>1, StepsLeftValues
    <3>3. Travel => StepsLeft(at') < StepsLeft(at)
      BY TravelShortens
    <3> QED
      BY <3>2, <3>3 DEF Shortens
  <2>4. CASE Issue
    BY <2>4, TravelShortens DEF Shortens
  <2> QED
    BY <2>2, <2>3, <2>4 DEF Next
<1> QED
  BY <1>1, RoutingTypeCorrect, PTL DEF Spec
=============================================================================
