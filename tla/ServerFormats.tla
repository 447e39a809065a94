---------------------------- MODULE ServerFormats ----------------------------
(***************************************************************************)
(* One server in each format a subscription comes in: the share link, the  *)
(* v2ray-json document, Clash, Clash Meta, sing-box and Outline.  Six      *)
(* classes translate the same inbound by themselves; a client must end up  *)
(* dialling the same server whichever it is given.                         *)
(*                                                                         *)
(* An inbound is a record of what the translations look at.  Strings are   *)
(* opaque; "" is an unset field.  What a class gives the client is a       *)
(* record of the fields it dials with, Absent when the class leaves the    *)
(* server out, Raises when the translation ends in an exception (and with  *)
(* it the whole subscription).                                             *)
(***************************************************************************)
EXTENDS Naturals, Sequences

Absent == [shown |-> "absent"]
Raises == [shown |-> "raises"]
BadPath == "IndexError"

Protocols == {"vmess", "vless", "trojan", "shadowsocks"}
Networks  == {"tcp", "ws", "grpc", "gun", "http", "h2", "h3", "kcp", "quic",
              "httpupgrade", "xhttp"}
Unset == ""

\* A path is "" or plain text, or a custom gRPC path /service/gun|multi, of
\* which the stream names may be Tun, or only one.
Paths == {Unset, "plain", "/service/Tun", "/service/gun", "/service/gun|multi"}
Custom(path) == path \in {"/service/Tun", "/service/gun", "/service/gun|multi"}

(***************************************************************************)
(* app/subscription/funcs.py                                               *)
(***************************************************************************)

get_grpc_gun(path) ==
    CASE ~Custom(path)          -> path
      [] path = "/service/Tun"  -> "service"
      [] OTHER                  -> "/service/gun"

get_grpc_multi(path) ==
    CASE ~Custom(path)                -> path
      [] path = "/service/gun|multi"  -> "/service/multi"
      [] OTHER                        -> BadPath

GrpcPath(e) == IF e.network \in {"grpc", "gun"}
               THEN IF e.multi THEN get_grpc_multi(e.path) ELSE get_grpc_gun(e.path)
               ELSE e.path

\* Where Xray accepts a flow.
FlowAllowed(e) == e.network \in {"tcp", "kcp"} /\ e.header # "http"

Credential(e) == IF e.protocol \in {"vmess", "vless"} THEN "id" ELSE "password"

(***************************************************************************)
(* V2rayShareLink.                                                         *)
(***************************************************************************)

\* A custom gRPC path is quoted before it goes into the link, which quotes it
\* again: the client reads it quoted once.
LinkQuoted(e) == e.network \in {"grpc", "gun"} /\ Custom(e.path)

\* What tls and reality add to the payload of a link.
LinkSecurity(e) ==
    CASE e.tls = "tls"     -> [sni |-> e.sni, fp |-> e.fp, alpn |-> e.alpn, pbk |-> Unset]
      [] e.tls = "reality" -> [sni |-> e.sni, fp |-> e.fp, alpn |-> Unset, pbk |-> e.pbk]
      [] OTHER             -> [sni |-> Unset, fp |-> Unset, alpn |-> Unset, pbk |-> Unset]

LinkMode(e) == CASE e.network = "grpc"  -> IF e.multi THEN "multi" ELSE "gun"
                 [] e.network = "xhttp" -> e.mode
                 [] OTHER               -> Unset

LinkView(e, cred, flow) ==
    [cred |-> cred, net |-> e.network, tls |-> e.tls, sec |-> LinkSecurity(e),
     path |-> GrpcPath(e), quoted |-> LinkQuoted(e), host |-> e.host,
     mode |-> LinkMode(e), flow |-> flow]

vmess(e) == LinkView(e, "id", Unset)

vless(e) ==
    LinkView(e, "id", IF FlowAllowed(e) /\ e.tls \in {"tls", "reality"} THEN e.flow ELSE Unset)

trojan(e) ==
    LinkView(e, "password", IF FlowAllowed(e) /\ e.tls \in {"tls", "reality"} THEN e.flow ELSE Unset)

shadowsocks(e) ==
    [LinkView([e EXCEPT !.tls = "none"], "password", Unset) EXCEPT
        !.net = Unset, !.tls = Unset, !.path = Unset, !.host = Unset, !.mode = Unset]

\* V2rayShareLink.add
Link(e) ==
    IF GrpcPath(e) = BadPath THEN Raises
    ELSE CASE e.protocol = "vmess"       -> vmess(e)
           [] e.protocol = "vless"       -> vless(e)
           [] e.protocol = "trojan"      -> trojan(e)
           [] e.protocol = "shadowsocks" -> shadowsocks(e)

(***************************************************************************)
(* V2rayJsonConfig.                                                        *)
(***************************************************************************)

\* The *_config methods: what of path and host reaches the transport settings,
\* and whether asking for a random user agent finds the headers to put it in
\* (the settings template in the repository has them for every network).
Net(path, host, mode) == [path |-> path, host |-> host, mode |-> mode]

ws_config(path, host) == Net(path, host, Unset)
httpupgrade_config(path, host) == Net(path, host, Unset)
splithttp_config(path, host, mode) == Net(path, host, mode)
grpc_config(path, host, multi) == Net(path, host, IF multi THEN "multi" ELSE "gun")
tcp_config(path, host) == Net(path, host, Unset)
http_config(path, host) == Net(path, host, Unset)
quic_config(path, host) == Net(path, host, Unset)
kcp_config(path, host) == Net(path, host, Unset)

tls_config(e) == [sni |-> e.sni, fp |-> e.fp, alpn |-> e.alpn, pbk |-> Unset]
reality_config(e) == [sni |-> e.sni, fp |-> e.fp, alpn |-> Unset, pbk |-> e.pbk]
NoSecurity == [sni |-> Unset, fp |-> Unset, alpn |-> Unset, pbk |-> Unset]

make_stream_settingSwapped(e, path) ==
    CASE e.network = "grpc" -> grpc_config(e.host, path, e.multi)
      [] OTHER              -> Net(path, e.host, Unset)

make_stream_setting(e, path) ==
    CASE e.network = "ws"                         -> ws_config(path, e.host)
      [] e.network = "grpc"                       -> grpc_config(path, e.host, e.multi)
      [] e.network \in {"h3", "h2", "http"}       -> http_config(path, e.host)
      [] e.network = "kcp"                        -> kcp_config(path, e.host)
      [] e.network = "tcp" /\ e.tls # "reality"   -> tcp_config(path, e.host)
      [] e.network = "quic"                       -> quic_config(path, e.host)
      [] e.network = "httpupgrade"                -> httpupgrade_config(path, e.host)
      [] e.network = "xhttp"                      -> splithttp_config(path, e.host, e.mode)
      [] OTHER                                    -> Net(Unset, Unset, Unset)

stream_setting_config(e, net) ==
    [net |-> e.network, tls |-> e.tls,
     sec |-> CASE e.tls = "tls"     -> tls_config(e)
               [] e.tls = "reality" -> reality_config(e)
               [] OTHER             -> NoSecurity,
     path |-> net.path, host |-> net.host, mode |-> net.mode]

vless_config(e) ==
    IF FlowAllowed(e) /\ e.tls \in {"tls", "reality"} THEN e.flow ELSE Unset

\* _build_proxy_outbound
Json(e) ==
    LET path == GrpcPath(e)
        s == stream_setting_config(e, make_stream_setting(e, path))
    IN  IF path = BadPath THEN Raises
        ELSE [cred |-> Credential(e), net |-> s.net, tls |-> s.tls, sec |-> s.sec,
              path |-> s.path, host |-> s.host, mode |-> s.mode,
              flow |-> IF e.protocol = "vless" THEN vless_config(e) ELSE Unset]

\* V2rayJsonConfig.add for one server after the other.  http_config works on
\* the settings object itself when the network is http and the settings have
\* httpSettings (they do): every such server shows the last one's path and host.
Servers(es) ==
    LET last == CHOOSE k \in 1..Len(es) :
                   es[k].network = "http" /\ \A j \in 1..Len(es) : es[j].network = "http" => j <= k
    IN  [k \in 1..Len(es) |->
           IF es[k].network = "http" /\ Json(es[k]) # Raises
           THEN [Json(es[k]) EXCEPT !.path = Json(es[last]).path, !.host = Json(es[last]).host]
           ELSE Json(es[k])]

(***************************************************************************)
(* Clash and Clash Meta.                                                   *)
(***************************************************************************)

\* http_config writes the user agent to `header`, having made sure of `headers`.
clash_http_config(e, path) ==
    IF e.agent THEN Raises ELSE Net(path, e.host, Unset)
clash_ws_config(e, path) == Net(path, e.host, Unset)
clash_grpc_config(path) == Net(path, Unset, Unset)
clash_h2_config(e, path) == Net(path, e.host, Unset)
clash_tcp_config(e, path) == Net(path, e.host, Unset)

\* make_node: networks under Clash's names.
ClashNetwork(e) ==
    CASE e.network \in {"http", "h2", "h3"}          -> "h2"
      [] e.network = "tcp" /\ e.header = "http"      -> "http"
      [] e.network = "httpupgrade"                   -> "ws"
      [] OTHER                                       -> e.network

make_node(e, tls) ==
    LET net  == ClashNetwork(e)
        path == IF e.network \in {"grpc", "gun"} THEN get_grpc_gun(e.path) ELSE e.path
        opts == CASE net = "http"            -> clash_http_config(e, path)
                  [] net = "ws"              -> clash_ws_config(e, path)
                  [] net \in {"grpc", "gun"} -> clash_grpc_config(path)
                  [] net = "h2"              -> clash_h2_config(e, path)
                  [] net = "tcp"             -> clash_tcp_config(e, path)
                  [] OTHER                   -> Net(Unset, Unset, Unset)
    IN  IF e.protocol = "shadowsocks"
        THEN [cred |-> "password", net |-> net, tls |-> Unset, sec |-> NoSecurity,
              path |-> Unset, host |-> Unset, mode |-> Unset, flow |-> Unset]
        ELSE IF opts = Raises THEN Raises
        ELSE [cred |-> Credential(e), net |-> net, tls |-> IF tls THEN e.tls ELSE "none",
              sec |-> IF tls THEN [tls_config(e) EXCEPT !.fp = Unset] ELSE NoSecurity,
              path |-> opts.path, host |-> opts.host, mode |-> Unset, flow |-> Unset]

\* ClashConfiguration.add: vless is dropped after the node has been made.
Clash(e) ==
    IF e.network \in {"kcp", "xhttp"} THEN Absent
    ELSE LET n == make_node(e, e.tls = "tls")
         IN  IF n = Raises THEN Raises
             ELSE IF e.protocol = "vless" THEN Absent ELSE n

\* ClashMetaConfiguration.make_node
meta_make_node(e) ==
    LET n == make_node(e, e.tls \in {"tls", "reality"})
    IN  IF n = Raises THEN Raises
        ELSE [n EXCEPT !.sec.fp = e.fp, !.sec.pbk = e.pbk]

ClashMetaFlowAnywhere(e) ==
    LET n == meta_make_node(e)
    IN  IF e.network \in {"kcp", "xhttp"} THEN Absent
        ELSE IF n = Raises THEN Raises
        ELSE IF e.protocol = "vless" THEN [n EXCEPT !.flow = e.flow] ELSE n

ClashMeta(e) ==
    IF e.network \in {"kcp", "xhttp"} \/ (e.network = "quic" /\ e.header # "none") THEN Absent
    ELSE LET n == meta_make_node(e)
         IN  IF n = Raises THEN Raises
             ELSE IF e.protocol = "vless" /\ FlowAllowed(e) /\ e.tls # "none"
                  THEN [n EXCEPT !.flow = e.flow] ELSE n

(***************************************************************************)
(* sing-box and Outline.                                                   *)
(***************************************************************************)

singbox_tls_config(e, alpn) ==
    [sni |-> e.sni, fp |-> e.fp, alpn |-> alpn, pbk |-> IF e.tls = "reality" THEN e.pbk ELSE Unset]

SingNetwork(e) ==
    CASE e.network \in {"h2", "h3"}             -> "http"
      [] e.network = "tcp" /\ e.header = "http" -> "http"
      [] OTHER                                  -> e.network

\* http_config, ws_config, grpc_config, httpupgrade_config of the class.
transport_config(net, path, host) ==
    CASE net \in {"http", "ws", "httpupgrade"} -> Net(path, host, Unset)
      [] net = "grpc"                          -> Net(path, Unset, Unset)
      [] OTHER                                 -> Net(Unset, Unset, Unset)

\* The condition on tls in make_outbound is `tls or tls != "none"`, which is
\* true of "none" as well.
make_outbound(e) ==
    LET path == IF e.network \in {"grpc", "gun"} THEN get_grpc_gun(e.path) ELSE e.path
        net  == transport_config(SingNetwork(e), path, e.host)
        alpn == IF e.network \in {"h2", "h3"} THEN e.network ELSE e.alpn
    IN  [cred |-> Credential(e), net |-> SingNetwork(e), tls |-> e.tls,
         sec |-> IF e.tls \in {"tls", "reality"} THEN singbox_tls_config(e, alpn) ELSE NoSecurity,
         path |-> net.path, host |-> net.host, mode |-> Unset,
         flow |-> IF FlowAllowed(e) THEN e.flow ELSE Unset]

SingBox(e) ==
    IF e.network \in {"kcp", "xhttp"} \/ (e.network = "quic" /\ e.header # "none") THEN Absent
    ELSE make_outbound(e)

\* OutlineConfiguration.add
Outline(e) == IF e.protocol = "shadowsocks" THEN shadowsocks(e) ELSE Absent

\* OutlineConfiguration holds one server: each add overwrites the one before.
OutlineOf(es) ==
    LET ss == {k \in 1..Len(es) : es[k].protocol = "shadowsocks"}
    IN  IF ss = {} THEN Absent ELSE CHOOSE k \in ss : \A j \in ss : j <= k

(***************************************************************************)
(* Properties of one inbound e, checked over all of them.                  *)
(***************************************************************************)

Shown(v) == v \notin {Absent, Raises}

\* The link and the v2ray-json document of a server say the same to the client:
\* the same credential, security, path (once unquoted), host, mode and flow.  Left out are what
\* the JSON document leaves to Xray's defaults: the network gun, the header of
\* tcp under reality, the transport of shadowsocks, and trojan's flow.
LinkLikeJson(e) ==
    LET l == Link(e)
        j == Json(e)
    IN  /\ (l = Raises) = (j = Raises)
        /\ Shown(l) /\ e.protocol # "shadowsocks" =>
             /\ l.cred = j.cred /\ l.tls = j.tls /\ l.sec = j.sec /\ l.net = j.net
             /\ (e.network # "gun" /\ ~(e.network = "tcp" /\ e.tls = "reality")) =>
                   l.path = j.path /\ l.host = j.host /\ (e.protocol # "vmess" => l.mode = j.mode)
             /\ e.protocol # "trojan" => l.flow = j.flow

\* Where the link, the JSON document and Clash Meta show a vless server they
\* ask for the same flow, and only where Xray accepts one.
FlowsAgree(e) ==
    \A v \in {Link(e), Json(e), ClashMeta(e)} :
       Shown(v) /\ e.protocol = "vless" =>
          v.flow = IF FlowAllowed(e) /\ e.tls # "none" THEN e.flow ELSE Unset

\* The same with sing-box.
FlowsAgreeEverywhere(e) ==
    FlowsAgree(e) /\
    (Shown(SingBox(e)) /\ e.protocol = "vless" =>
        SingBox(e).flow = IF FlowAllowed(e) /\ e.tls # "none" THEN e.flow ELSE Unset)

\* No translation ends in an exception.
NeverRaises(e) == Raises \notin {Link(e), Json(e), Clash(e), ClashMeta(e), SingBox(e)}

\* A server that is shown is shown with the security its inbound has.
SecurityKept(e) ==
    \A v \in {Link(e), Json(e), Clash(e), ClashMeta(e), SingBox(e)} :
       Shown(v) /\ e.protocol # "shadowsocks" => v.tls = e.tls

\* Each server of a JSON subscription keeps its own path and host.
ServersIndependent(es) ==
    \A k \in 1..Len(es) : Servers(es)[k] = Json(es[k])
=============================================================================
