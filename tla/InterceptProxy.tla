--------------------------- MODULE InterceptProxy ---------------------------
(***************************************************************************)
(* The intercepting proxy of red-night web-proxy (web_proxy_repeater.py)   *)
(* and its assessment CA (https_intercept.py).  Every connection has a     *)
(* thread; the threads share the list of records and, under a lock, the    *)
(* certificates issued.  The command takes its report, stops accepting,    *)
(* removes the CA's directory and exits, while threads may still serve.    *)
(***************************************************************************)
EXTENDS Naturals, Sequences, SequencesExt, FiniteSets

CONSTANTS
    Clients,            \* connections to the proxy
    HostSpellings,      \* host names as clients write them
    CanonicalHost,      \* their lower-case form
    ProxyScope,         \* the canonical names the scope rules authorise
    MaxHostCerts,       \* MAX_MITM_HOST_CERTS
    MaxExchanges,       \* bound on the requests of all connections
    NoHost

ASSUME ProxyAssumption ==
    /\ CanonicalHost \in [HostSpellings -> STRING]
    /\ MaxHostCerts \in Nat /\ MaxExchanges \in Nat
    /\ NoHost \notin HostSpellings /\ NoHost \notin Clients

VARIABLE
    proxy,              \* what the threads share, and what the outside saw
    conn                \* conn[c]: the thread of a connection

proxyVars == <<proxy, conn>>

Hung == [at |-> "none", host |-> NoHost, origin |-> NoHost]

ProxyInit ==
    /\ \E https, temporary \in BOOLEAN :
        proxy = [https |-> https, temporary |-> temporary, status |-> "serving",
                 directory |-> https, lock |-> NoHost, issued |-> <<>>,
                 contacted |-> {}, records |-> <<>>, delivered |-> <<>>, report |-> <<>>,
                 requests |-> 0]
    /\ conn = [c \in Clients |-> Hung]

InProxyScope(host) == CanonicalHost[host] \in ProxyScope
Issued(host) == CanonicalHost[host] \in ToSet(proxy.issued)

\* The thread goes on with at; after an error answer the connection is closed.
GoOn(c, at) == conn' = [conn EXCEPT ![c].at = at]
Hangup(c) == conn' = [conn EXCEPT ![c] = [Hung EXCEPT !.at = "closed"]]

-----------------------------------------------------------------------------
AcceptClient(c) ==
    /\ proxy.status \in {"serving", "reported"}
    /\ conn[c].at = "none"
    /\ GoOn(c, "reading")
    /\ UNCHANGED proxy

\* One request: for a host it names, for a path of the tunnel, a CONNECT, or one
\* that is malformed, too large, or a path outside a tunnel: 400, 413, 502.
ReadRequest(c) ==
    /\ conn[c].at = "reading"
    /\ \/ /\ proxy.requests < MaxExchanges
          /\ proxy' = [proxy EXCEPT !.requests = @ + 1]
          /\ \/ \E host \in HostSpellings, at \in {"forward", "connect"} :
                conn' = [conn EXCEPT ![c].at = at, ![c].host = host]
             \/ /\ conn[c].origin # NoHost
                /\ conn' = [conn EXCEPT ![c].at = "forward", ![c].host = conn[c].origin]
       \/ Hangup(c) /\ UNCHANGED proxy

\* _forward, replay_request: 403 out of scope; the target may fail before or after
\* it has seen the request: 502.
Forward(c) ==
    /\ conn[c].at = "forward"
    /\ IF ~InProxyScope(conn[c].host)
       THEN Hangup(c) /\ UNCHANGED proxy
       ELSE /\ proxy' = [proxy EXCEPT !.contacted = @ \cup {conn[c].host}]
            /\ GoOn(c, "record") \/ Hangup(c)

\* The exchange is recorded before the client sees the answer.
RecordExchange(c) ==
    /\ conn[c].at = "record"
    /\ proxy' = [proxy EXCEPT !.records = Append(@, <<c, conn[c].host>>)]
    /\ GoOn(c, "respond")

\* The client may be gone.
Respond(c) ==
    /\ conn[c].at = "respond"
    /\ \/ /\ proxy' = [proxy EXCEPT !.delivered = Append(@, <<c, conn[c].host>>)]
          /\ conn' = [conn EXCEPT ![c].at = "reading", ![c].host = NoHost]
       \/ UNCHANGED proxy /\ Hangup(c)

\* do_CONNECT: 501 without a CA, 403 out of scope.
TunnelAsked(c) ==
    /\ conn[c].at = "connect"
    /\ IF proxy.https /\ InProxyScope(conn[c].host) THEN GoOn(c, "certificate") ELSE Hangup(c)
    /\ UNCHANGED proxy

\* Mutant: the certificates are not guarded by the lock.
CertificateUnguarded(c) ==
    /\ conn[c].at = "certificate"
    /\ UNCHANGED proxy
    /\ IF Issued(conn[c].host) THEN GoOn(c, "load")
       ELSE IF Len(proxy.issued) >= MaxHostCerts THEN Hangup(c)
       ELSE GoOn(c, "issuing")

\* issue_host_certificate: the one there is, none beyond the limit, or a new one.
Certificate(c) ==
    /\ conn[c].at = "certificate"
    /\ proxy.lock = NoHost
    /\ IF Issued(conn[c].host) THEN GoOn(c, "load") /\ UNCHANGED proxy
       ELSE IF Len(proxy.issued) >= MaxHostCerts THEN Hangup(c) /\ UNCHANGED proxy
       ELSE GoOn(c, "issuing") /\ proxy' = [proxy EXCEPT !.lock = c]

\* Certificate and key are written; it counts as issued when both are.
WriteCertificate(c) ==
    /\ conn[c].at = "issuing"
    /\ \/ /\ proxy.directory
          /\ proxy' = [proxy EXCEPT !.lock = NoHost,
                                    !.issued = Append(@, CanonicalHost[conn[c].host])]
          /\ GoOn(c, "load")
       \/ proxy' = [proxy EXCEPT !.lock = NoHost] /\ Hangup(c)

\* server_context reads the files again: 400 when the directory is gone.
LoadCertificate(c) ==
    /\ conn[c].at = "load"
    /\ IF proxy.directory THEN GoOn(c, "handshake") ELSE Hangup(c)
    /\ UNCHANGED proxy

\* After "200 Connection Established" the client may refuse the certificate.
Handshake(c) ==
    /\ conn[c].at = "handshake"
    /\ \/ conn' = [conn EXCEPT ![c].at = "reading", ![c].origin = conn[c].host,
                               ![c].host = NoHost]
       \/ Hangup(c)
    /\ UNCHANGED proxy

-----------------------------------------------------------------------------
\* web-proxy: after --duration the records are copied; then close: no more
\* connections, the CA's own directory is removed; then the process exits and its
\* threads with it.
TakeReport ==
    /\ proxy.status = "serving"
    /\ proxy' = [proxy EXCEPT !.status = "reported", !.report = proxy.records]
    /\ UNCHANGED conn

Shutdown ==
    /\ proxy.status = "reported"
    /\ proxy' = [proxy EXCEPT !.status = "shut"]
    /\ UNCHANGED conn

CloseAuthority ==
    /\ proxy.status = "shut"
    /\ proxy' = [proxy EXCEPT !.status = "closed", !.directory = @ /\ ~proxy.temporary]
    /\ UNCHANGED conn

ProcessExits ==
    /\ proxy.status = "closed"
    /\ proxy' = [proxy EXCEPT !.status = "exited"]
    /\ conn' = [c \in Clients |-> [Hung EXCEPT !.at = "closed"]]

ProxyNext ==
    \/ \E c \in Clients :
        \/ AcceptClient(c) \/ ReadRequest(c) \/ Forward(c) \/ RecordExchange(c)
        \/ Respond(c) \/ TunnelAsked(c) \/ Certificate(c) \/ WriteCertificate(c)
        \/ LoadCertificate(c) \/ Handshake(c)
    \/ TakeReport \/ Shutdown \/ CloseAuthority \/ ProcessExits

ProxySpec == ProxyInit /\ [][ProxyNext]_proxyVars

-----------------------------------------------------------------------------
\* The exchanges of one connection, in order.
Mine(c, exchanges) ==
    LET mine[n \in 0 .. Len(exchanges)] ==
            IF n = 0 THEN <<>>
            ELSE IF exchanges[n][1] = c THEN Append(mine[n - 1], exchanges[n]) ELSE mine[n - 1]
    IN  mine[Len(exchanges)]

\* Whatever the threads do at once, and while the proxy closes: only hosts in scope
\* are contacted, and only they have certificates, one each whatever the spelling,
\* never more than the limit; a tunnel leads to a host with a certificate; no client
\* sees an answer that is not recorded, in the order it saw them; and the
\* report is what was recorded first (_ProxyHandler, BoundedInterceptProxy,
\* issue_host_certificate).
InterceptionStaysInScope ==
    /\ \A host \in proxy.contacted : InProxyScope(host)
    /\ ToSet(proxy.issued) \subseteq ProxyScope
    /\ IsInjective(proxy.issued)
    /\ Len(proxy.issued) <= MaxHostCerts
    /\ \A e \in ToSet(proxy.records) : e[2] \in proxy.contacted
    /\ \A c \in Clients :
        /\ conn[c].origin # NoHost => proxy.https /\ Issued(conn[c].origin)
        /\ IsPrefix(Mine(c, proxy.delivered), Mine(c, proxy.records))
        /\ Len(Mine(c, proxy.records)) <= Len(Mine(c, proxy.delivered)) + 1
    /\ IsPrefix(proxy.report, proxy.records)

=============================================================================
