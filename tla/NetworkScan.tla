---------------------------- MODULE NetworkScan ----------------------------
(***************************************************************************)
(* The probe engines: TCP connect (tcp_scanner.py), UDP (udp_scanner.py),  *)
(* SYN (syn_scanner.py), host discovery (host_discovery.py) and service    *)
(* detection (service_detection.py, tls_detection.py, service_probe.py).   *)
(* Each is one call that hands its items, ports or hosts, to a thread pool *)
(* (SYN goes through them one by one), tries each item until an answer     *)
(* settles it, and gathers one result per item.                            *)
(***************************************************************************)
EXTENDS Naturals, Sequences, SequencesExt, FiniteSets

CONSTANTS
    ScanItems,              \* the items, ports or hosts, in order: [service, print]
    MaxProbeRetries,    \* MAX_TCP_RETRIES and its siblings
    PoolSize,           \* max_workers
    HostPorts,          \* how many ports discovery tries per host
    ServiceProbes       \* the probes a chosen intensity selects, in order

ASSUME NetworkScanAssumption ==
    /\ MaxProbeRetries \in Nat /\ PoolSize \in Nat \ {0} /\ HostPorts \in Nat \ {0}
    /\ ScanItems \in Seq([service : STRING, print : BOOLEAN])

Engines == {"tcp", "udp", "syn", "hosts", "services"}

VARIABLE job            \* the one call

\* Nothing known of an item yet.
Open == [state |-> "none", attempts |-> 0]

ItemIds == DOMAIN ScanItems

ScanInit ==
    \E engine \in Engines, retries \in 0..MaxProbeRetries, active \in BOOLEAN :
        /\ engine \in {"hosts", "services"} => retries = 0
        /\ active => engine = "services"
        /\ job = [engine |-> engine, retries |-> retries, active |-> active, taken |-> 0,
                  at |-> [i \in ItemIds |-> "queued"],
                  tries |-> [i \in ItemIds |-> 0],
                  seen |-> [i \in ItemIds |-> <<>>],
                  results |-> [i \in ItemIds |-> Open],
                  status |-> "running"]

Running == {i \in ItemIds : job.at[i] \notin {"queued", "ended", "raised", "gathered"}}

\* Attempts one item may cost.
Allowed == IF job.engine = "hosts" THEN HostPorts ELSE job.retries + 1

-----------------------------------------------------------------------------
\* The pool takes the items in the order of their submission; SYN has no pool.
TakeItem ==
    /\ job.taken < Len(ScanItems)
    /\ IF job.engine = "syn"
       THEN job.status = "running" /\ \A i \in 1..job.taken : job.at[i] = "gathered"
       ELSE Cardinality(Running) < PoolSize
    /\ job' = [job EXCEPT !.taken = @ + 1, !.at[job.taken + 1] = "trying"]

\* An item is settled.
Settle(i, answer, state) ==
    job' = [job EXCEPT
        !.at[i] = "ended",
        !.tries[i] = @ + 1,
        !.seen[i] = Append(@, answer),
        !.results[i] = [state |-> state, attempts |-> job.tries[i] + 1]]

\* No result yet: the next attempt.
Again(i, answer) ==
    job' = [job EXCEPT !.tries[i] = @ + 1, !.seen[i] = Append(@, answer)]

AttemptsLeft(i) == job.tries[i] + 1 < Allowed

\* What connect_ex returns: a socket whose own timeout expires says EAGAIN, the
\* kernel that gives up first says ETIMEDOUT.
connect_ex(answer) ==
    CASE answer = "accept" -> "0"
      [] answer = "refuse" -> "ECONNREFUSED"
      [] answer = "silence" -> "EAGAIN"
      [] answer = "gave up" -> "ETIMEDOUT"
      [] answer = "unreachable" -> "EHOSTUNREACH"

TcpAnswers == {"accept", "refuse", "silence", "gave up", "unreachable"}

classify_tcp_error(code) ==
    CASE code = "0" -> "open"
      [] code = "ECONNREFUSED" -> "closed"
      [] code = "ETIMEDOUT" -> "filtered"
      [] OTHER -> "error"

\* scan_tcp_port: only what counts as filtered is tried again.
TcpAttempt(i) ==
    /\ job.engine = "tcp"
    /\ job.at[i] = "trying"
    /\ \E answer \in TcpAnswers :
        LET state == classify_tcp_error(connect_ex(answer))
        IN  IF state = "filtered" /\ AttemptsLeft(i)
            THEN Again(i, answer)
            ELSE Settle(i, answer, state)

\* scan_udp_port: one connected socket for all attempts, so an answer to an earlier
\* datagram settles a later attempt; silence leaves open or filtered undecided.
UdpState(answer) ==
    CASE answer \in {"reply", "malformed"} -> "open"
      [] answer = "refuse" -> "closed"
      [] answer = "silence" -> "open|filtered"
      [] answer = "unreachable" -> "error"

UdpAttempt(i) ==
    /\ job.engine = "udp"
    /\ job.at[i] = "trying"
    /\ \E answer \in {"reply", "malformed", "refuse", "silence", "unreachable"} :
        IF answer = "silence" /\ AttemptsLeft(i)
        THEN Again(i, answer)
        ELSE Settle(i, answer, UdpState(answer))

\* classify_syn_response, scan_syn_ports: no answer and ICMP unreachable are tried again.
classify_syn_response(answer) ==
    CASE answer = "syn-ack" -> "open"
      [] answer = "rst" -> "closed"
      [] answer \in {"silence", "icmp"} -> "filtered"
      [] answer = "other" -> "error"

SynAttempt(i) ==
    /\ job.engine = "syn"
    /\ job.at[i] = "trying"
    /\ \E answer \in {"syn-ack", "rst", "silence", "icmp", "other"} :
        LET state == classify_syn_response(answer)
        IN  IF state = "filtered" /\ AttemptsLeft(i)
            THEN Again(i, answer)
            ELSE Settle(i, answer, state)

\* probe_host: the next port, until one accepts or refuses.
HostAttempt(i) ==
    /\ job.engine = "hosts"
    /\ job.at[i] = "trying"
    /\ \E answer \in TcpAnswers :
        IF answer \in {"accept", "refuse"}
        THEN Settle(i, answer, "responsive")
        ELSE IF AttemptsLeft(i) THEN Again(i, answer) ELSE Settle(i, answer, "no-response")

-----------------------------------------------------------------------------
\* detect_service, step by step.  What it learns of an item is the set of its seen
\* entries; each probe opens a connection of its own.
Learn(i, what, next) ==
    job' = [job EXCEPT !.at[i] = next, !.seen[i] = Append(@, what)]

\* connect: a port that no longer answers is a result with an error code.
ServiceConnect(i) ==
    /\ job.engine = "services"
    /\ job.at[i] = "trying"
    /\ \/ Settle(i, "refuse", "error")
       \/ Learn(i, "connected", "banner")

\* The banner: text, none in time, or a connection that breaks, which nobody catches.
\* HTTP or TLS is probed by the port's usual service.
ServiceBanner(i) ==
    LET usual == ScanItems[i].service
        next == IF usual \in {"http", "https"} THEN usual ELSE "probe"
    IN  /\ job.at[i] = "banner"
        /\ \/ \E banner \in {"ssh banner", "no banner"} :
                Learn(i, banner, IF banner = "ssh banner" THEN "probe" ELSE next)
           \/ job' = [job EXCEPT !.at[i] = "raised", !.seen[i] = Append(@, "reset")]

\* probe_http_service: any failure is an empty answer.
ProbeHttp(i) ==
    /\ job.at[i] = "http"
    /\ \E answer \in {"server header", "http status", "no http"} : Learn(i, answer, "probe")

\* probe_tls_service: no handshake leaves everything empty; the request inside may fail.
ProbeTls(i) ==
    /\ job.at[i] = "https"
    /\ \E answer \in {"server header", "http status", "tls only", "no tls"} :
        Learn(i, answer, "probe")

\* A server header or a banner gives the fingerprint.
Fingerprinted(i) == {"server header", "ssh banner"} \cap ToSet(job.seen[i]) # {}

\* select_service_probes: nothing is ever sent to a raw print port.
select_service_probes(i) == IF ScanItems[i].print THEN <<>> ELSE ServiceProbes

\* probe_tcp_service: without a fingerprint, and only when asked for, one probe after
\* the other until one matches; a failed connection goes on to the next.
ActiveProbe(i) ==
    /\ job.at[i] = "probe"
    /\ job.active /\ ~Fingerprinted(i)
    /\ job.tries[i] < Len(select_service_probes(i))
    /\ \E answer \in {"match", "no match", "refuse"} :
        IF answer = "match"
        THEN Settle(i, answer, "detected")
        ELSE Again(i, answer)

ServiceDone(i) ==
    /\ job.at[i] = "probe"
    /\ job.active /\ ~Fingerprinted(i) => job.tries[i] = Len(select_service_probes(i))
    /\ job' = [job EXCEPT
            !.at[i] = "ended",
            !.results[i] = [state |-> "detected", attempts |-> job.tries[i]]]

-----------------------------------------------------------------------------
\* No socket to be had, no permission for raw packets: an exception of the thread.
ProbeRaises(i) ==
    /\ job.at[i] = "trying"
    /\ job' = [job EXCEPT !.at[i] = "raised"]

\* Mutant: the results of failed threads are dropped.
GatherQuiet(i) ==
    /\ job.status = "running"
    /\ job.at[i] \in {"ended", "raised"}
    /\ job' = [job EXCEPT !.at[i] = "gathered"]

\* as_completed: a thread that ended gives its result, one that raised an error
\* result, except where nothing catches the exception: then it ends the call.
Gather(i) ==
    /\ job.status = "running"
    /\ \/ /\ job.at[i] = "ended"
          /\ job' = [job EXCEPT !.at[i] = "gathered"]
       \/ /\ job.at[i] = "raised"
          /\ IF job.engine \in {"tcp", "udp", "hosts"}
             THEN job' = [job EXCEPT !.at[i] = "gathered",
                                     !.results[i] = [state |-> "error", attempts |-> 1]]
             ELSE job' = [job EXCEPT !.at[i] = "gathered", !.status = "raising"]

\* The pool runs all its items to the end before the exception goes on.
Propagate ==
    /\ job.status = "raising"
    /\ Running = {}
    /\ job.engine = "services" => job.taken = Len(ScanItems)
    /\ job' = [job EXCEPT !.status = "raised"]

ReturnResults ==
    /\ job.status = "running"
    /\ \A i \in ItemIds : job.at[i] = "gathered"
    /\ job' = [job EXCEPT !.status = "returned"]

ScanNext ==
    \/ TakeItem
    \/ \E i \in Running :
        \/ TcpAttempt(i) \/ UdpAttempt(i) \/ SynAttempt(i) \/ HostAttempt(i)
        \/ ServiceConnect(i) \/ ServiceBanner(i) \/ ProbeHttp(i) \/ ProbeTls(i)
        \/ ActiveProbe(i) \/ ServiceDone(i) \/ ProbeRaises(i)
    \/ \E i \in ItemIds : Gather(i)
    \/ Propagate \/ ReturnResults

ScanSpec == ScanInit /\ [][ScanNext]_job

-----------------------------------------------------------------------------
\* What an item's answers say of it, whoever gathered them in whatever order.
Evidence(i) == ToSet(job.seen[i])

\* A call that returns reports every item once, with a state its answers bear out:
\* open and closed need an answer that says so, responsive hosts one that accepted or
\* refused, a port without answers is never called closed, and a filtered one used
\* up all its attempts; nothing sends more than the attempts allowed, keeps more
\* connections than the pool has threads, tries again what was settled, or sends a
\* payload to a raw print port (scan_tcp_ports, scan_udp_ports, scan_syn_ports,
\* discover_hosts, detect_services).
EveryProbeIsReported ==
    /\ Cardinality(Running) <= PoolSize
    /\ \A i \in ItemIds :
        /\ job.engine # "services" => job.tries[i] <= Allowed
        /\ ScanItems[i].print /\ job.engine = "services" => job.tries[i] <= 1
        /\ \A k \in 1..Len(job.seen[i]) - 1 :
            job.engine # "services" =>
                job.seen[i][k] \in {"silence", "gave up", "unreachable", "icmp"}
    /\ job.status = "returned" =>
        \A i \in ItemIds :
            LET state == job.results[i].state
            IN  /\ state # "none"
                /\ state = "open" =>
                    {"accept", "reply", "malformed", "syn-ack"} \cap Evidence(i) # {}
                /\ state = "closed" => {"refuse", "rst"} \cap Evidence(i) # {}
                /\ state \in {"filtered", "open|filtered"} =>
                    job.results[i].attempts = job.retries + 1
                /\ state = "responsive" <=>
                    job.engine = "hosts" /\ {"accept", "refuse"} \cap Evidence(i) # {}

\* Service connection failures are reported without aborting the scan: detection
\* of the services of open ports returns (detect_services, detect_service).
DetectionSurvives == job.engine = "services" => job.status \notin {"raising", "raised"}

=============================================================================
