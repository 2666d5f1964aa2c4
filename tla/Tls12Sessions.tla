---------------------------- MODULE Tls12Sessions ----------------------------
(***************************************************************************)
(* TLS 1.2 handshakes that share session state: noxtls_tls12_connect_poll   *)
(* and noxtls_tls12_accept_poll on several connections of one client        *)
(* process with one server process.  The client keeps one session (ticket   *)
(* and master secret) in g_tls12_client_session for all its connections,    *)
(* the server its tickets in g_tls12_ticket_cache; a connection reads them  *)
(* at one step of its handshake and relies on them at later ones, while     *)
(* other connections store, evict and clear.                                *)
(*                                                                         *)
(* A master secret is what it is derived from: the connection of its        *)
(* premaster secret and randoms and, under extended master secret, the      *)
(* session hash.  A Finished is the master secret, suite and transcript it  *)
(* covers.  Each step that reads, or touches the shared stores, is an       *)
(* action; consecutive sends that touch neither are one.  Session IDs are   *)
(* left out (this client always sends an empty one).                        *)
(***************************************************************************)
EXTENDS Integers, Sequences, FiniteSets

CONSTANTS
    Settings,         \* configurations of the connections and the session they find
    ClientSuites,     \* tls12_client_suites_12: what every ClientHello offers
    TicketSlots       \* TLS12_TICKET_CACHE_SIZE

Conns == {"c1", "c2"}

ASSUME SettingAssumption ==
    /\ TicketSlots \in Nat \ {0}
    /\ \A s \in Settings : s.prior.ems \in BOOLEAN
    /\ \A s \in Settings : \A c \in Conns :
         /\ s.conn[c].room \in 0 .. 2           \* extension space: none, empty, ticket
         /\ s.conn[c].ems \in BOOLEAN           \* client_offer_ems, and it fits
         /\ s.conn[c].allowlist \subseteq ClientSuites   \* all of them where none is set
         /\ s.conn[c].auth \in {"none", "request", "require"}
         /\ s.conn[c].expect \in {"any", s.conn[c].name, "other"}

VARIABLES
    setting,
    session,          \* g_tls12_client_session
    cache,            \* g_tls12_ticket_cache
    client, server,   \* contexts, by connection
    c2s, s2c,         \* messages in the transport, by connection
    fault             \* what went wrong, and where: at most one thing in a behaviour

stores == <<session, cache>>
vars == <<setting, session, cache, client, server, c2s, s2c, fault>>

Cfg(c) == setting.conn[c]
ElementsOf(seq) == { seq[i] : i \in DOMAIN seq }

-----------------------------------------------------------------------------
(* Secrets, sessions and tickets.  A ticket is named by the connection that *)
(* issued it.                                                               *)

(* tls12_compute_master_secret *)
Master(of, ems, tr) == [of |-> of, hash |-> IF ems THEN tr ELSE << >>]
NoMaster == Master("none", FALSE, << >>)

NoSession == [ticket |-> "none", master |-> NoMaster, suite |-> "none", ems |-> FALSE,
              name |-> "none"]
NoEntry == [ticket |-> "none"]

NoFault == [kind |-> "none", on |-> "none"]
PriorMaster == Master("prior", setting.prior.ems, <<[type |-> "prior"]>>)

Init ==
    /\ setting \in Settings
    /\ LET p == setting.prior
           kept == p.name # "none"
       IN  /\ session = IF kept
                        THEN [ticket |-> "prior", master |-> PriorMaster, suite |-> p.suite,
                              ems |-> p.ems, name |-> p.name]
                        ELSE NoSession
           /\ cache = [i \in 1 .. TicketSlots |->
                IF kept /\ i = 1
                THEN [ticket |-> "prior", master |-> PriorMaster, suite |-> p.suite,
                      ems |-> p.ems, name |-> p.name, alpn |-> p.alpn,
                      identity |-> p.identity, expired |-> FALSE]
                ELSE NoEntry]
    /\ client = [c \in Conns |->
         [step |-> "SEND_CH", tr |-> << >>,
          ticketExt |-> FALSE,         \* client_offered_session_ticket
          offered |-> "none",          \* resumption_identity
          ems |-> FALSE, ticketNegotiated |-> FALSE, suite |-> "none",
          resumed |-> FALSE, master |-> NoMaster, authRequested |-> FALSE,
          peerCert |-> FALSE,          \* the server's certificate was accepted
          nst |-> FALSE,               \* new_session_ticket_received
          next |-> "none",             \* next_session_identity
          why |-> "none", at |-> "none"]]
    /\ server = [c \in Conns |->
         [step |-> "RECV_CH", tr |-> << >>, hello |-> NoEntry, suite |-> "none",
          resumed |-> FALSE, resumeEms |-> FALSE, ems |-> FALSE, master |-> NoMaster,
          issued |-> FALSE, peerCert |-> "none", why |-> "none", at |-> "none"]]
    /\ c2s = [c \in Conns |-> << >>] /\ s2c = [c \in Conns |-> << >>]
    /\ fault = NoFault

-----------------------------------------------------------------------------
(* Ends.  A handler that returns an error closes its end; the alert and the *)
(* end of the stream reach the peer behind what was sent before.            *)

Msg(type) == [type |-> type]
Closed(e, why) == [e EXCEPT !.step = "CLOSED", !.why = why, !.at = e.step]
Heard(e, msg) == [e EXCEPT !.tr = Append(@, msg)]

(* tls12_compute_finished_verify_data, under the keys of tls12_derive_keys *)
Finished(e) == [type |-> "Finished", master |-> e.master, suite |-> e.suite, over |-> e.tr]

\* Mutant: a Finished is taken for its type, not its verify_data
VerifiesTypeOnly(e, msg) == msg.type = "Finished"

(* The record opens and its verify_data is the one computed here. *)
Verifies(e, msg) == msg = Finished(e)

ClientIn(c, steps) == client[c].step \in steps
ServerIn(c, steps) == server[c].step \in steps
Final == {"CONNECTED", "CLOSED"}

ClientBecomes(c, e) == client' = [client EXCEPT ![c] = e]
ServerBecomes(c, e) == server' = [server EXCEPT ![c] = e]
ClientSends(c, msgs) == c2s' = [c2s EXCEPT ![c] = @ \o msgs]
ServerSends(c, msgs) == s2c' = [s2c EXCEPT ![c] = @ \o msgs]

(* The next message of the server is taken. *)
ClientTakes(c) == s2c' = [s2c EXCEPT ![c] = Tail(@)]
ServerTakes(c) == c2s' = [c2s EXCEPT ![c] = Tail(@)]

-----------------------------------------------------------------------------
(* The client's session store *)

(* noxtls_tls12_client_session_matches_name *)
SessionMatchesName(name) == session.ticket # "none" /\ session.name = name

\* Mutant: the stored session may differ from the one offered
WasOfferedByName(c) ==
    client[c].ticketExt /\ client[c].offered # "none" /\ SessionMatchesName(Cfg(c).name)

(* tls12_client_session_was_offered *)
WasOffered(c) ==
    /\ client[c].ticketExt /\ client[c].offered # "none"
    /\ client[c].offered = session.ticket
    /\ SessionMatchesName(Cfg(c).name)

(* tls12_client_session_store *)
SessionOf(c, ticket) ==
    [ticket |-> ticket, master |-> client[c].master, suite |-> client[c].suite,
     ems |-> client[c].ems, name |-> Cfg(c).name]

-----------------------------------------------------------------------------
(* The client: tls12_connect_poll_steps *)

(* noxtls_tls12_send_client_hello: a stored ticket that does not fit leaves *)
(* the session_ticket extension out.                                        *)
SendClientHello(c) ==
    /\ ClientIn(c, {"SEND_CH"})
    /\ LET stored == IF SessionMatchesName(Cfg(c).name) THEN session.ticket ELSE "none"
           ext == Cfg(c).room > (IF stored # "none" THEN 1 ELSE 0)
           ch == [type |-> "ClientHello", random |-> c, ticketExt |-> ext,
                  ticket |-> IF ext THEN stored ELSE "none", ems |-> Cfg(c).ems,
                  suites |-> ClientSuites, name |-> Cfg(c).name, alpn |-> Cfg(c).alpn]
       IN  /\ ClientBecomes(c, [Heard(client[c], ch) EXCEPT
                 !.step = "RECV_SH", !.ticketExt = ext, !.offered = ch.ticket])
           /\ ClientSends(c, <<ch>>)
    /\ UNCHANGED <<setting, stores, server, s2c, fault>>

(* An allowlist set by the application restricts what is accepted, not what *)
(* was offered.                                                             *)
AcceptsSuite(c, suite) == suite \in ClientSuites /\ suite \in Cfg(c).allowlist

(* noxtls_tls12_recv_server_hello *)
TakeServerHello(c, cl, msg) ==
    IF msg.type # "ServerHello" THEN Closed(cl, "unexpected")
    ELSE IF ~ AcceptsSuite(c, msg.suite) THEN Closed(cl, "suite")
    ELSE IF msg.ems /\ ~ Cfg(c).ems THEN Closed(cl, "protocol")
    ELSE [Heard(cl, msg) EXCEPT
            !.step = "PEEK_RESUME", !.suite = msg.suite, !.ems = msg.ems,
            !.ticketNegotiated = msg.ticketExt /\ cl.ticketExt]

(* tls12_client_session_load_into_ctx *)
LoadSession(cl) ==
    IF cl.ems # session.ems THEN Closed(cl, "protocol")
    ELSE [cl EXCEPT !.step = "RESUME_RECV_CCS", !.resumed = TRUE,
                    !.master = session.master, !.suite = session.suite]

(* TLS12_CLIENT_POLL_PEEK_RESUME: the record after ServerHello stays        *)
(* pending; it alone tells a resumption from a full handshake.              *)
PeekResume(c) ==
    /\ ClientIn(c, {"PEEK_RESUME"})
    /\ WasOffered(c) => s2c[c] # << >>
    /\ ClientBecomes(c,
         IF WasOffered(c) /\ Head(s2c[c]).type \in {"ChangeCipherSpec", "NewSessionTicket"}
         THEN LoadSession(client[c])
         ELSE [client[c] EXCEPT !.step = "RECV_CERTIFICATE"])
    /\ UNCHANGED <<setting, stores, server, c2s, s2c, fault>>

(* noxtls_tls12_recv_certificate: chain, validity and host name *)
TakeCertificate(c, cl, msg) ==
    IF msg.type # "Certificate" THEN Closed(cl, "unexpected")
    ELSE IF ~ Cfg(c).trusted THEN Closed(cl, "certificate")
    ELSE [Heard(cl, msg) EXCEPT
            !.peerCert = TRUE,
            !.step = IF cl.suite = "dhe" THEN "RECV_SERVER_KEY_EXCHANGE"
                     ELSE "RECV_CERTIFICATE_REQUEST"]

(* noxtls_tls12_recv_server_key_exchange *)
TakeServerKeyExchange(cl, msg) ==
    IF msg.type # "ServerKeyExchange" THEN Closed(cl, "unexpected")
    ELSE [Heard(cl, msg) EXCEPT !.step = "RECV_CERTIFICATE_REQUEST"]

(* noxtls_tls12_recv_server_hello_done *)
TakeServerHelloDone(cl, msg) ==
    IF msg.type # "ServerHelloDone" THEN Closed(cl, "unexpected")
    ELSE [Heard(cl, msg) EXCEPT !.step = "SEND_FLIGHT"]

(* noxtls_tls12_recv_change_cipher_spec, which also takes NewSessionTicket; *)
(* tls12_client_parse_new_session_ticket holds the ticket back.             *)
TakeChangeCipherSpec(cl, msg) ==
    CASE msg.type = "ChangeCipherSpec" ->
            IF cl.ticketNegotiated /\ ~ cl.nst THEN Closed(cl, "unexpected")
            ELSE [cl EXCEPT !.step = IF cl.resumed THEN "RESUME_RECV_FINISHED"
                                     ELSE "RECV_FINISHED"]
      [] msg.type = "NewSessionTicket" ->
            IF ~ cl.ticketNegotiated \/ cl.nst THEN Closed(cl, "unexpected")
            ELSE [Heard(cl, msg) EXCEPT !.nst = TRUE, !.next = msg.ticket]
      [] OTHER -> Closed(cl, "unexpected")

ClientReadSteps == {"RECV_SH", "RECV_CERTIFICATE", "RECV_SERVER_KEY_EXCHANGE",
                    "RECV_SERVER_HELLO_DONE", "RECV_CCS", "RESUME_RECV_CCS"}

ClientReceives(c) ==
    /\ ClientIn(c, ClientReadSteps) /\ s2c[c] # << >>
    /\ LET cl == client[c]
           msg == Head(s2c[c])
       IN  ClientBecomes(c,
             CASE cl.step = "RECV_SH" -> TakeServerHello(c, cl, msg)
               [] cl.step = "RECV_CERTIFICATE" -> TakeCertificate(c, cl, msg)
               [] cl.step = "RECV_SERVER_KEY_EXCHANGE" -> TakeServerKeyExchange(cl, msg)
               [] cl.step = "RECV_SERVER_HELLO_DONE" -> TakeServerHelloDone(cl, msg)
               [] OTHER -> TakeChangeCipherSpec(cl, msg))
    /\ ClientTakes(c)
    /\ UNCHANGED <<setting, stores, server, c2s, fault>>

(* tls12_client_recv_optional_certificate_request: any other message is     *)
(* left pending for the next step.                                          *)
ReceiveCertificateRequest(c) ==
    /\ ClientIn(c, {"RECV_CERTIFICATE_REQUEST"}) /\ s2c[c] # << >>
    /\ LET msg == Head(s2c[c])
           next == [client[c] EXCEPT !.step = "RECV_SERVER_HELLO_DONE"]
       IN  IF msg.type = "CertificateRequest"
           THEN /\ ClientBecomes(c, [Heard(next, msg) EXCEPT !.authRequested = TRUE])
                /\ ClientTakes(c)
           ELSE ClientBecomes(c, next) /\ UNCHANGED s2c
    /\ UNCHANGED <<setting, stores, server, c2s, fault>>

(* From TLS12_CLIENT_POLL_SEND_CERTIFICATE to SEND_FINISHED. The session    *)
(* hash of the extended master secret ends with ClientKeyExchange.          *)
SendClientFlight(c) ==
    /\ ClientIn(c, {"SEND_FLIGHT"})
    /\ LET cl == client[c]
           auth == IF cl.authRequested
                   THEN <<[type |-> "Certificate", present |-> Cfg(c).ownCert]>> ELSE << >>
           tr1 == cl.tr \o Append(auth, Msg("ClientKeyExchange"))
           cv == [type |-> "CertificateVerify", over |-> tr1]
           proof == IF cl.authRequested /\ Cfg(c).ownCert THEN <<cv>> ELSE << >>
           keyed == [cl EXCEPT !.master = Master(c, cl.ems, tr1), !.tr = tr1 \o proof]
           fin == Finished(keyed)
       IN  /\ ClientBecomes(c, [Heard(keyed, fin) EXCEPT !.step = "RECV_CCS"])
           /\ ClientSends(c, Append(auth, Msg("ClientKeyExchange")) \o proof
                                \o <<Msg("ChangeCipherSpec"), fin>>)
    /\ UNCHANGED <<setting, stores, server, s2c, fault>>

(* noxtls_tls12_recv_finished when tls12_client_recv_finished_verify fails, *)
(* the end of the stream included.                                          *)
FinishedFails(c, why) ==
    /\ ClientBecomes(c, [Closed(client[c], why) EXCEPT !.next = "none"])
    /\ session' = IF client[c].resumed /\ WasOffered(c) THEN NoSession ELSE session

\* Mutant: the ticket is stored whether the Finished verifies or not
TakeAndStoreTicket(c) ==
    /\ ClientIn(c, {"RECV_FINISHED", "RESUME_RECV_FINISHED"}) /\ s2c[c] # << >>
    /\ LET cl == client[c]
           msg == Head(s2c[c])
       IN  /\ ClientBecomes(c,
                IF Verifies(cl, msg)
                THEN [Heard(cl, msg) EXCEPT
                        !.step = IF cl.resumed THEN "RESUME_SEND" ELSE "CONNECTED"]
                ELSE Closed(cl, "finished"))
           /\ session' = IF cl.nst THEN SessionOf(c, cl.next) ELSE session
    /\ ClientTakes(c)
    /\ UNCHANGED <<setting, cache, server, c2s, fault>>

ReceiveFinished(c) ==
    /\ ClientIn(c, {"RECV_FINISHED", "RESUME_RECV_FINISHED"}) /\ s2c[c] # << >>
    /\ LET cl == client[c]
           msg == Head(s2c[c])
       IN  IF Verifies(cl, msg)
           THEN /\ ClientBecomes(c, [Heard(cl, msg) EXCEPT
                        !.step = IF cl.resumed THEN "RESUME_SEND" ELSE "CONNECTED"])
                /\ session' = IF cl.nst /\ cl.next # "none" THEN SessionOf(c, cl.next)
                              ELSE session
           ELSE FinishedFails(c, "finished")
    /\ ClientTakes(c)
    /\ UNCHANGED <<setting, cache, server, c2s, fault>>

(* The client's side of an abbreviated handshake ends after the server's. *)
SendResumedFinished(c) ==
    /\ ClientIn(c, {"RESUME_SEND"})
    /\ ClientBecomes(c, [Heard(client[c], Finished(client[c])) EXCEPT !.step = "CONNECTED"])
    /\ ClientSends(c, <<Msg("ChangeCipherSpec"), Finished(client[c])>>)
    /\ UNCHANGED <<setting, stores, server, s2c, fault>>

(* The connection is closed when nothing sent before it is left to read. *)
ClientSeesEnd(c) ==
    /\ ~ ClientIn(c, Final \cup {"SEND_CH", "SEND_FLIGHT", "RESUME_SEND"})
    /\ ServerIn(c, {"CLOSED"}) /\ s2c[c] = << >>
    /\ ClientIn(c, {"PEEK_RESUME"}) => WasOffered(c)
    /\ IF ClientIn(c, {"RECV_FINISHED", "RESUME_RECV_FINISHED"})
       THEN FinishedFails(c, "peer")
       ELSE ClientBecomes(c, Closed(client[c], "peer")) /\ UNCHANGED session
    /\ UNCHANGED <<setting, cache, server, c2s, s2c, fault>>

-----------------------------------------------------------------------------
(* The server's ticket cache *)

Least(S) == CHOOSE i \in S : \A j \in S : i <= j

(* tls12_ticket_cache_find: 0 for no entry; expired entries passed on the   *)
(* way are wiped.                                                           *)
Live(i) == cache[i] # NoEntry /\ ~ cache[i].expired
TicketCacheFind(ticket) ==
    LET hits == { i \in DOMAIN cache : Live(i) /\ cache[i].ticket = ticket }
    IN  IF hits = {} THEN 0 ELSE Least(hits)
Wiped(found) ==
    [i \in DOMAIN cache |->
        IF Live(i) \/ (found # 0 /\ i > found) THEN cache[i] ELSE NoEntry]

\* Mutant: a full cache takes a slot past its end
TicketCacheAppend(entry) ==
    LET swept == Wiped(0)
        free == { i \in DOMAIN swept : swept[i] = NoEntry }
    IN  IF free = {} THEN Append(swept, entry) ELSE [swept EXCEPT ![Least(free)] = entry]

(* tls12_ticket_cache_store: the first slot when all are in use *)
TicketCacheStore(entry) ==
    LET swept == Wiped(0)
        free == { i \in DOMAIN swept : swept[i] = NoEntry }
    IN  [swept EXCEPT ![IF free = {} THEN 1 ELSE Least(free)] = entry]

-----------------------------------------------------------------------------
(* The server: tls12_accept_poll_steps *)

(* tls12_server_resumption_allowed *)
ResumptionAllowed(c) == Cfg(c).auth = "none"

(* The suite of the server's list that comes first and the client offers *)
FreshSuite(c, ch) ==
    LET common == SelectSeq(Cfg(c).serverSuites, LAMBDA s : s \in ch.suites)
    IN  IF common = << >> THEN "none" ELSE Head(common)

(* The ticket's session may be resumed by this server for this ClientHello. *)
Usable(c, ch, e) ==
    /\ e.identity = Cfg(c).identity        \* tls12_server_binding_matches
    /\ e.alpn = ch.alpn                    \* the protocol negotiated now
    /\ e.suite \in ch.suites

\* Mutant: a session without extended master secret is resumed anyway
EmsPolicyLenient(e, ch) == IF e.ems /\ ~ ch.ems THEN "refuse" ELSE "resume"

(* tls12_resume_ems_policy *)
EmsPolicy(e, ch) ==
    CASE e.ems /\ ~ ch.ems -> "refuse"
      [] ~ e.ems /\ ch.ems -> "full"
      [] OTHER -> "resume"

(* noxtls_tls12_recv_client_hello from the chosen suite on. A resumption    *)
(* cancelled for its name selects the suite again; one cancelled for        *)
(* extended master secret keeps the suite of the session.                   *)
ChooseSession(c, sv, ch, found) ==
    LET fresh == FreshSuite(c, ch)
        full(suite) == IF suite = "none" THEN Closed(sv, "suite")
                       ELSE [sv EXCEPT !.suite = suite]
    IN  IF found = 0 THEN full(fresh)
        ELSE LET e == cache[found]
             IN  IF ~ Usable(c, ch, e) \/ e.name # ch.name THEN full(fresh)
                 ELSE CASE EmsPolicy(e, ch) = "refuse" -> Closed(sv, "ems")
                        [] EmsPolicy(e, ch) = "full" -> full(e.suite)
                        [] OTHER -> [sv EXCEPT !.suite = e.suite, !.resumed = TRUE,
                                               !.resumeEms = e.ems, !.master = e.master]

ReceiveClientHello(c) ==
    /\ ServerIn(c, {"RECV_CH"}) /\ c2s[c] # << >>
    /\ LET ch == Head(c2s[c])
           looks == ResumptionAllowed(c) /\ ch.ticketExt /\ ch.ticket # "none"
           found == IF looks THEN TicketCacheFind(ch.ticket) ELSE 0
           sv == [Heard(server[c], ch) EXCEPT !.hello = ch, !.step = "CHECK_SNI"]
       IN  /\ ServerBecomes(c, ChooseSession(c, sv, ch, found))
           /\ cache' = IF looks THEN Wiped(found) ELSE cache
    /\ ServerTakes(c)
    /\ UNCHANGED <<setting, session, client, s2c, fault>>

(* tls12_server_maybe_alert_unrecognized_sni: a warning is a record the     *)
(* client reads before ServerHello.                                         *)
UnrecognizedName(c) == Cfg(c).expect \notin {"any", Cfg(c).name}
WarnsOfName(c) == UnrecognizedName(c) /\ ~ Cfg(c).fatal
CheckSni(c) ==
    /\ ServerIn(c, {"CHECK_SNI"})
    /\ ServerBecomes(c, IF UnrecognizedName(c) /\ Cfg(c).fatal
                        THEN Closed(server[c], "sni")
                        ELSE [server[c] EXCEPT !.step = "SEND_SH"])
    /\ ServerSends(c, IF WarnsOfName(c) THEN <<Msg("alert")>> ELSE << >>)
    /\ UNCHANGED <<setting, stores, client, c2s, fault>>

\* Mutant: the server of an abbreviated handshake waits for the client
AfterServerHelloWaits(sv) == IF sv.resumed THEN "RESUME_RECV_CCS" ELSE "SEND_FLIGHT"

(* The step after ServerHello; in an abbreviated handshake the server sends *)
(* its ticket and Finished first.                                           *)
AfterServerHello(sv) == IF sv.resumed THEN "RESUME_SEND_TICKET" ELSE "SEND_FLIGHT"

(* noxtls_tls12_send_server_hello *)
SendServerHello(c) ==
    /\ ServerIn(c, {"SEND_SH"})
    /\ LET sv == server[c]
           ems == sv.hello.ems /\ (sv.resumed => sv.resumeEms)
           sh == [type |-> "ServerHello", random |-> c, suite |-> sv.suite, ems |-> ems,
                  ticketExt |-> sv.hello.ticketExt]
       IN  /\ ServerBecomes(c, [Heard(sv, sh) EXCEPT !.ems = ems, !.step = AfterServerHello(sv)])
           /\ ServerSends(c, <<sh>>)
    /\ UNCHANGED <<setting, stores, client, c2s, fault>>

(* From TLS12_SERVER_POLL_SEND_CERTIFICATE to SEND_SERVER_HELLO_DONE *)
SendServerFlight(c) ==
    /\ ServerIn(c, {"SEND_FLIGHT"})
    /\ LET asks == Cfg(c).auth # "none"
           msgs == <<Msg("Certificate")>>
                     \o (IF server[c].suite = "dhe" THEN <<Msg("ServerKeyExchange")>> ELSE << >>)
                     \o (IF asks THEN <<Msg("CertificateRequest")>> ELSE << >>)
                     \o <<Msg("ServerHelloDone")>>
       IN  /\ ServerBecomes(c, [server[c] EXCEPT
                 !.tr = @ \o msgs,
                 !.step = IF asks THEN "RECV_CERTIFICATE" ELSE "RECV_CLIENT_KEY_EXCHANGE"])
           /\ ServerSends(c, msgs)
    /\ UNCHANGED <<setting, stores, client, c2s, fault>>

(* tls12_recv_client_certificate, and its absence where one is required *)
TakeClientCertificate(c, sv, msg) ==
    IF msg.type # "Certificate" THEN Closed(sv, "unexpected")
    ELSE IF Cfg(c).auth = "require" /\ ~ msg.present THEN Closed(sv, "cert_required")
    ELSE [Heard(sv, msg) EXCEPT !.step = "RECV_CLIENT_KEY_EXCHANGE",
                                !.peerCert = IF msg.present THEN "offered" ELSE "none"]

(* noxtls_tls12_recv_client_key_exchange, master secret and keys *)
TakeClientKeyExchange(c, sv, msg) ==
    IF msg.type # "ClientKeyExchange" THEN Closed(sv, "unexpected")
    ELSE LET heard == Heard(sv, msg)
         IN  [heard EXCEPT !.master = Master(c, sv.ems, heard.tr),
                           !.step = IF sv.peerCert = "offered" THEN "RECV_CERTIFICATE_VERIFY"
                                    ELSE "RECV_CCS"]

(* tls12_recv_client_certificate_verify *)
TakeCertificateVerify(sv, msg) ==
    IF msg.type # "CertificateVerify" \/ msg.over # sv.tr THEN Closed(sv, "unexpected")
    ELSE [Heard(sv, msg) EXCEPT !.peerCert = "proved", !.step = "RECV_CCS"]

(* noxtls_tls12_recv_change_cipher_spec_client *)
TakeClientChangeCipherSpec(sv, msg) ==
    IF msg.type # "ChangeCipherSpec" THEN Closed(sv, "unexpected")
    ELSE [sv EXCEPT !.step = IF sv.resumed THEN "RESUME_RECV_FINISHED" ELSE "RECV_FINISHED"]

(* noxtls_tls12_recv_finished_client *)
TakeClientFinished(sv, msg) ==
    IF ~ Verifies(sv, msg) THEN Closed(sv, "finished")
    ELSE [Heard(sv, msg) EXCEPT !.step = IF sv.resumed THEN "CONNECTED" ELSE "SEND_TICKET"]

ServerReadSteps == {"RECV_CERTIFICATE", "RECV_CLIENT_KEY_EXCHANGE", "RECV_CERTIFICATE_VERIFY",
                    "RECV_CCS", "RESUME_RECV_CCS", "RECV_FINISHED", "RESUME_RECV_FINISHED"}
ServerSendSteps == {"CHECK_SNI", "SEND_SH", "SEND_FLIGHT", "SEND_TICKET", "RESUME_SEND_TICKET",
                    "SEND_CCS", "RESUME_SEND_CCS", "SEND_FINISHED", "RESUME_SEND_FINISHED"}

ServerReceives(c) ==
    /\ ServerIn(c, ServerReadSteps) /\ c2s[c] # << >>
    /\ LET sv == server[c]
           msg == Head(c2s[c])
       IN  ServerBecomes(c,
             CASE sv.step = "RECV_CERTIFICATE" -> TakeClientCertificate(c, sv, msg)
               [] sv.step = "RECV_CLIENT_KEY_EXCHANGE" -> TakeClientKeyExchange(c, sv, msg)
               [] sv.step = "RECV_CERTIFICATE_VERIFY" -> TakeCertificateVerify(sv, msg)
               [] sv.step \in {"RECV_CCS", "RESUME_RECV_CCS"} -> TakeClientChangeCipherSpec(sv, msg)
               [] OTHER -> TakeClientFinished(sv, msg))
    /\ ServerTakes(c)
    /\ UNCHANGED <<setting, stores, client, s2c, fault>>

(* tls12_send_new_session_ticket, when the client sent the extension: the   *)
(* ticket is in the cache before it is sent.                                *)
SendNewSessionTicket(c) ==
    /\ ServerIn(c, {"SEND_TICKET", "RESUME_SEND_TICKET"})
    /\ LET sv == server[c]
           next == [sv EXCEPT !.step = IF sv.resumed THEN "RESUME_SEND_CCS" ELSE "SEND_CCS"]
           nst == [type |-> "NewSessionTicket", ticket |-> c]
           entry == [ticket |-> c, master |-> sv.master, suite |-> sv.suite, ems |-> sv.ems,
                     name |-> sv.hello.name, alpn |-> sv.hello.alpn,
                     identity |-> Cfg(c).identity, expired |-> FALSE]
       IN  IF sv.hello.ticketExt
           THEN /\ cache' = TicketCacheStore(entry)
                /\ ServerBecomes(c, [Heard(next, nst) EXCEPT !.issued = TRUE])
                /\ ServerSends(c, <<nst>>)
           ELSE ServerBecomes(c, next) /\ UNCHANGED <<cache, s2c>>
    /\ UNCHANGED <<setting, session, client, c2s, fault>>

SendServerChangeCipherSpec(c) ==
    /\ ServerIn(c, {"SEND_CCS", "RESUME_SEND_CCS"})
    /\ ServerBecomes(c, [server[c] EXCEPT
          !.step = IF server[c].resumed THEN "RESUME_SEND_FINISHED" ELSE "SEND_FINISHED"])
    /\ ServerSends(c, <<Msg("ChangeCipherSpec")>>)
    /\ UNCHANGED <<setting, stores, client, c2s, fault>>

SendServerFinished(c) ==
    /\ ServerIn(c, {"SEND_FINISHED", "RESUME_SEND_FINISHED"})
    /\ LET sv == server[c]
       IN  /\ ServerBecomes(c, [Heard(sv, Finished(sv)) EXCEPT
                 !.step = IF sv.resumed THEN "RESUME_RECV_CCS" ELSE "CONNECTED"])
           /\ ServerSends(c, <<Finished(sv)>>)
    /\ UNCHANGED <<setting, stores, client, c2s, fault>>

ServerSeesEnd(c) ==
    /\ ServerIn(c, ServerReadSteps) /\ ClientIn(c, {"CLOSED"}) /\ c2s[c] = << >>
    /\ ServerBecomes(c, Closed(server[c], "peer"))
    /\ UNCHANGED <<setting, stores, client, c2s, s2c, fault>>

-----------------------------------------------------------------------------
(* The environment.  One of these happens in a behaviour: the bound that     *)
(* keeps two interleaved handshakes within reach.                           *)

Fault(kind, on) == fault = NoFault /\ fault' = [kind |-> kind, on |-> on]

(* An accept fails for a reason of its own (memory, the transport). *)
ServerAborts(c) ==
    /\ Fault("abort", c)
    /\ ServerIn(c, ServerReadSteps \cup ServerSendSteps)
    /\ ServerBecomes(c, Closed(server[c], "abort"))
    /\ UNCHANGED <<setting, stores, client, c2s, s2c>>

(* The lifetime of a ticket passes. *)
TicketExpires(i) ==
    /\ Live(i)
    /\ Fault("expired", cache[i].ticket)
    /\ cache' = [cache EXCEPT ![i].expired = TRUE]
    /\ UNCHANGED <<setting, session, client, server, c2s, s2c>>

(* noxtls_tls12_session_stores_clear in one of the processes *)
SessionStoresClear(process) ==
    /\ Fault("cleared", process)
    /\ session' = IF process = "client" THEN NoSession ELSE session
    /\ cache' = IF process = "server" THEN [i \in DOMAIN cache |-> NoEntry] ELSE cache
    /\ UNCHANGED <<setting, client, server, c2s, s2c>>

(* NewSessionTicket, the one unprotected message of the server's last       *)
(* flight, changes in transit.                                              *)
TicketDamaged(c) ==
    /\ Fault("damaged", c)
    /\ \E i \in DOMAIN s2c[c] :
         /\ s2c[c][i].type = "NewSessionTicket"
         /\ s2c' = [s2c EXCEPT ![c][i].ticket = "foreign"]
    /\ UNCHANGED <<setting, stores, client, server, c2s>>

ClientStep(c) ==
    \/ SendClientHello(c) \/ PeekResume(c) \/ ClientReceives(c)
    \/ ReceiveCertificateRequest(c) \/ SendClientFlight(c) \/ ReceiveFinished(c)
    \/ SendResumedFinished(c) \/ ClientSeesEnd(c)

ServerStep(c) ==
    \/ ReceiveClientHello(c) \/ CheckSni(c) \/ SendServerHello(c) \/ SendServerFlight(c)
    \/ ServerReceives(c) \/ SendNewSessionTicket(c) \/ SendServerChangeCipherSpec(c)
    \/ SendServerFinished(c) \/ ServerSeesEnd(c)

Next ==
    \/ \E c \in Conns : ClientStep(c) \/ ServerStep(c) \/ ServerAborts(c) \/ TicketDamaged(c)
    \/ \E i \in DOMAIN cache : TicketExpires(i)
    \/ \E p \in {"client", "server"} : SessionStoresClear(p)

Spec == Init /\ [][Next]_vars

(* Both applications keep polling every connection. *)
FairSpec == Spec /\ \A c \in Conns : WF_vars(ClientStep(c)) /\ WF_vars(ServerStep(c))

-----------------------------------------------------------------------------
(* Properties *)

Tickets == Conns \cup {"none", "prior", "foreign"}
ClientSteps == ClientReadSteps \cup Final \cup
    {"SEND_CH", "PEEK_RESUME", "RECV_CERTIFICATE_REQUEST", "SEND_FLIGHT", "RECV_FINISHED",
     "RESUME_RECV_FINISHED", "RESUME_SEND"}

(* Contexts, stores and messages have their types; the ticket cache keeps   *)
(* its size, and no ticket is in two slots.                                 *)
TypeOK ==
    /\ session.ticket \in Tickets
    /\ DOMAIN cache = 1 .. TicketSlots
    /\ \A i \in DOMAIN cache : cache[i].ticket \in Tickets \ {"foreign"}
    /\ \A i, j \in DOMAIN cache : Live(i) /\ Live(j) /\ cache[i].ticket = cache[j].ticket => i = j
    /\ \A c \in Conns :
         /\ client[c].step \in ClientSteps
         /\ server[c].step \in ServerReadSteps \cup ServerSendSteps \cup Final \cup {"RECV_CH"}
         /\ client[c].step = "CLOSED" <=> client[c].why # "none"
         /\ server[c].step = "CLOSED" <=> server[c].why # "none"

(* Two ends that are both connected went through the same handshake: same   *)
(* messages (the ticket included), master secret, suite, extended master    *)
(* secret, and both full or both abbreviated.                               *)
Agreement ==
    \A c \in Conns : ClientIn(c, {"CONNECTED"}) /\ ServerIn(c, {"CONNECTED"}) =>
        /\ client[c].tr = server[c].tr /\ client[c].master = server[c].master
        /\ client[c].suite = server[c].suite /\ client[c].ems = server[c].ems
        /\ client[c].resumed = server[c].resumed

(* A resumed connection rests on the certificate of the full handshake its  *)
(* master secret comes from: that handshake verified the name this          *)
(* connection is for, however many connections shared the store since. A    *)
(* server that requires a client certificate has one proved in this very    *)
(* connection.                                                              *)
PeersAuthenticated ==
    \A c \in Conns :
        /\ ClientIn(c, {"CONNECTED"}) =>
             LET o == client[c].master.of
             IN  IF o = "prior" THEN setting.prior.name = Cfg(c).name
                 ELSE client[o].peerCert /\ Cfg(o).name = Cfg(c).name
        /\ ServerIn(c, {"CONNECTED"}) /\ Cfg(c).auth = "require" =>
             server[c].peerCert = "proved"

(* A client that offers extended master secret never ends with a master     *)
(* secret that is not bound to its handshake, neither by resuming an older  *)
(* session nor by the fallback to a full handshake (tls12_resume_ems_policy, *)
(* RFC 7627); the flag kept with a session is the truth about its secret.   *)
EmsKept ==
    \A c \in Conns : ClientIn(c, {"CONNECTED"}) =>
        /\ Cfg(c).ems => client[c].ems
        /\ client[c].ems <=> client[c].master.hash # << >>

(* Resuming gives no connection less than a full handshake would: the       *)
(* certificates asked for and extended master secret                        *)
(* (tls12_server_resumption_allowed, tls12_resume_ems_policy).              *)
NothingLostByResuming == PeersAuthenticated /\ EmsKept

(* "The ticket is authenticated only by the server Finished that follows    *)
(* it": what the client's store holds is a ticket the server issued, with   *)
(* the master secret, suite and extended master secret the server keeps     *)
(* for it and the name it was issued to.                                    *)
StoreGenuine ==
    session.ticket \notin {"none", "prior"} =>
        LET o == session.ticket
        IN  /\ o \in Conns /\ server[o].issued
            /\ session.master = server[o].master /\ session.suite = server[o].suite
            /\ session.ems = server[o].ems /\ session.name = Cfg(o).name

(* "When an abbreviated handshake fails here, the stored session it offered *)
(* is discarded so the next connection performs a full handshake"           *)
(* (noxtls_tls12_recv_finished): no later connection can offer it again,    *)
(* and a session another connection stored meanwhile is not touched.        *)
FailedResumeForgotten ==
    \A c \in Conns :
        client[c].why # "none" /\ client[c].at = "RESUME_RECV_FINISHED" =>
            session.ticket # client[c].offered

(* What the client's store offers to later connections is usable: vouched   *)
(* for by the server, and gone once a resumption with it has failed.        *)
StoreSound == StoreGenuine /\ FailedResumeForgotten

(* A handshake fails only for a cause: no suite in common, a suite chosen   *)
(* among those offered that the client's own allowlist refuses, a           *)
(* certificate, a name or extended master secret refused by configuration,  *)
(* a ticket damaged in transit, or the session that was offered replaced or *)
(* cleared by another connection before the client had read the server's    *)
(* answer.  "Warning then continue" (noxtls_tls12.h:209) is no cause, and   *)
(* not what happens: noxtls_tls12_recv_server_hello fails on the alert      *)
(* record, so nothing is claimed here of a connection whose server warns.   *)
FailsOnlyForCause ==
    \A c \in { d \in Conns : ~ WarnsOfName(d) } :
        LET cl == client[c]
            sv == server[c]
        IN  /\ cl.why # "protocol" /\ sv.why \notin {"unexpected", "finished"}
            /\ cl.why = "suite" => sv.suite \in ClientSuites \ Cfg(c).allowlist
            /\ cl.why = "unexpected" => sv.resumed /\ session.ticket # cl.offered
            /\ cl.why = "certificate" => ~ Cfg(c).trusted
            /\ cl.why = "finished" => fault = [kind |-> "damaged", on |-> c]
            /\ sv.why = "suite" => ClientSuites \cap ElementsOf(Cfg(c).serverSuites) = {}
            /\ sv.why = "ems" => ~ Cfg(c).ems
            /\ sv.why = "sni" => UnrecognizedName(c) /\ Cfg(c).fatal
            /\ sv.why = "cert_required" => Cfg(c).auth = "require" /\ ~ Cfg(c).ownCert

(* No two ends wait for each other: every handshake ends on both sides, in  *)
(* whichever order tickets, change_cipher_spec and Finished are due.        *)
HandshakeEnds ==
    \A c \in Conns : <>[](ClientIn(c, Final) /\ ServerIn(c, Final))

=============================================================================
