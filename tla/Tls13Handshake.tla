--------------------------- MODULE Tls13Handshake ---------------------------
(***************************************************************************)
(* The TLS 1.3 handshake over a stream, both ends: noxtls_tls13_connect and *)
(* noxtls_tls13_accept with their step variables, HelloRetryRequest,        *)
(* resumption by ticket, external PSKs, 0-RTT data, client authentication   *)
(* and the ticket the server issues at the end.                             *)
(*                                                                         *)
(* Each end is called again whenever its transport has something for it     *)
(* (WANT_READ is resumable), so each step that reads is an action of its    *)
(* own.  A secret is what it is derived from: [level, psk, dhe, tr], tr the *)
(* transcript; a record opens only with the secret it was sealed with.  The *)
(* MAC of a Finished and the signature of a CertificateVerify are the       *)
(* transcript they cover.  Suites, signature schemes, SNI and ALPN are      *)
(* taken to be acceptable to both ends; what is negotiated is the group,    *)
(* the PSK and its mode, early data and client authentication.              *)
(***************************************************************************)
EXTENDS Integers, Sequences, FiniteSets

CONSTANTS
    Scenarios,        \* configurations of the two ends
    EarlyLimit,       \* NOXTLS_TLS13_SERVER_MAX_EARLY_DATA, in records
    MaxEarly          \* bound: early records the client sends

ASSUME ScenarioAssumption ==
    /\ EarlyLimit \in Nat /\ MaxEarly \in Nat
    /\ \A s \in Scenarios :
         /\ s.ticket \in {"none", "known", "unknown"}       \* to the server's store
         /\ s.single \in BOOLEAN                           \* its age cannot be checked
         /\ s.external \in {"none", "dhe", "ke", "unknown"} \* preferred mode; to the server
         /\ s.shares \subseteq { s.groups[i] : i \in DOMAIN s.groups }
         /\ s.clientCert \in {"none", "good", "bad"} /\ s.serverCert \in {"good", "bad"}
         /\ s.auth \in {"none", "request", "require"}

VARIABLES
    setting,          \* the scenario, fixed
    client, server,   \* the two contexts
    c2s, s2c          \* records in the transport, as [key, msg, verify]

vars == <<setting, client, server, c2s, s2c>>

-----------------------------------------------------------------------------
(* Secrets and records *)

Secret(level, psk, dhe, tr) == [level |-> level, psk |-> psk, dhe |-> dhe, tr |-> tr]
Plain == Secret("plain", "none", "none", << >>)

(* tls13_derive_early_data_keys; tls13_derive_handshake_keys for the server *)
EarlySecret(psk, hello) == Secret("early", psk, "none", <<hello>>)
HandshakeSecret(psk, dhe, tr) == Secret("handshake", psk, dhe, tr)

(* tls13_derive_application_secrets, from the transcript captured with the *)
(* server's Finished                                                       *)
ApplicationSecret(hs, tr) == [hs EXCEPT !.level = "application", !.tr = tr]

(* tls13_transcript_capture_resumption_secret *)
ResumptionSecret(hs, tr) == [hs EXCEPT !.level = "resumption", !.tr = tr]

Sealed(key, msg) == [key |-> key, msg |-> msg, verify |-> << >>]
Proving(key, msg, tr) == [key |-> key, msg |-> msg, verify |-> tr]
Msg(type) == [type |-> type]
CCS == Sealed(Plain, Msg("change_cipher_spec"))

(* tls13_reset_transcript_for_hrr, and the HelloRetryRequest after it *)
AfterRetryRequest(tr, hrr) == <<[type |-> "message_hash", of |-> tr], hrr>>

-----------------------------------------------------------------------------
(* The configuration *)

HasTicket == setting.ticket # "none"
HasExternal == setting.external # "none"
ServerHasExternal == setting.external \in {"dhe", "ke"}

(* The identities of the pre_shared_key extension, in order *)
OfferedPsks ==
    (IF HasTicket THEN <<"ticket">> ELSE << >>)
        \o (IF HasExternal THEN <<"external">> ELSE << >>)

First(seq, set) ==
    LET hits == SelectSeq(seq, LAMBDA x : x \in set)
    IN  IF hits = << >> THEN "none" ELSE Head(hits)

ElementsOf(seq) == { seq[i] : i \in DOMAIN seq }

Init ==
    /\ setting \in Scenarios
    /\ client = [step |-> "SEND_CH", tr |-> << >>, shares |-> setting.shares,
                 hrr |-> FALSE,              \* client_hrr_seen, received_hrr
                 offeredEarly |-> FALSE,
                 earlyKey |-> Plain,         \* Plain: early_data_phase is 0
                 psk |-> "none", hsKey |-> Plain, appKey |-> Plain,
                 earlyAccepted |-> FALSE, authRequested |-> FALSE,
                 eoedSent |-> FALSE, ccsSeen |-> 0,
                 early |-> 0,                \* early records sent
                 peerCert |-> FALSE,         \* certificate and proof accepted
                 resumption |-> Plain,
                 ticket |-> Plain,           \* PSK of the ticket received
                 why |-> "none"]
    /\ server = [step |-> "RECV_CH", tr |-> << >>, sentHrr |-> FALSE,
                 hrrGroup |-> "none", offeredEarly |-> FALSE,
                 psk |-> "none", useDhe |-> FALSE, group |-> "none",
                 pskKey |-> IF ServerHasExternal THEN "external" ELSE "none",
                 store |-> setting.ticket = "known",
                 earlyKey |-> Plain, hsKey |-> Plain, appKey |-> Plain,
                 eoedSeen |-> FALSE, eoedAppended |-> FALSE, ccsSeen |-> 0,
                 early |-> << >>,            \* 0-RTT data kept for the application
                 peerCert |-> "none",        \* none, offered, proved
                 resumption |-> Plain, why |-> "none"]
    /\ c2s = << >> /\ s2c = << >>

-----------------------------------------------------------------------------
(* Ends.  Closed(e, why) is a handler that returns an error: the alert of   *)
(* tls13_send_handshake_alert_for_error and the end of the stream that      *)
(* follows it reach the peer behind the records already sent (PeerEnds).    *)

Closed(e, why) == [e EXCEPT !.step = "CLOSED", !.why = why]

ClientIn(steps) == client.step \in steps
ServerIn(steps) == server.step \in steps

ClientReadSteps == {"RECV_SH", "RECV_ENC_EXT", "RECV_CERT_REQ", "RECV_CERT",
                    "RECV_CERT_VERIFY", "RECV_FINISHED"}
ClientSendSteps == {"SEND_CH", "SEND_CLIENT_AUTH", "SEND_EOED", "SEND_FINISHED"}
ServerReadSteps == {"RECV_CH", "RECV_CLIENT_CERT", "RECV_CLIENT_CERT_VERIFY", "RECV_FINISHED"}
ServerSendSteps == {"SEND_SH", "SEND_EE", "SEND_CERT_REQ", "SEND_CERT",
                    "SEND_CERT_VERIFY", "SEND_FINISHED", "SEND_NST"}

ClientSends(recs) == c2s' = c2s \o recs
ServerSends(recs) == s2c' = s2c \o recs
ClientTakes == s2c' = Tail(s2c)
ServerTakes == c2s' = Tail(c2s)

-----------------------------------------------------------------------------
(* The client: noxtls_tls13_connect *)

(* noxtls_tls13_send_client_hello: the second hello carries the share the   *)
(* server asked for, no early_data, and binders over the new transcript.    *)
Hello(cl) ==
    [type |-> "ClientHello", shares |-> cl.shares, groups |-> setting.groups,
     psks |-> OfferedPsks, early |-> HasTicket /\ ~ cl.hrr,
     binders |-> [i \in DOMAIN OfferedPsks |-> [key |-> OfferedPsks[i], over |-> cl.tr]]]

(* The hello is in the transcript before it is sent. Early keys that cannot *)
(* be derived leave early_data_phase at 0 and the handshake goes on.        *)
SendClientHello ==
    /\ ClientIn({"SEND_CH"})
    /\ \E derived \in BOOLEAN :
        LET ch == Hello(client)
        IN  /\ derived => ch.early
            /\ client' = [client EXCEPT
                            !.step = "RECV_SH", !.tr = Append(@, ch),
                            !.offeredEarly = ch.early,
                            !.earlyKey = IF derived THEN EarlySecret("ticket", ch) ELSE Plain]
            /\ ClientSends(<<Sealed(Plain, ch)>>)
    /\ UNCHANGED <<setting, server, s2c>>

(* tls13_handle_peer_compat_ccs *)
CompatCcs(e) ==
    IF e.ccsSeen >= 2 THEN Closed(e, "protocol") ELSE [e EXCEPT !.ccsSeen = @ + 1]

ClientCompatCcs ==
    /\ ClientIn(ClientReadSteps) /\ s2c # << >> /\ Head(s2c) = CCS
    /\ client' = CompatCcs(client)
    /\ ClientTakes
    /\ UNCHANGED <<setting, server, c2s>>

\* Mutant: after a retry the client goes on sending early data
RetryHelloKeepsEarly(hrr) ==
    LET cl == [client EXCEPT !.hrr = TRUE, !.shares = {hrr.group},
                             !.tr = AfterRetryRequest(@, hrr)]
        ch == Hello(cl)
    IN  IF client.hrr \/ hrr.group \in client.shares
            \/ hrr.group \notin ElementsOf(setting.groups)
        THEN client' = Closed(client, "protocol") /\ UNCHANGED c2s
        ELSE /\ client' = [cl EXCEPT !.tr = Append(@, ch), !.offeredEarly = FALSE]
             /\ ClientSends(<<CCS, Sealed(Plain, ch)>>)

(* noxtls_tls13_recv_server_hello of a HelloRetryRequest: early data is     *)
(* over, and the second hello is sent behind the compatibility record.      *)
RetryHello(hrr) ==
    LET cl == [client EXCEPT !.hrr = TRUE, !.earlyKey = Plain, !.shares = {hrr.group},
                             !.tr = AfterRetryRequest(@, hrr)]
        ch == Hello(cl)
    IN  IF client.hrr \/ hrr.group \in client.shares
            \/ hrr.group \notin ElementsOf(setting.groups)
        THEN client' = Closed(client, "protocol") /\ UNCHANGED c2s
        ELSE /\ client' = [cl EXCEPT !.tr = Append(@, ch), !.offeredEarly = FALSE]
             /\ ClientSends(<<CCS, Sealed(Plain, ch)>>)

(* ... and of a ServerHello: the selected PSK and share must be offered. *)
TakeServerHello(sh) ==
    IF \/ sh.psk # "none" /\ sh.psk \notin ElementsOf(OfferedPsks)
       \/ sh.group # "none" /\ sh.group \notin client.shares
       \/ sh.group = "none" /\ sh.psk = "none"
    THEN client' = Closed(client, "protocol") /\ UNCHANGED c2s
    ELSE /\ client' = [client EXCEPT
                         !.step = "RECV_ENC_EXT", !.psk = sh.psk, !.tr = Append(@, sh),
                         !.hsKey = HandshakeSecret(sh.psk, sh.group, Append(client.tr, sh))]
         /\ ClientSends(<<CCS>>)

ReceiveServerHello ==
    /\ ClientIn({"RECV_SH"}) /\ s2c # << >> /\ Head(s2c) # CCS
    /\ LET m == Head(s2c).msg
       IN  CASE m.type = "HelloRetryRequest" -> RetryHello(m)
             [] m.type = "ServerHello" -> TakeServerHello(m)
             [] OTHER -> client' = Closed(client, "protocol") /\ UNCHANGED c2s
    /\ ClientTakes
    /\ UNCHANGED <<setting, server>>

Expected(cl, rec, type) == rec.key = cl.hsKey /\ rec.msg.type = type

TakeEncryptedExtensions(cl, rec) ==
    IF \/ ~ Expected(cl, rec, "EncryptedExtensions")
       \/ rec.msg.early /\ (~ cl.offeredEarly \/ cl.hrr \/ cl.psk = "none")
    THEN Closed(cl, "protocol")
    ELSE [cl EXCEPT !.step = "RECV_CERT_REQ", !.tr = Append(@, rec.msg),
                    !.earlyAccepted = rec.msg.early]

AfterCertRequest(cl) == IF cl.psk # "none" THEN "RECV_FINISHED" ELSE "RECV_CERT"

(* noxtls_tls13_recv_certificate_request *)
TakeCertificateRequest(cl, rec) ==
    IF ~ Expected(cl, rec, "CertificateRequest") THEN Closed(cl, "protocol")
    ELSE [cl EXCEPT !.step = AfterCertRequest(cl), !.tr = Append(@, rec.msg),
                    !.authRequested = TRUE]

TakeCertificate(cl, rec) ==
    IF ~ Expected(cl, rec, "Certificate") THEN Closed(cl, "protocol")
    ELSE IF setting.serverCert # "good" THEN Closed(cl, "server_cert")
    ELSE [cl EXCEPT !.step = "RECV_CERT_VERIFY", !.tr = Append(@, rec.msg)]

TakeCertificateVerify(cl, rec) ==
    IF ~ Expected(cl, rec, "CertificateVerify") \/ rec.verify # cl.tr
    THEN Closed(cl, "protocol")
    ELSE [cl EXCEPT !.step = "RECV_FINISHED", !.tr = Append(@, rec.msg), !.peerCert = TRUE]

TakeServerFinished(cl, rec) ==
    IF ~ Expected(cl, rec, "Finished") \/ rec.verify # cl.tr
    THEN Closed(cl, "protocol")
    ELSE [cl EXCEPT !.step = "SEND_CLIENT_AUTH", !.tr = Append(@, rec.msg),
                    !.appKey = ApplicationSecret(cl.hsKey, Append(cl.tr, rec.msg))]

\* Mutant: the message read while looking for a CertificateRequest is lost
ClientReceivesWithoutPending ==
    /\ ClientIn(ClientReadSteps \ {"RECV_SH"}) /\ s2c # << >> /\ Head(s2c) # CCS
    /\ LET rec == Head(s2c)
       IN  client' =
             CASE ClientIn({"RECV_ENC_EXT"}) -> TakeEncryptedExtensions(client, rec)
               [] ClientIn({"RECV_CERT_REQ"}) ->
                    IF rec.msg.type = "CertificateRequest" THEN TakeCertificateRequest(client, rec)
                    ELSE [client EXCEPT !.step = AfterCertRequest(client)]
               [] ClientIn({"RECV_CERT"}) -> TakeCertificate(client, rec)
               [] ClientIn({"RECV_CERT_VERIFY"}) -> TakeCertificateVerify(client, rec)
               [] OTHER -> TakeServerFinished(client, rec)
    /\ ClientTakes
    /\ UNCHANGED <<setting, server, c2s>>

(* One message of the server's flight. Where a CertificateRequest may come, *)
(* a Certificate or Finished is kept (pending_handshake_msg) for its step.  *)
ClientReceives ==
    /\ ClientIn(ClientReadSteps \ {"RECV_SH"}) /\ s2c # << >> /\ Head(s2c) # CCS
    /\ LET rec == Head(s2c)
       IN  IF /\ ClientIn({"RECV_CERT_REQ"}) /\ rec.key = client.hsKey
              /\ rec.msg.type \in {"Certificate", "Finished"}
           THEN client' = [client EXCEPT !.step = AfterCertRequest(client)] /\ UNCHANGED s2c
           ELSE /\ client' =
                     CASE ClientIn({"RECV_ENC_EXT"}) -> TakeEncryptedExtensions(client, rec)
                       [] ClientIn({"RECV_CERT_REQ"}) -> TakeCertificateRequest(client, rec)
                       [] ClientIn({"RECV_CERT"}) -> TakeCertificate(client, rec)
                       [] ClientIn({"RECV_CERT_VERIFY"}) -> TakeCertificateVerify(client, rec)
                       [] OTHER -> TakeServerFinished(client, rec)
                /\ ClientTakes
    /\ UNCHANGED <<setting, server, c2s>>

(* A certificate and its proof, or an empty Certificate. *)
SendClientAuth ==
    /\ ClientIn({"SEND_CLIENT_AUTH"})
    /\ LET cert == [type |-> "Certificate", cert |-> setting.clientCert]
           proof == Msg("CertificateVerify")
           tr == Append(client.tr, cert)
           proves == setting.clientCert # "none"
       IN  IF client.authRequested
           THEN /\ client' = [client EXCEPT !.step = "SEND_EOED",
                                            !.tr = IF proves THEN Append(tr, proof) ELSE tr]
                /\ ClientSends(<<Sealed(client.hsKey, cert)>> \o
                     IF proves THEN <<Proving(client.hsKey, proof, tr)>> ELSE << >>)
           ELSE client' = [client EXCEPT !.step = "SEND_EOED"] /\ UNCHANGED c2s
    /\ UNCHANGED <<setting, server, s2c>>

(* EndOfEarlyData, under the handshake keys, if early data was accepted. *)
SendEndOfEarlyData ==
    /\ ClientIn({"SEND_EOED"})
    /\ IF client.earlyAccepted
       THEN /\ client' = [client EXCEPT !.step = "SEND_FINISHED", !.eoedSent = TRUE,
                                        !.tr = Append(@, Msg("EndOfEarlyData"))]
            /\ ClientSends(<<Sealed(client.hsKey, Msg("EndOfEarlyData"))>>)
       ELSE client' = [client EXCEPT !.step = "SEND_FINISHED"] /\ UNCHANGED c2s
    /\ UNCHANGED <<setting, server, s2c>>

\* Mutant: the resumption secret is captured before Finished is appended
SendClientFinishedEarlyCapture ==
    /\ ClientIn({"SEND_FINISHED"})
    /\ client' = [client EXCEPT !.step = "CONNECTED", !.tr = Append(@, Msg("Finished")),
                                !.resumption = ResumptionSecret(client.hsKey, client.tr)]
    /\ ClientSends(<<Proving(client.hsKey, Msg("Finished"), client.tr)>>)
    /\ UNCHANGED <<setting, server, s2c>>

(* noxtls_tls13_send_finished, then the application keys are installed. *)
SendClientFinished ==
    /\ ClientIn({"SEND_FINISHED"})
    /\ LET tr == Append(client.tr, Msg("Finished"))
       IN  client' = [client EXCEPT !.step = "CONNECTED", !.tr = tr,
                                    !.resumption = ResumptionSecret(client.hsKey, tr)]
    /\ ClientSends(<<Proving(client.hsKey, Msg("Finished"), client.tr)>>)
    /\ UNCHANGED <<setting, server, s2c>>

(* noxtls_tls13_send_early_data, between two calls of connect. *)
SendEarlyData ==
    /\ ClientIn(ClientReadSteps)
    /\ client.earlyKey # Plain /\ ~ client.eoedSent
    /\ client.early < MaxEarly
    /\ client' = [client EXCEPT !.early = @ + 1]
    /\ ClientSends(<<Sealed(client.earlyKey, [type |-> "data", unit |-> client.early + 1])>>)
    /\ UNCHANGED <<setting, server, s2c>>

(* noxtls_tls13_recv of a connected client: the ticket, whose PSK it        *)
(* derives itself.                                                          *)
ReceiveTicket ==
    /\ ClientIn({"CONNECTED"}) /\ s2c # << >>
    /\ client' = IF Head(s2c).key = client.appKey /\ Head(s2c).msg.type = "NewSessionTicket"
                 THEN [client EXCEPT !.ticket = client.resumption]
                 ELSE Closed(client, "protocol")
    /\ ClientTakes
    /\ UNCHANGED <<setting, server, c2s>>

-----------------------------------------------------------------------------
(* The server: noxtls_tls13_accept *)

(* What a hello selects: identities are tried in order, a ticket against    *)
(* the store and an external identity against the configured one. psk_key   *)
(* holds the secret of the identity tried last; a binder that does not      *)
(* match ends the handshake. A ticket whose age cannot be checked is taken  *)
(* out of the store when it is accepted, before a retry is considered.      *)
TryTicket(sv, ch, i, prefix) ==
    IF ch.binders[i] # [key |-> "ticket", over |-> prefix]
    THEN [sv EXCEPT !.psk = "bad"]
    ELSE [sv EXCEPT !.psk = "ticket", !.pskKey = "ticket",
                    !.useDhe = ch.shares # {},
                    !.store = ~ setting.single]

TryExternal(sv, ch, i, prefix) ==
    IF ch.binders[i] # [key |-> sv.pskKey, over |-> prefix]
    THEN [sv EXCEPT !.psk = "bad"]
    ELSE [sv EXCEPT !.psk = "external",
                    !.useDhe = setting.external = "dhe" /\ ch.shares # {}]

SelectPsk(sv, ch, prefix) ==
    LET cleared == [sv EXCEPT !.psk = "none", !.useDhe = FALSE]
        usable == { i \in DOMAIN ch.psks :
                      \/ ch.psks[i] = "ticket" /\ sv.store
                      \/ ch.psks[i] = "external" /\ ServerHasExternal }
        i == CHOOSE k \in usable : \A n \in usable : k <= n
    IN  IF usable = {} THEN cleared
        ELSE IF ch.psks[i] = "ticket" THEN TryTicket(cleared, ch, i, prefix)
                                      ELSE TryExternal(cleared, ch, i, prefix)

(* A hello without a share of a group the server has is answered with a     *)
(* retry for the first group of the client that the server supports.        *)
SendRetryRequest(sv, tr) ==
    LET group == First(setting.groups, ElementsOf(setting.serverGroups))
        hrr == [type |-> "HelloRetryRequest", group |-> group]
    IN  IF group = "none" THEN server' = Closed(sv, "no_group") /\ UNCHANGED s2c
        ELSE /\ server' = [sv EXCEPT !.tr = AfterRetryRequest(tr, hrr), !.sentHrr = TRUE,
                                     !.hrrGroup = group]
             /\ ServerSends(<<Sealed(Plain, hrr), CCS>>)

(* noxtls_tls13_recv_client_hello. The first hello enters the transcript at *)
(* once; the second only when it is accepted, its binders cover what is     *)
(* before it.                                                               *)
ProcessClientHello(ch) ==
    LET prefix == IF server.sentHrr THEN server.tr ELSE << >>
        tr == IF server.sentHrr THEN server.tr ELSE Append(server.tr, ch)
        sv == [SelectPsk(server, ch, prefix) EXCEPT !.offeredEarly = ch.early]
        needsShare == sv.psk = "none" \/ sv.useDhe
        group == First(setting.serverGroups, ch.shares)
    IN  IF \/ server.sentHrr /\ (ch.shares # {server.hrrGroup} \/ ch.early)
           \/ sv.psk = "bad"
        THEN server' = Closed(server, "protocol") /\ UNCHANGED s2c
        ELSE IF needsShare /\ ch.shares = {}
        THEN server' = Closed(sv, "no_share") /\ UNCHANGED s2c
        ELSE IF needsShare /\ group = "none"
        THEN SendRetryRequest(sv, tr)
        ELSE /\ server' = [sv EXCEPT !.step = "SEND_SH",
                                     !.group = IF needsShare THEN group ELSE "none",
                                     !.tr = IF server.sentHrr THEN Append(tr, ch) ELSE tr]
             /\ UNCHANGED s2c

(* Early data sent before the client saw the retry is dropped. The hello is *)
(* one record here; Tls13SplitHello has a peer that uses two.               *)
ReceiveClientHello ==
    /\ ServerIn({"RECV_CH"}) /\ c2s # << >> /\ Head(c2s) # CCS
    /\ LET rec == Head(c2s)
       IN  CASE rec.msg.type = "ClientHello" -> ProcessClientHello(rec.msg)
             [] rec.key.level = "early" /\ server.sentHrr -> UNCHANGED <<server, s2c>>
             [] OTHER -> server' = Closed(server, "protocol") /\ UNCHANGED s2c
    /\ ServerTakes
    /\ UNCHANGED <<setting, client>>

(* noxtls_tls13_send_server_hello, the compatibility record unless it went  *)
(* out with the retry, and the keys: the early secret from the first hello  *)
(* and the PSK in psk_key, whichever identity that is.                      *)
SendServerHello ==
    /\ ServerIn({"SEND_SH"})
    /\ LET sh == [type |-> "ServerHello", psk |-> server.psk, group |-> server.group]
           tr == Append(server.tr, sh)
       IN  /\ server' = [server EXCEPT
                           !.step = "SEND_EE", !.tr = tr,
                           !.earlyKey = IF server.psk # "none" /\ server.offeredEarly
                                        THEN EarlySecret(server.pskKey, Head(tr)) ELSE Plain,
                           !.hsKey = HandshakeSecret(
                                IF server.psk = "none" THEN "none" ELSE server.pskKey,
                                server.group, tr)]
           /\ ServerSends(<<Sealed(Plain, sh)>> \o IF server.sentHrr THEN << >> ELSE <<CCS>>)
    /\ UNCHANGED <<setting, client, c2s>>

AcceptsEarly(sv) == sv.psk # "none" /\ sv.offeredEarly

AfterAuthRequest(sv) == IF sv.psk = "none" THEN "SEND_CERT" ELSE "SEND_FINISHED"

(* The server's flight, one message a step: sealed, in the transcript. *)
SendsFlight(step, next, msg) ==
    /\ ServerIn({step})
    /\ server' = [server EXCEPT !.step = next, !.tr = Append(@, msg)]
    /\ ServerSends(<<Proving(server.hsKey, msg, server.tr)>>)
    /\ UNCHANGED <<setting, client, c2s>>

SendEncryptedExtensions ==
    SendsFlight("SEND_EE",
                IF setting.auth # "none" THEN "SEND_CERT_REQ" ELSE AfterAuthRequest(server),
                [type |-> "EncryptedExtensions", early |-> AcceptsEarly(server)])

SendCertificateRequest ==
    SendsFlight("SEND_CERT_REQ", AfterAuthRequest(server), Msg("CertificateRequest"))

SendCertificate == SendsFlight("SEND_CERT", "SEND_CERT_VERIFY", Msg("Certificate"))

SendCertificateVerify ==
    SendsFlight("SEND_CERT_VERIFY", "SEND_FINISHED", Msg("CertificateVerify"))

(* Finished; the application keys are derived and the write keys installed. *)
SendServerFinished ==
    /\ ServerIn({"SEND_FINISHED"})
    /\ LET tr == Append(server.tr, Msg("Finished"))
       IN  server' = [server EXCEPT
                        !.step = IF setting.auth # "none" THEN "RECV_CLIENT_CERT"
                                                          ELSE "RECV_FINISHED",
                        !.tr = tr, !.appKey = ApplicationSecret(server.hsKey, tr)]
    /\ ServerSends(<<Proving(server.hsKey, Msg("Finished"), server.tr)>>)
    /\ UNCHANGED <<setting, client, c2s>>

ServerCompatCcs ==
    /\ ServerIn(ServerReadSteps) /\ c2s # << >> /\ Head(c2s) = CCS
    /\ server' = CompatCcs(server)
    /\ ServerTakes
    /\ UNCHANGED <<setting, client, s2c>>

(* tls13_recv_handshake_message of the server: the handshake keys are tried *)
(* before the early keys; early data the server did not accept is skipped.  *)
MayBeEarly(sv) == AcceptsEarly(sv) /\ ~ sv.eoedSeen
SkipsUnreadable(sv) == sv.psk = "none" /\ sv.offeredEarly /\ ~ sv.eoedSeen /\ ~ sv.sentHrr

\* Mutant: the limit on early data is not applied
KeepEarlyDataUnlimited(sv, unit) == [sv EXCEPT !.early = Append(@, unit)]

\* Mutant: early data past the limit is dropped, not refused
KeepEarlyDataTruncating(sv, unit) ==
    IF Len(sv.early) >= EarlyLimit THEN sv ELSE [sv EXCEPT !.early = Append(@, unit)]

KeepEarlyData(sv, unit) ==
    IF Len(sv.early) >= EarlyLimit THEN Closed(sv, "early_limit")
    ELSE [sv EXCEPT !.early = Append(@, unit)]

\* Mutant: a client without a certificate is let through where one is required
TakeClientCertificateLenient(sv, rec) ==
    LET cert == rec.msg.cert
    IN  IF rec.msg.type # "Certificate" THEN Closed(sv, "protocol")
        ELSE IF cert = "bad" THEN Closed(sv, "client_cert")
        ELSE [sv EXCEPT !.tr = Append(@, rec.msg),
                        !.peerCert = IF cert = "none" THEN "none" ELSE "offered",
                        !.step = IF cert = "none" THEN "RECV_FINISHED"
                                                  ELSE "RECV_CLIENT_CERT_VERIFY"]

(* A certificate without a valid chain is refused; none is an error only    *)
(* where one is required.                                                   *)
TakeClientCertificate(sv, rec) ==
    LET cert == rec.msg.cert
    IN  IF rec.msg.type # "Certificate" THEN Closed(sv, "protocol")
        ELSE IF cert = "bad" THEN Closed(sv, "client_cert")
        ELSE IF cert = "none" /\ setting.auth = "require" THEN Closed(sv, "cert_required")
        ELSE [sv EXCEPT !.tr = Append(@, rec.msg),
                        !.peerCert = IF cert = "none" THEN "none" ELSE "offered",
                        !.step = IF cert = "none" THEN "RECV_FINISHED"
                                                  ELSE "RECV_CLIENT_CERT_VERIFY"]

TakeClientCertificateVerify(sv, rec) ==
    IF rec.msg.type # "CertificateVerify" \/ rec.verify # sv.tr THEN Closed(sv, "protocol")
    ELSE [sv EXCEPT !.tr = Append(@, rec.msg), !.peerCert = "proved",
                    !.step = "RECV_FINISHED"]

(* noxtls_tls13_recv_finished_client. EndOfEarlyData enters the transcript  *)
(* once; the call may return WANT_READ before Finished arrives.             *)
TakeClientFinished(sv, rec) ==
    IF rec.msg.type = "EndOfEarlyData" /\ AcceptsEarly(sv) /\ ~ sv.eoedAppended
    THEN [sv EXCEPT !.tr = Append(@, rec.msg), !.eoedAppended = TRUE]
    ELSE IF rec.msg.type # "Finished" \/ rec.verify # sv.tr THEN Closed(sv, "protocol")
    ELSE [sv EXCEPT !.tr = Append(@, rec.msg), !.step = "SEND_NST",
                    !.resumption = ResumptionSecret(sv.hsKey, Append(sv.tr, rec.msg))]

TakeHandshakeMessage(rec) ==
    LET sv == [server EXCEPT !.eoedSeen = @ \/ rec.msg.type = "EndOfEarlyData"]
    IN  CASE ServerIn({"RECV_CLIENT_CERT"}) -> TakeClientCertificate(sv, rec)
          [] ServerIn({"RECV_CLIENT_CERT_VERIFY"}) -> TakeClientCertificateVerify(sv, rec)
          [] OTHER -> TakeClientFinished(sv, rec)

ServerReceives ==
    /\ ServerIn(ServerReadSteps \ {"RECV_CH"}) /\ c2s # << >> /\ Head(c2s) # CCS
    /\ LET rec == Head(c2s)
       IN  server' = IF rec.key = server.hsKey THEN TakeHandshakeMessage(rec)
                     ELSE IF MayBeEarly(server) /\ rec.key = server.earlyKey
                     THEN KeepEarlyData(server, rec.msg.unit)
                     ELSE IF SkipsUnreadable(server) THEN server
                     ELSE Closed(server, "protocol")
    /\ ServerTakes
    /\ UNCHANGED <<setting, client, s2c>>

(* Read keys installed; a ticket that cannot be issued is not an error. *)
SendNewSessionTicket ==
    /\ ServerIn({"SEND_NST"})
    /\ server' = [server EXCEPT !.step = "CONNECTED"]
    /\ \/ ServerSends(<<Sealed(server.appKey, Msg("NewSessionTicket"))>>)
       \/ UNCHANGED s2c
    /\ UNCHANGED <<setting, client, c2s>>

-----------------------------------------------------------------------------
(* Ends, continued *)

(* A step of connect or accept fails for a reason of its own (memory, the   *)
(* transport); the application drops the context and closes the stream.     *)
ClientAborts ==
    /\ ClientIn(ClientReadSteps \cup ClientSendSteps)
    /\ client' = Closed(client, "abort")
    /\ UNCHANGED <<setting, server, c2s, s2c>>

ServerAborts ==
    /\ ServerIn(ServerReadSteps \cup ServerSendSteps)
    /\ server' = Closed(server, "abort")
    /\ UNCHANGED <<setting, client, c2s, s2c>>

(* The alert or the end of the stream, read behind everything sent before. *)
ClientSeesEnd ==
    /\ ClientIn(ClientReadSteps \cup {"CONNECTED"}) /\ s2c = << >> /\ ServerIn({"CLOSED"})
    /\ client' = Closed(client, "peer")
    /\ UNCHANGED <<setting, server, c2s, s2c>>

ServerSeesEnd ==
    /\ ServerIn(ServerReadSteps \cup {"CONNECTED"}) /\ c2s = << >> /\ ClientIn({"CLOSED"})
    /\ server' = Closed(server, "peer")
    /\ UNCHANGED <<setting, client, c2s, s2c>>

ClientStep ==
    \/ SendClientHello \/ ClientCompatCcs \/ ReceiveServerHello
    \/ ClientReceives \/ SendClientAuth \/ SendEndOfEarlyData \/ SendClientFinished
    \/ ReceiveTicket \/ ClientSeesEnd

ServerStep ==
    \/ ReceiveClientHello \/ SendServerHello \/ SendEncryptedExtensions
    \/ SendCertificateRequest \/ SendCertificate \/ SendCertificateVerify
    \/ SendServerFinished \/ ServerCompatCcs \/ ServerReceives \/ SendNewSessionTicket
    \/ ServerSeesEnd

Next == ClientStep \/ ServerStep \/ SendEarlyData \/ ClientAborts \/ ServerAborts

Spec == Init /\ [][Next]_vars

(* Both applications keep calling connect and accept, and read what comes. *)
FairSpec == Spec /\ WF_vars(ClientStep) /\ WF_vars(ServerStep)

-----------------------------------------------------------------------------
(* Properties *)

Causes == {"none", "abort", "peer", "no_group", "no_share", "server_cert", "client_cert",
           "cert_required", "early_limit", "protocol"}
Secrets == {"plain", "early", "handshake", "application", "resumption"}

TypeOK ==
    /\ client.step \in ClientReadSteps \cup ClientSendSteps \cup {"CONNECTED", "CLOSED"}
    /\ server.step \in ServerReadSteps \cup ServerSendSteps \cup {"CONNECTED", "CLOSED"}
    /\ client.why \in Causes /\ server.why \in Causes
    /\ (client.step = "CLOSED") <=> (client.why # "none")
    /\ (server.step = "CLOSED") <=> (server.why # "none")
    /\ client.early \in 0 .. MaxEarly /\ Len(server.early) \in 0 .. EarlyLimit
    /\ client.ccsSeen \in 0 .. 2 /\ server.ccsSeen \in 0 .. 2
    /\ \A ch \in {c2s, s2c} : \A i \in DOMAIN ch : ch[i].key.level \in Secrets

(* A handshake of this client with this server ends only for a reason of    *)
(* the configuration or of the environment. No retry, resumption, skipped   *)
(* or accepted early data, compatibility record or resumed call makes one   *)
(* end refuse what the other sent: binders, record keys, transcripts and    *)
(* the count of change_cipher_spec records always match.                    *)
FailsOnlyForCause ==
    /\ client.why \notin {"protocol"} /\ server.why \notin {"protocol"}
    /\ server.why = "no_group" =>
           ElementsOf(setting.groups) \cap ElementsOf(setting.serverGroups) = {}
    /\ server.why = "no_share" => setting.shares = {}
    /\ client.why = "server_cert" => setting.serverCert = "bad"
    /\ server.why = "client_cert" => setting.clientCert = "bad"
    /\ server.why = "cert_required" => setting.clientCert = "none" /\ setting.auth = "require"
    /\ server.why = "early_limit" => client.early > EarlyLimit

(* When the server is connected the client has finished with the same       *)
(* transcript, PSK, application keys and resumption secret; a ticket the     *)
(* client keeps has the PSK the server stored for it.                       *)
Agreement ==
    /\ server.step = "CONNECTED" =>
           /\ client.tr = server.tr /\ client.psk = server.psk
           /\ client.appKey = server.appKey
           /\ client.resumption = server.resumption
    /\ client.ticket # Plain => client.ticket = server.resumption

(* Whatever path was taken (PSK, resumption, retry), a client is connected  *)
(* only to a server that proved a valid certificate or knows the PSK, and a *)
(* server that requires a client certificate is connected only to a client  *)
(* that proved one, also when a PSK is in use (request_client_auth is       *)
(* answered before Finished).                                               *)
PeersAuthenticated ==
    /\ client.step = "CONNECTED" =>
           \/ client.psk = "none" /\ client.peerCert /\ setting.serverCert = "good"
           \/ client.psk = "ticket" /\ setting.ticket = "known"
           \/ client.psk = "external" /\ ServerHasExternal
    /\ server.step = "CONNECTED" /\ setting.auth = "require" =>
           server.peerCert = "proved" /\ setting.clientCert = "good"

(* 0-RTT data reaches the server's application in the order it was sent,    *)
(* complete by the time the server is connected if the client was told it   *)
(* was accepted, and not at all otherwise (it then must be sent again).     *)
EarlyDataExact ==
    /\ \A i \in DOMAIN server.early : server.early[i] = i
    /\ Len(server.early) <= client.early
    /\ server.step = "CONNECTED" =>
           Len(server.early) = IF client.earlyAccepted THEN client.early ELSE 0

(* When early data was offered with a PSK, the server takes the client's    *)
(* EndOfEarlyData and does not fail the handshake.                          *)
EarlyOfferSurvives ==
    server.psk # "none" /\ server.offeredEarly => server.why # "protocol"

(* Neither end waits for ever: both are connected or both have given up. *)
HandshakeEnds ==
    <>[] \/ client.step = "CONNECTED" /\ server.step = "CONNECTED"
         \/ client.step = "CLOSED" /\ server.step = "CLOSED"

=============================================================================
