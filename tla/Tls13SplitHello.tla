--------------------------- MODULE Tls13SplitHello ---------------------------
(***************************************************************************)
(* Tls13Handshake with a peer whose ClientHello takes two records, which a  *)
(* stream may deliver at different times. noxtls_tls13_recv_client_hello    *)
(* assembles them within one call: if the second record is not there yet,   *)
(* it frees the first one and returns WANT_READ.                            *)
(***************************************************************************)
EXTENDS MCTls13Handshake

VARIABLES rest,       \* the record of the hello still to be sent
          dropped     \* the first record was taken and freed

splitVars == <<vars, rest, dropped>>

HelloStart == Sealed(Plain, Msg("hello_start"))

SplitInit == Init /\ rest = << >> /\ dropped = FALSE

(* The peer sends the first record of its hello, and later the second. *)
SendHelloStart ==
    /\ ClientIn({"SEND_CH"})
    /\ client' = [client EXCEPT !.step = "RECV_SH", !.tr = <<Hello(client)>>]
    /\ rest' = <<Sealed(Plain, Hello(client))>>
    /\ ClientSends(<<HelloStart>>)
    /\ UNCHANGED <<setting, server, s2c, dropped>>

SendHelloRest ==
    /\ rest # << >>
    /\ ClientSends(rest)
    /\ rest' = << >>
    /\ UNCHANGED <<setting, client, server, s2c, dropped>>

(* The loop over the records of the hello in one call of                    *)
(* noxtls_tls13_recv_client_hello.                                          *)
ReceiveHelloStart ==
    /\ ServerIn({"RECV_CH"}) /\ c2s # << >> /\ Head(c2s) = HelloStart
    /\ IF Len(c2s) > 1
       THEN c2s' = Tail(Tail(c2s)) /\ ProcessClientHello(c2s[2].msg) /\ UNCHANGED dropped
       ELSE ServerTakes /\ dropped' = TRUE /\ UNCHANGED <<server, s2c>>
    /\ UNCHANGED <<setting, client, rest>>

(* The second record alone does not start a hello. *)
ReceiveHelloRest ==
    /\ ServerIn({"RECV_CH"}) /\ c2s # << >> /\ dropped
    /\ server' = Closed(server, "protocol")
    /\ ServerTakes
    /\ UNCHANGED <<setting, client, s2c, rest, dropped>>

SplitNext ==
    \/ SendHelloStart \/ SendHelloRest \/ ReceiveHelloStart \/ ReceiveHelloRest
    \/ /\ ~ ClientIn({"SEND_CH"}) /\ ~ ServerIn({"RECV_CH"})
       /\ Next /\ UNCHANGED <<rest, dropped>>

SplitSpec == SplitInit /\ [][SplitNext]_splitVars

(* A call that returned WANT_READ can be resumed: the server does not       *)
(* refuse a hello because its records arrive at different times.            *)
WantReadIsResumable == dropped => server.why # "protocol"
=============================================================================
