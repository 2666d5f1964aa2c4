------------------------ MODULE Tls12Sessions_proofs ------------------------
(***************************************************************************)
(* Proofs about Tls12Sessions, for every set of settings and every number   *)
(* of ticket slots.  An end knows of its peer what a Finished tells it: a   *)
(* Finished covers the transcript, and whether the handshake is full or     *)
(* abbreviated, extended master secret and the ticket can be read off the   *)
(* transcript.  So the invariant says what each end's transcript shows of   *)
(* the end, what the messages in transit show of their sender, and, for     *)
(* what is shared between connections, from which handshake a stored        *)
(* session comes.                                                           *)
(***************************************************************************)
EXTENDS Tls12Sessions, TLAPS

-----------------------------------------------------------------------------
(* Shapes.  Messages have no common type (a Finished holds a transcript),   *)
(* so a sequence is one over its own elements.                              *)

IsSeq(s) == s \in Seq({ s[i] : i \in DOMAIN s })
ByConn(f) == f = [c \in Conns |-> f[c]]

ClientFields ==
    {"step", "tr", "ticketExt", "offered", "ems", "ticketNegotiated", "suite", "resumed",
     "master", "authRequested", "peerCert", "nst", "next", "why", "at"}
ServerFields ==
    {"step", "tr", "hello", "suite", "resumed", "resumeEms", "ems", "master", "issued",
     "peerCert", "why", "at"}
ServerSteps == ServerReadSteps \cup ServerSendSteps \cup Final \cup {"RECV_CH"}

-----------------------------------------------------------------------------
(* What the transcript shows: a full handshake goes on with the server's    *)
(* certificate after the hellos.                                            *)

Full(tr) == Len(tr) >= 3 /\ tr[3].type = "Certificate"
ShowsEms(tr, ems) == Len(tr) >= 2 /\ tr[2].ems = ems

(* Every ticket of the transcript is the one of connection c *)
OwnTicket(c, tr) == \A i \in DOMAIN tr : tr[i].type = "NewSessionTicket" => tr[i].ticket = c
NoTicket(tr) == \A i \in DOMAIN tr : tr[i].type # "NewSessionTicket"

-----------------------------------------------------------------------------
(* The client, by step *)

ClientOpening == {"SEND_CH", "RECV_SH"}
ClientHeardCert == {"RECV_SERVER_KEY_EXCHANGE", "RECV_CERTIFICATE_REQUEST",
                    "RECV_SERVER_HELLO_DONE", "SEND_FLIGHT", "RECV_CCS", "RECV_FINISHED"}
ClientResumes == {"RESUME_RECV_CCS", "RESUME_RECV_FINISHED", "RESUME_SEND"}
ClientKeyed == ClientResumes \cup {"RECV_CCS", "RECV_FINISHED", "CONNECTED"}
ClientHearsTicket == {"RECV_CCS", "RECV_FINISHED", "RESUME_RECV_CCS", "RESUME_RECV_FINISHED"}
ClientVerified == {"RESUME_SEND", "CONNECTED"}

ClientLocal(c, cl) ==
    /\ DOMAIN cl = ClientFields /\ IsSeq(cl.tr) /\ cl.step \in ClientSteps
    /\ cl.resumed \in BOOLEAN /\ cl.nst \in BOOLEAN
    /\ cl.step = "CLOSED" <=> cl.why # "none"
    /\ cl.step # "CLOSED" => cl.at = "none"
    /\ cl.step = "SEND_CH" => cl.tr = << >> /\ cl.offered = "none"
    /\ cl.step = "RECV_SH" => Len(cl.tr) = 1
    /\ cl.step \in {"PEEK_RESUME", "RECV_CERTIFICATE"} => Len(cl.tr) = 2
    /\ cl.step \notin ClientOpening \cup {"CLOSED"} => ShowsEms(cl.tr, cl.ems) /\ cl.ems = Cfg(c).ems
    /\ cl.step \notin ClientHearsTicket \cup ClientVerified \cup {"CLOSED"} => ~ cl.nst
    /\ cl.step \in ClientOpening \cup ClientHeardCert \cup {"PEEK_RESUME", "RECV_CERTIFICATE"} =>
          ~ cl.resumed
    /\ cl.step \in ClientHeardCert \/ (cl.step = "CONNECTED" /\ ~ cl.resumed) =>
          Full(cl.tr) /\ cl.peerCert
    /\ cl.step \in ClientResumes => cl.resumed
    /\ cl.resumed /\ cl.step # "CLOSED" => ~ Full(cl.tr) /\ cl.ticketExt
    /\ cl.resumed => cl.offered # "none"
    /\ cl.step \in ClientHearsTicket /\ cl.nst =>
          \E i \in DOMAIN cl.tr : cl.tr[i].type = "NewSessionTicket" /\ cl.tr[i].ticket = cl.next
    /\ cl.step \in ClientKeyed => (cl.ems <=> cl.master.hash # << >>)
    /\ cl.at \in {"RESUME_RECV_FINISHED"} => cl.resumed

-----------------------------------------------------------------------------
(* The server, by step *)

ServerOpening == {"RECV_CH", "CHECK_SNI", "SEND_SH"}
ServerGreets == {"CHECK_SNI", "SEND_SH"}
ServerSentCert == {"RECV_CERTIFICATE", "RECV_CLIENT_KEY_EXCHANGE", "RECV_CERTIFICATE_VERIFY",
                   "RECV_CCS", "RECV_FINISHED", "SEND_TICKET", "SEND_CCS", "SEND_FINISHED"}
ServerResumes == {"RESUME_SEND_TICKET", "RESUME_SEND_CCS", "RESUME_SEND_FINISHED",
                  "RESUME_RECV_CCS", "RESUME_RECV_FINISHED"}
ServerIssued == {"SEND_CCS", "SEND_FINISHED", "RESUME_SEND_CCS", "RESUME_SEND_FINISHED",
                 "RESUME_RECV_CCS", "RESUME_RECV_FINISHED", "CONNECTED", "CLOSED"}
ServerFinished == {"RESUME_RECV_CCS", "RESUME_RECV_FINISHED", "CONNECTED", "CLOSED"}
ServerProved == {"RECV_CCS", "RECV_FINISHED", "SEND_TICKET", "SEND_CCS", "SEND_FINISHED",
                 "CONNECTED"}

ServerLocal(c, sv) ==
    /\ DOMAIN sv = ServerFields /\ IsSeq(sv.tr) /\ sv.step \in ServerSteps
    /\ sv.resumed \in BOOLEAN /\ sv.issued \in BOOLEAN
    /\ sv.step = "CLOSED" <=> sv.why # "none"
    /\ sv.step = "RECV_CH" => sv.tr = << >>
    /\ sv.step \in {"RECV_CH", "SEND_FLIGHT"} \cup ServerSentCert => ~ sv.resumed
    /\ sv.step \in ServerGreets =>
          /\ Len(sv.tr) = 1 /\ sv.hello.ems = Cfg(c).ems
          /\ sv.resumed => (sv.resumeEms <=> Cfg(c).ems) /\ Cfg(c).auth = "none"
    /\ sv.step = "SEND_FLIGHT" => Len(sv.tr) = 2
    /\ sv.step \notin ServerOpening \cup {"CLOSED"} => ShowsEms(sv.tr, sv.ems)
    /\ sv.step \in ServerSentCert \/ (sv.step = "CONNECTED" /\ ~ sv.resumed) => Full(sv.tr)
    /\ sv.step \in ServerResumes => sv.resumed
    /\ sv.resumed /\ sv.step # "CLOSED" => ~ Full(sv.tr) /\ Cfg(c).auth = "none"
    /\ OwnTicket(c, sv.tr) /\ (~ sv.issued => NoTicket(sv.tr))
    /\ sv.issued => sv.step \in ServerIssued
    /\ Cfg(c).auth = "require" =>
         /\ sv.step \in {"RECV_CLIENT_KEY_EXCHANGE", "RECV_CERTIFICATE_VERIFY"} =>
              sv.peerCert = "offered"
         /\ sv.step \in ServerProved => sv.peerCert = "proved"

-----------------------------------------------------------------------------
(* Messages in transit *)

FromClient(c, m, cl) ==
    /\ m.type = "ClientHello" => m.ems = Cfg(c).ems
    /\ m.type = "Finished" /\ cl.resumed =>
         /\ cl.step = "CONNECTED" /\ cl.tr = Append(m.over, m)
         /\ m.master = cl.master /\ m.suite = cl.suite /\ ShowsEms(m.over, cl.ems)
    /\ m.type = "Finished" /\ ~ cl.resumed =>
         Full(m.over) /\ cl.step \in {"RECV_CCS", "RECV_FINISHED", "CONNECTED", "CLOSED"}

FromServer(c, m, sv) ==
    /\ m.type = "ServerHello" => m.ems = Cfg(c).ems
    /\ m.type = "NewSessionTicket" => DOMAIN m = {"type", "ticket"}
    /\ m.type = "Finished" =>
         /\ m.master = sv.master /\ m.suite = sv.suite /\ ShowsEms(m.over, sv.ems)
         /\ OwnTicket(c, m.over) /\ (~ sv.issued => NoTicket(m.over))
         /\ IF sv.resumed THEN sv.step \in ServerFinished /\ ~ Full(m.over)
            ELSE sv.step = "CONNECTED" /\ Full(m.over) /\ sv.tr = Append(m.over, m)

C2sOK(c, q, cl) == IsSeq(q) /\ \A i \in DOMAIN q : FromClient(c, q[i], cl)
S2cOK(c, q, sv) == IsSeq(q) /\ \A i \in DOMAIN q : FromServer(c, q[i], sv)

(* Until the server reads the ClientHello it is all there is in transit *)
OpeningOK(cl, sv, toServer, toClient) ==
    sv.step = "RECV_CH" =>
        /\ toClient = << >>
        /\ \/ cl.step = "SEND_CH" /\ toServer = << >>
           \/ cl.step = "RECV_SH" /\ Len(toServer) = 1 /\ toServer[1].type = "ClientHello"

-----------------------------------------------------------------------------
(* The two ends of a connection *)

SameHandshake(cl, sv) ==
    /\ cl.tr = sv.tr /\ cl.master = sv.master /\ cl.suite = sv.suite
    /\ cl.ems = sv.ems /\ cl.resumed = sv.resumed

PairOK(cl, sv) ==
    /\ cl.resumed /\ cl.step \in ClientVerified => sv.resumed /\ sv.step \in ServerFinished
    /\ sv.resumed /\ sv.step = "CONNECTED" => cl.step = "CONNECTED" /\ SameHandshake(cl, sv)
    /\ ~ cl.resumed /\ cl.step = "CONNECTED" => sv.step = "CONNECTED" /\ SameHandshake(cl, sv)

-----------------------------------------------------------------------------
(* Between connections *)

(* The certificate of the handshake that made the secret m was for name *)
Vouched(m, name) ==
    \/ m.of = "prior" /\ setting.prior.name = name
    \/ m.of \in Conns /\ client[m.of].peerCert /\ Cfg(m.of).name = name

(* A ticket the client holds is of a handshake for that name that it verified *)
TicketFor(ticket, name) ==
    \/ ticket = "prior" /\ setting.prior.name = name
    \/ ticket \in Conns /\ client[ticket].step \in ClientVerified /\ Cfg(ticket).name = name

StoreOK ==
    session.ticket # "none" =>
        /\ TicketFor(session.ticket, session.name) /\ Vouched(session.master, session.name)
        /\ session.ems <=> session.master.hash # << >>

(* A session whose resumption failed is gone *)
Forgotten ==
    \A c \in Conns : client[c].at = "RESUME_RECV_FINISHED" => session.ticket # client[c].offered

OfferOK(c) ==
    /\ client[c].offered # "none" => TicketFor(client[c].offered, Cfg(c).name)
    /\ client[c].step \in ClientKeyed => Vouched(client[c].master, Cfg(c).name)

CacheOK ==
    /\ cache = [i \in 1 .. TicketSlots |-> cache[i]]
    /\ \A i \in 1 .. TicketSlots :
         /\ "ticket" \in DOMAIN cache[i]
         /\ cache[i] = NoEntry \/ cache[i].ticket \in Conns \cup {"prior"}
         /\ cache[i].ticket \in Conns => server[cache[i].ticket].issued
    /\ \A i, j \in 1 .. TicketSlots :
         cache[i].ticket = cache[j].ticket /\ cache[i].ticket # "none" => i = j

Inv ==
    /\ setting \in Settings
    /\ ByConn(client) /\ ByConn(server) /\ ByConn(c2s) /\ ByConn(s2c)
    /\ \A c \in Conns :
         /\ ClientLocal(c, client[c]) /\ ServerLocal(c, server[c])
         /\ C2sOK(c, c2s[c], client[c]) /\ S2cOK(c, s2c[c], server[c])
         /\ OpeningOK(client[c], server[c], c2s[c], s2c[c])
         /\ PairOK(client[c], server[c])
         /\ OfferOK(c)
    /\ StoreOK /\ StoreGenuine /\ Forgotten /\ CacheOK

-----------------------------------------------------------------------------
(* Sequences over their own elements *)

LEMMA SeqOver ==
    ASSUME NEW S, NEW s \in Seq(S)
    PROVE  /\ IsSeq(s) /\ Len(s) \in Nat /\ DOMAIN s = 1 .. Len(s)
           /\ s = [i \in 1 .. Len(s) |-> s[i]]
<1>1. Len(s) \in Nat /\ DOMAIN s = 1 .. Len(s)
  OBVIOUS
<1>2. s = [i \in 1 .. Len(s) |-> s[i]]
  OBVIOUS
<1>3. \A i \in 1 .. Len(s) : s[i] \in { s[j] : j \in DOMAIN s }
  BY <1>1
<1>4. s \in Seq({ s[j] : j \in DOMAIN s })
  BY <1>1, <1>2, <1>3
<1> QED
  BY <1>1, <1>2, <1>4 DEF IsSeq

(* Appending one message *)
LEMMA SeqAppend ==
    ASSUME NEW s, NEW x, IsSeq(s)
    PROVE  /\ Len(s) \in Nat /\ DOMAIN s = 1 .. Len(s)
           /\ IsSeq(Append(s, x)) /\ Len(Append(s, x)) = Len(s) + 1
           /\ DOMAIN Append(s, x) = 1 .. (Len(s) + 1)
           /\ Append(s, x)[Len(s) + 1] = x
           /\ \A i \in 1 .. Len(s) : Append(s, x)[i] = s[i]
<1> DEFINE S == { s[i] : i \in DOMAIN s } \cup {x}
           t == Append(s, x)
<1>1. s \in Seq(S)
  BY DEF IsSeq
<1>2. /\ t \in Seq(S) /\ Len(t) = Len(s) + 1 /\ t[Len(s) + 1] = x
      /\ \A i \in 1 .. Len(s) : t[i] = s[i]
      /\ Len(s) \in Nat /\ DOMAIN s = 1 .. Len(s)
  BY <1>1
<1>3. IsSeq(t) /\ DOMAIN t = 1 .. Len(t)
  BY <1>2, SeqOver
<1> QED
  BY <1>2, <1>3

(* Taking the first record *)
LEMMA SeqTail ==
    ASSUME NEW s, IsSeq(s), s # << >>
    PROVE  /\ Len(s) \in Nat \ {0} /\ DOMAIN s = 1 .. Len(s) /\ Head(s) = s[1]
           /\ IsSeq(Tail(s)) /\ Len(Tail(s)) = Len(s) - 1
           /\ DOMAIN Tail(s) = 1 .. (Len(s) - 1)
           /\ \A i \in 1 .. (Len(s) - 1) : Tail(s)[i] = s[i + 1]
<1> DEFINE S == { s[i] : i \in DOMAIN s }
           t == Tail(s)
<1>1. s \in Seq(S)
  BY DEF IsSeq
<1>2. /\ t \in Seq(S) /\ Len(t) = Len(s) - 1
      /\ \A i \in 1 .. (Len(s) - 1) : t[i] = s[i + 1]
      /\ Len(s) \in Nat \ {0} /\ DOMAIN s = 1 .. Len(s) /\ Head(s) = s[1]
  BY <1>1
<1>3. IsSeq(t) /\ DOMAIN t = 1 .. Len(t)
  BY <1>2, SeqOver
<1> QED
  BY <1>2, <1>3

(* Sending several records *)
LEMMA SeqConcat ==
    ASSUME NEW s, NEW r, IsSeq(s), IsSeq(r)
    PROVE  /\ Len(s) \in Nat /\ DOMAIN s = 1 .. Len(s)
           /\ Len(r) \in Nat /\ DOMAIN r = 1 .. Len(r)
           /\ IsSeq(s \o r) /\ Len(s \o r) = Len(s) + Len(r)
           /\ DOMAIN (s \o r) = 1 .. (Len(s) + Len(r))
           /\ \A i \in 1 .. Len(s) : (s \o r)[i] = s[i]
           /\ \A i \in 1 .. Len(r) : (s \o r)[Len(s) + i] = r[i]
           /\ \A i \in 1 .. (Len(s) + Len(r)) : i > Len(s) => (s \o r)[i] = r[i - Len(s)]
<1> DEFINE S == { s[i] : i \in DOMAIN s } \cup { r[i] : i \in DOMAIN r }
           t == s \o r
<1>1. s \in Seq(S) /\ r \in Seq(S)
  BY DEF IsSeq
<1>2. /\ t \in Seq(S) /\ Len(t) = Len(s) + Len(r)
      /\ \A i \in 1 .. Len(s) : t[i] = s[i]
      /\ \A i \in 1 .. Len(r) : t[Len(s) + i] = r[i]
      /\ \A i \in 1 .. (Len(s) + Len(r)) : i > Len(s) => t[i] = r[i - Len(s)]
      /\ Len(s) \in Nat /\ DOMAIN s = 1 .. Len(s)
      /\ Len(r) \in Nat /\ DOMAIN r = 1 .. Len(r)
  BY <1>1
<1>3. IsSeq(t) /\ DOMAIN t = 1 .. Len(t)
  BY <1>2, SeqOver
<1> QED
  BY <1>2, <1>3

(* The short sequences the ends send *)
LEMMA SeqShort ==
    /\ IsSeq(<< >>) /\ Len(<< >>) = 0
    /\ \A a : IsSeq(<<a>>) /\ Len(<<a>>) = 1 /\ <<a>>[1] = a
    /\ \A a, b : /\ IsSeq(<<a, b>>) /\ Len(<<a, b>>) = 2
                 /\ <<a, b>>[1] = a /\ <<a, b>>[2] = b
<1>1. IsSeq(<< >>) /\ Len(<< >>) = 0
  BY DEF IsSeq
<1>2. ASSUME NEW a PROVE IsSeq(<<a>>) /\ Len(<<a>>) = 1 /\ <<a>>[1] = a
  <2>1. <<a>> \in Seq({a}) /\ DOMAIN <<a>> = 1 .. 1
    OBVIOUS
  <2>2. { <<a>>[i] : i \in DOMAIN <<a>> } = {a}
    BY <2>1
  <2> QED
    BY <2>1, <2>2 DEF IsSeq
<1>3. ASSUME NEW a, NEW b PROVE /\ IsSeq(<<a, b>>) /\ Len(<<a, b>>) = 2
                                /\ <<a, b>>[1] = a /\ <<a, b>>[2] = b
  <2>1. <<a, b>> \in Seq({a, b}) /\ DOMAIN <<a, b>> = 1 .. 2
    OBVIOUS
  <2>2. { <<a, b>>[i] : i \in DOMAIN <<a, b>> } = {a, b}
    BY <2>1
  <2> QED
    BY <2>1, <2>2 DEF IsSeq
<1> QED
  BY <1>1, <1>2, <1>3

-----------------------------------------------------------------------------
(* Transcripts *)

LEMMA AppendFull ==
    ASSUME NEW tr, NEW m, IsSeq(tr)
    PROVE  /\ Full(tr) => Full(Append(tr, m))
           /\ ~ Full(tr) /\ m.type # "Certificate" => ~ Full(Append(tr, m))
           /\ Len(tr) = 2 /\ m.type = "Certificate" => Full(Append(tr, m))
<1> DEFINE t == Append(tr, m)
<1>1. /\ Len(tr) \in Nat /\ Len(t) = Len(tr) + 1 /\ t[Len(tr) + 1] = m
      /\ \A i \in 1 .. Len(tr) : t[i] = tr[i]
  BY SeqAppend
<1>2. (Len(tr) >= 3 => t[3] = tr[3]) /\ (Len(tr) = 2 => t[3] = m)
  BY <1>1
<1> HIDE DEF t
<1>3. /\ Full(tr) => Full(t)
      /\ ~ Full(tr) /\ m.type # "Certificate" => ~ Full(t)
      /\ Len(tr) = 2 /\ m.type = "Certificate" => Full(t)
  BY <1>1, <1>2 DEF Full
<1> QED
  BY <1>3 DEF t

LEMMA AppendEms ==
    ASSUME NEW tr, NEW m, NEW e, IsSeq(tr)
    PROVE  /\ ShowsEms(tr, e) => ShowsEms(Append(tr, m), e)
           /\ Len(tr) = 1 /\ e = m.ems => ShowsEms(Append(tr, m), e)
<1> DEFINE t == Append(tr, m)
<1>1. /\ Len(tr) \in Nat /\ Len(t) = Len(tr) + 1 /\ t[Len(tr) + 1] = m
      /\ \A i \in 1 .. Len(tr) : t[i] = tr[i]
  BY SeqAppend
<1> HIDE DEF t
<1>2. /\ ShowsEms(tr, e) => ShowsEms(t, e)
      /\ Len(tr) = 1 /\ e = m.ems => ShowsEms(t, e)
  BY <1>1 DEF ShowsEms
<1> QED
  BY <1>2 DEF t

LEMMA AppendTicket ==
    ASSUME NEW c, NEW tr, NEW m, IsSeq(tr)
    PROVE  /\ OwnTicket(c, tr) /\ (m.type = "NewSessionTicket" => m.ticket = c) =>
                 OwnTicket(c, Append(tr, m))
           /\ NoTicket(tr) /\ m.type # "NewSessionTicket" => NoTicket(Append(tr, m))
  BY SeqAppend DEF OwnTicket, NoTicket

LEMMA AppendLen ==
    ASSUME NEW tr, NEW m, IsSeq(tr)
    PROVE  IsSeq(Append(tr, m)) /\ Len(tr) \in Nat /\ Len(Append(tr, m)) = Len(tr) + 1
  BY SeqAppend

(* A transcript that goes on *)
GoesOn(tr, t) ==
    IsSeq(t) /\ (Full(tr) => Full(t)) /\ \A e : ShowsEms(tr, e) => ShowsEms(t, e)

LEMMA AppendGoesOn ==
    ASSUME NEW tr, NEW m, NEW t, IsSeq(tr), t = Append(tr, m)
    PROVE  GoesOn(tr, t)
<1>1. IsSeq(Append(tr, m)) /\ (Full(tr) => Full(Append(tr, m)))
  BY AppendLen, AppendFull
<1>2. \A e : ShowsEms(tr, e) => ShowsEms(Append(tr, m), e)
  BY AppendEms
<1> QED
  BY <1>1, <1>2 DEF GoesOn

LEMMA ConcatTranscript ==
    ASSUME NEW tr, NEW r, IsSeq(tr), IsSeq(r)
    PROVE  /\ IsSeq(tr \o r) /\ Len(tr \o r) = Len(tr) + Len(r)
           /\ Full(tr) => Full(tr \o r)
           /\ Len(tr) = 2 /\ Len(r) >= 1 /\ r[1].type = "Certificate" => Full(tr \o r)
           /\ \A e : ShowsEms(tr, e) => ShowsEms(tr \o r, e)
           /\ \A c : NoTicket(r) /\ OwnTicket(c, tr) => OwnTicket(c, tr \o r)
           /\ NoTicket(r) /\ NoTicket(tr) => NoTicket(tr \o r)
<1> DEFINE t == tr \o r
<1>1. /\ IsSeq(t) /\ Len(t) = Len(tr) + Len(r) /\ Len(tr) \in Nat /\ Len(r) \in Nat
      /\ DOMAIN tr = 1 .. Len(tr) /\ DOMAIN r = 1 .. Len(r) /\ DOMAIN t = 1 .. (Len(tr) + Len(r))
      /\ \A i \in 1 .. Len(tr) : t[i] = tr[i]
      /\ \A i \in 1 .. Len(r) : t[Len(tr) + i] = r[i]
      /\ \A i \in 1 .. (Len(tr) + Len(r)) : i > Len(tr) => t[i] = r[i - Len(tr)]
  BY SeqConcat
<1> HIDE DEF t
<1>2. /\ Full(tr) => Full(t)
      /\ Len(tr) = 2 /\ Len(r) >= 1 /\ r[1].type = "Certificate" => Full(t)
  BY <1>1 DEF Full
<1>3. \A e : ShowsEms(tr, e) => ShowsEms(t, e)
  BY <1>1 DEF ShowsEms
<1>4. \A i \in DOMAIN t :
          \/ i \in DOMAIN tr /\ t[i] = tr[i]
          \/ i - Len(tr) \in DOMAIN r /\ t[i] = r[i - Len(tr)]
  BY <1>1
<1>5. /\ \A c : NoTicket(r) /\ OwnTicket(c, tr) => OwnTicket(c, t)
      /\ NoTicket(r) /\ NoTicket(tr) => NoTicket(t)
  BY <1>4 DEF NoTicket, OwnTicket
<1> QED
  BY <1>1, <1>2, <1>3, <1>5 DEF t

-----------------------------------------------------------------------------
(* Messages in transit, when their sender goes on and when they are read *)

ClientFlown == {"RECV_CCS", "RECV_FINISHED", "CONNECTED", "CLOSED"}

ClientKeeps(cl, c2) ==
    /\ cl.peerCert => c2.peerCert
    /\ cl.step \in ClientVerified => c2.step \in ClientVerified
    /\ cl.offered # "none" => c2.offered = cl.offered
    /\ cl.resumed /\ cl.step = "CONNECTED" => c2 = cl
    /\ ~ cl.resumed /\ cl.step \in ClientFlown => ~ c2.resumed /\ c2.step \in ClientFlown

ServerKeeps(sv, s2) ==
    /\ sv.issued \/ sv.step \in ServerFinished =>
         s2.issued = sv.issued /\ s2.master = sv.master /\ s2.suite = sv.suite /\ s2.ems = sv.ems
    /\ sv.step \in ServerFinished => s2.step \in ServerFinished /\ s2.resumed = sv.resumed
    /\ sv.step = "CONNECTED" => s2 = sv

LEMMA C2sFrame ==
    ASSUME NEW c, NEW q, NEW cl, NEW c2, C2sOK(c, q, cl), ClientKeeps(cl, c2)
    PROVE  C2sOK(c, q, c2)
<1>1. ASSUME NEW m, FromClient(c, m, cl) PROVE FromClient(c, m, c2)
  <2>1. CASE cl.resumed
    BY <1>1, <2>1 DEF FromClient, ClientKeeps
  <2>2. CASE ~ cl.resumed
    BY <1>1, <2>2 DEF FromClient, ClientKeeps, ClientFlown
  <2> QED
    BY <2>1, <2>2
<1> QED
  BY <1>1 DEF C2sOK

LEMMA S2cFrame ==
    ASSUME NEW c, NEW q, NEW sv, NEW s2, S2cOK(c, q, sv), ServerKeeps(sv, s2)
    PROVE  S2cOK(c, q, s2)
<1>1. ASSUME NEW m, FromServer(c, m, sv) PROVE FromServer(c, m, s2)
  <2>1. CASE sv.resumed
    BY <1>1, <2>1 DEF FromServer, ServerKeeps
  <2>2. CASE ~ sv.resumed
    BY <1>1, <2>2 DEF FromServer, ServerKeeps, ServerFinished
  <2> QED
    BY <2>1, <2>2
<1> QED
  BY <1>1 DEF S2cOK

LEMMA C2sTail ==
    ASSUME NEW c, NEW q, NEW cl, C2sOK(c, q, cl), q # << >>
    PROVE  C2sOK(c, Tail(q), cl) /\ FromClient(c, Head(q), cl)
<1>1. /\ Len(q) \in Nat \ {0} /\ DOMAIN q = 1 .. Len(q) /\ Head(q) = q[1]
      /\ IsSeq(Tail(q)) /\ DOMAIN Tail(q) = 1 .. (Len(q) - 1)
      /\ \A i \in 1 .. (Len(q) - 1) : Tail(q)[i] = q[i + 1]
  BY SeqTail DEF C2sOK
<1> QED
  BY <1>1 DEF C2sOK

LEMMA S2cTail ==
    ASSUME NEW c, NEW q, NEW sv, S2cOK(c, q, sv), q # << >>
    PROVE  S2cOK(c, Tail(q), sv) /\ FromServer(c, Head(q), sv)
<1>1. /\ Len(q) \in Nat \ {0} /\ DOMAIN q = 1 .. Len(q) /\ Head(q) = q[1]
      /\ IsSeq(Tail(q)) /\ DOMAIN Tail(q) = 1 .. (Len(q) - 1)
      /\ \A i \in 1 .. (Len(q) - 1) : Tail(q)[i] = q[i + 1]
  BY SeqTail DEF S2cOK
<1> QED
  BY <1>1 DEF S2cOK

LEMMA C2sSend ==
    ASSUME NEW c, NEW q, NEW r, NEW cl, C2sOK(c, q, cl), C2sOK(c, r, cl)
    PROVE  C2sOK(c, q \o r, cl)
<1>1. /\ Len(q) \in Nat /\ DOMAIN q = 1 .. Len(q) /\ Len(r) \in Nat /\ DOMAIN r = 1 .. Len(r)
      /\ IsSeq(q \o r) /\ DOMAIN (q \o r) = 1 .. (Len(q) + Len(r))
      /\ \A i \in 1 .. Len(q) : (q \o r)[i] = q[i]
      /\ \A i \in 1 .. (Len(q) + Len(r)) : i > Len(q) => (q \o r)[i] = r[i - Len(q)]
  BY SeqConcat DEF C2sOK
<1>2. ASSUME NEW i \in DOMAIN (q \o r) PROVE FromClient(c, (q \o r)[i], cl)
  <2>1. CASE i <= Len(q)
    BY <1>1, <2>1 DEF C2sOK
  <2>2. CASE i > Len(q)
    BY <1>1, <2>2 DEF C2sOK
  <2> QED
    BY <1>1, <2>1, <2>2
<1> QED
  BY <1>1, <1>2 DEF C2sOK

LEMMA S2cSend ==
    ASSUME NEW c, NEW q, NEW r, NEW sv, S2cOK(c, q, sv), S2cOK(c, r, sv)
    PROVE  S2cOK(c, q \o r, sv)
<1>1. /\ Len(q) \in Nat /\ DOMAIN q = 1 .. Len(q) /\ Len(r) \in Nat /\ DOMAIN r = 1 .. Len(r)
      /\ IsSeq(q \o r) /\ DOMAIN (q \o r) = 1 .. (Len(q) + Len(r))
      /\ \A i \in 1 .. Len(q) : (q \o r)[i] = q[i]
      /\ \A i \in 1 .. (Len(q) + Len(r)) : i > Len(q) => (q \o r)[i] = r[i - Len(q)]
  BY SeqConcat DEF S2cOK
<1>2. ASSUME NEW i \in DOMAIN (q \o r) PROVE FromServer(c, (q \o r)[i], sv)
  <2>1. CASE i <= Len(q)
    BY <1>1, <2>1 DEF S2cOK
  <2>2. CASE i > Len(q)
    BY <1>1, <2>2 DEF S2cOK
  <2> QED
    BY <1>1, <2>1, <2>2
<1> QED
  BY <1>1, <1>2 DEF S2cOK

-----------------------------------------------------------------------------
(* One end of connection c takes a step *)

LEMMA Update ==
    ASSUME NEW f, NEW c \in Conns, NEW e, ByConn(f)
    PROVE  /\ ByConn([f EXCEPT ![c] = e]) /\ [f EXCEPT ![c] = e][c] = e
           /\ \A d \in Conns : d # c => [f EXCEPT ![c] = e][d] = f[d]
           /\ [f EXCEPT ![c] = f[c]] = f
  BY DEF ByConn

LEMMA CfgOK == Inv => \A c \in Conns : Cfg(c).ems \in BOOLEAN
  BY SettingAssumption DEF Inv, Cfg

LEMMA ClientMoves ==
    ASSUME Inv, NEW c \in Conns, NEW c2, NEW q1, NEW q2,
           client' = [client EXCEPT ![c] = c2],
           c2s' = [c2s EXCEPT ![c] = q1], s2c' = [s2c EXCEPT ![c] = q2],
           setting' = setting, server' = server, cache' = cache,
           ClientLocal(c, c2), ClientKeeps(client[c], c2),
           C2sOK(c, q1, c2), S2cOK(c, q2, server[c]),
           OpeningOK(c2, server[c], q1, q2), PairOK(c2, server[c]),
           c2.offered # client[c].offered /\ c2.offered # "none" => TicketFor(c2.offered, Cfg(c).name),
           c2.step \in ClientKeyed =>
               \/ c2.master.of = c /\ c2.peerCert
               \/ Vouched(c2.master, Cfg(c).name),
           StoreOK', StoreGenuine', Forgotten'
    PROVE  Inv'
<1>1. /\ ByConn(client') /\ client'[c] = c2 /\ \A d \in Conns : d # c => client'[d] = client[d]
      /\ ByConn(c2s') /\ c2s'[c] = q1 /\ \A d \in Conns : d # c => c2s'[d] = c2s[d]
      /\ ByConn(s2c') /\ s2c'[c] = q2 /\ \A d \in Conns : d # c => s2c'[d] = s2c[d]
  <2>1. ByConn(client) /\ ByConn(c2s) /\ ByConn(s2c)
    BY DEF Inv
  <2>2. ByConn(client') /\ client'[c] = c2 /\ \A d \in Conns : d # c => client'[d] = client[d]
    BY <2>1 DEF ByConn
  <2>3. ByConn(c2s') /\ c2s'[c] = q1 /\ \A d \in Conns : d # c => c2s'[d] = c2s[d]
    BY <2>1 DEF ByConn
  <2>4. ByConn(s2c') /\ s2c'[c] = q2 /\ \A d \in Conns : d # c => s2c'[d] = s2c[d]
    BY <2>1 DEF ByConn
  <2> QED
    BY <2>2, <2>3, <2>4
<1>2. \A d \in Conns : Cfg(d)' = Cfg(d)
  BY DEF Cfg
<1>3. \A d \in Conns : ClientKeeps(client[d], client'[d])
  BY <1>1 DEF ClientKeeps
<1>4. \A m, name : Vouched(m, name) => Vouched(m, name)'
  BY <1>2, <1>3 DEF Vouched, ClientKeeps
<1>5. \A t, name : TicketFor(t, name) => TicketFor(t, name)'
  BY <1>2, <1>3 DEF TicketFor, ClientKeeps
<1>6. ASSUME NEW d \in Conns
      PROVE  /\ ClientLocal(d, client[d])' /\ ServerLocal(d, server[d])'
             /\ C2sOK(d, c2s[d], client[d])' /\ S2cOK(d, s2c[d], server[d])'
             /\ OpeningOK(client[d], server[d], c2s[d], s2c[d])'
             /\ PairOK(client[d], server[d])'
  <2>1. /\ ClientLocal(d, client'[d]) /\ ServerLocal(d, server[d])
        /\ C2sOK(d, c2s'[d], client'[d]) /\ S2cOK(d, s2c'[d], server[d])
        /\ OpeningOK(client'[d], server[d], c2s'[d], s2c'[d])
        /\ PairOK(client'[d], server[d])
    BY <1>1 DEF Inv
  <2>2. ClientLocal(d, client[d])' /\ ServerLocal(d, server[d])'
    BY <1>2, <2>1 DEF ClientLocal, ServerLocal
  <2>3. C2sOK(d, c2s[d], client[d])'
    BY <1>2, <2>1 DEF C2sOK, FromClient
  <2>4. S2cOK(d, s2c[d], server[d])'
    BY <1>2, <2>1, SMTT(40) DEF S2cOK, FromServer
  <2> QED
    BY <2>1, <2>2, <2>3, <2>4 DEF OpeningOK, PairOK, SameHandshake
<1>7. ASSUME NEW d \in Conns PROVE OfferOK(d)'
  <2>1. CASE d # c
    <3>1. OfferOK(d) /\ client'[d] = client[d]
      BY <1>1, <2>1 DEF Inv
    <3> QED
      BY <1>2, <1>4, <1>5, <3>1 DEF OfferOK
  <2>2. CASE d = c
    <3>1. OfferOK(c) /\ client'[c] = c2
      BY <1>1 DEF Inv
    <3>2. c2.offered # "none" => TicketFor(c2.offered, Cfg(c).name)
      BY <3>1 DEF OfferOK
    <3>3. c2.step \in ClientKeyed => Vouched(c2.master, Cfg(c).name)'
      BY <1>1, <1>2, <1>4 DEF Vouched
    <3> QED
      BY <1>2, <1>5, <2>2, <3>1, <3>2, <3>3 DEF OfferOK
  <2> QED
    BY <2>1, <2>2
<1>8. CacheOK'
  BY DEF Inv, CacheOK
<1>9. ByConn(client)' /\ ByConn(server)' /\ ByConn(c2s)' /\ ByConn(s2c)' /\ (setting \in Settings)'
  BY <1>1 DEF Inv, ByConn
<1> QED
  BY <1>6, <1>7, <1>8, <1>9 DEF Inv

(* The client's store, when it is left alone or wiped *)
LEMMA StoreKept ==
    ASSUME Inv, NEW c \in Conns, NEW c2,
           client' = [client EXCEPT ![c] = c2], ClientKeeps(client[c], c2),
           setting' = setting, server' = server, session' \in {session, NoSession},
           c2.at = "RESUME_RECV_FINISHED" => session'.ticket # c2.offered
    PROVE  StoreOK' /\ StoreGenuine' /\ Forgotten'
<1>1. client'[c] = c2 /\ \A d \in Conns : d # c => client'[d] = client[d]
  BY Update DEF Inv
<1>2. \A d \in Conns : Cfg(d)' = Cfg(d)
  BY DEF Cfg
<1>3. \A d \in Conns : ClientKeeps(client[d], client'[d])
  BY <1>1 DEF ClientKeeps
<1>4. NoSession.ticket = "none"
  BY DEF NoSession
<1>5. StoreOK'
  <2>1. \A m, name : Vouched(m, name) => Vouched(m, name)'
    BY <1>2, <1>3 DEF Vouched, ClientKeeps
  <2>2. \A t, name : TicketFor(t, name) => TicketFor(t, name)'
    BY <1>2, <1>3 DEF TicketFor, ClientKeeps
  <2> QED
    BY <1>4, <2>1, <2>2 DEF Inv, StoreOK
<1>6. StoreGenuine'
  BY <1>2, <1>4 DEF Inv, StoreGenuine
<1>7. Forgotten'
  <2>1. \A d \in Conns : client[d].at = "RESUME_RECV_FINISHED" => client[d].offered # "none"
    BY DEF Inv, ClientLocal
  <2> QED
    BY <1>1, <1>4, <2>1 DEF Inv, Forgotten
<1> QED
  BY <1>5, <1>6, <1>7

LEMMA ServerMoves ==
    ASSUME Inv, NEW c \in Conns, NEW s2, NEW q1, NEW q2,
           server' = [server EXCEPT ![c] = s2],
           c2s' = [c2s EXCEPT ![c] = q1], s2c' = [s2c EXCEPT ![c] = q2],
           setting' = setting, client' = client, session' = session,
           ServerLocal(c, s2), ServerKeeps(server[c], s2),
           C2sOK(c, q1, client[c]), S2cOK(c, q2, s2),
           OpeningOK(client[c], s2, q1, q2), PairOK(client[c], s2),
           CacheOK'
    PROVE  Inv'
<1>1. /\ ByConn(server') /\ server'[c] = s2 /\ \A d \in Conns : d # c => server'[d] = server[d]
      /\ ByConn(c2s') /\ c2s'[c] = q1 /\ \A d \in Conns : d # c => c2s'[d] = c2s[d]
      /\ ByConn(s2c') /\ s2c'[c] = q2 /\ \A d \in Conns : d # c => s2c'[d] = s2c[d]
  <2>1. ByConn(server) /\ ByConn(c2s) /\ ByConn(s2c)
    BY DEF Inv
  <2>2. ByConn(server') /\ server'[c] = s2 /\ \A d \in Conns : d # c => server'[d] = server[d]
    BY <2>1 DEF ByConn
  <2>3. ByConn(c2s') /\ c2s'[c] = q1 /\ \A d \in Conns : d # c => c2s'[d] = c2s[d]
    BY <2>1 DEF ByConn
  <2>4. ByConn(s2c') /\ s2c'[c] = q2 /\ \A d \in Conns : d # c => s2c'[d] = s2c[d]
    BY <2>1 DEF ByConn
  <2> QED
    BY <2>2, <2>3, <2>4
<1>2. \A d \in Conns : Cfg(d)' = Cfg(d)
  BY DEF Cfg
<1>3. \A d \in Conns : ServerKeeps(server[d], server'[d])
  BY <1>1 DEF ServerKeeps
<1>4. ASSUME NEW d \in Conns
      PROVE  /\ ClientLocal(d, client[d])' /\ ServerLocal(d, server[d])'
             /\ C2sOK(d, c2s[d], client[d])' /\ S2cOK(d, s2c[d], server[d])'
             /\ OpeningOK(client[d], server[d], c2s[d], s2c[d])'
             /\ PairOK(client[d], server[d])'
  <2>1. /\ ClientLocal(d, client[d]) /\ ServerLocal(d, server'[d])
        /\ C2sOK(d, c2s'[d], client[d]) /\ S2cOK(d, s2c'[d], server'[d])
        /\ OpeningOK(client[d], server'[d], c2s'[d], s2c'[d])
        /\ PairOK(client[d], server'[d])
    BY <1>1 DEF Inv
  <2>2. ClientLocal(d, client[d])' /\ ServerLocal(d, server[d])'
    BY <1>2, <2>1 DEF ClientLocal, ServerLocal
  <2>3. C2sOK(d, c2s[d], client[d])'
    BY <1>2, <2>1 DEF C2sOK, FromClient
  <2>4. S2cOK(d, s2c[d], server[d])'
    BY <1>2, <2>1, SMTT(40) DEF S2cOK, FromServer
  <2> QED
    BY <2>1, <2>2, <2>3, <2>4 DEF OpeningOK, PairOK, SameHandshake
<1>5. \A d \in Conns : OfferOK(d)'
  BY <1>2 DEF Inv, OfferOK, Vouched, TicketFor
<1>6. StoreOK' /\ Forgotten'
  BY <1>2 DEF Inv, StoreOK, Vouched, TicketFor, Forgotten
<1>7. StoreGenuine'
  BY <1>2, <1>3 DEF Inv, StoreGenuine, ServerKeeps
<1>8. ByConn(client)' /\ ByConn(server)' /\ ByConn(c2s)' /\ ByConn(s2c)' /\ (setting \in Settings)'
  BY <1>1 DEF Inv, ByConn
<1> QED
  BY <1>4, <1>5, <1>6, <1>7, <1>8 DEF Inv

(* The ticket cache, when the server's step leaves it alone *)
LEMMA CacheKept ==
    ASSUME Inv, NEW c \in Conns, NEW s2, server' = [server EXCEPT ![c] = s2],
           ServerKeeps(server[c], s2), cache' = cache
    PROVE  CacheOK'
<1>1. server'[c] = s2 /\ \A d \in Conns : d # c => server'[d] = server[d]
  BY Update DEF Inv
<1>2. \A d \in Conns : server[d].issued => server'[d].issued
  BY <1>1 DEF ServerKeeps
<1> QED
  BY <1>2 DEF Inv, CacheOK

(* An end that does not come to know more of its peer *)
LEMMA PairKeptByClient ==
    ASSUME NEW cl, NEW sv, NEW c2, PairOK(cl, sv), cl.step # "CONNECTED",
           c2.step \notin ClientVerified
    PROVE  PairOK(c2, sv)
  BY DEF PairOK, ClientVerified

LEMMA PairKeptByServer ==
    ASSUME NEW cl, NEW sv, NEW s2, PairOK(cl, sv), ServerKeeps(sv, s2), s2.step # "CONNECTED"
    PROVE  PairOK(cl, s2)
  BY DEF PairOK, ServerKeeps

-----------------------------------------------------------------------------
(* The client's steps *)

LEMMA ClientCloses ==
    ASSUME NEW c, NEW cl, NEW why, NEW c2, ClientLocal(c, cl), why # "none",
           c2 \in {Closed(cl, why), [Closed(cl, why) EXCEPT !.next = "none"]},
           cl.step \notin ClientVerified
    PROVE  /\ ClientLocal(c, c2) /\ ClientKeeps(cl, c2)
           /\ c2.step = "CLOSED" /\ c2.offered = cl.offered /\ c2.at = cl.step
<1>1. /\ DOMAIN c2 = ClientFields /\ c2.step = "CLOSED" /\ c2.why = why /\ c2.at = cl.step
      /\ c2.tr = cl.tr /\ c2.resumed = cl.resumed /\ c2.nst = cl.nst /\ c2.offered = cl.offered
      /\ c2.peerCert = cl.peerCert
  BY ZenonT(40) DEF ClientLocal, Closed, ClientFields
<1>2. ClientLocal(c, c2)
  BY <1>1 DEF ClientLocal, ClientSteps, Final, ClientOpening, ClientHearsTicket, ClientVerified,
              ClientHeardCert, ClientResumes, ClientKeyed
<1>3. ClientKeeps(cl, c2)
  BY <1>1 DEF ClientKeeps, ClientFlown, ClientVerified
<1> QED
  BY <1>1, <1>2, <1>3

(* The client reads at most one message and sends and stores nothing *)
LEMMA ClientReads ==
    ASSUME Inv, NEW c \in Conns, NEW c2, NEW q2,
           \/ q2 = s2c[c]
           \/ s2c[c] # << >> /\ q2 = Tail(s2c[c]),
           client' = [client EXCEPT ![c] = c2], s2c' = [s2c EXCEPT ![c] = q2],
           setting' = setting, session' = session, cache' = cache, server' = server, c2s' = c2s,
           ClientLocal(c, c2), ClientKeeps(client[c], c2), c2.offered = client[c].offered,
           client[c].step # "CONNECTED", c2.step \notin ClientVerified,
           server[c].step # "RECV_CH", c2.at # "RESUME_RECV_FINISHED",
           c2.step \in ClientKeyed =>
               \/ client[c].step \in ClientKeyed /\ c2.master = client[c].master
               \/ Vouched(c2.master, Cfg(c).name)
    PROVE  Inv'
<1>1. /\ C2sOK(c, c2s[c], client[c]) /\ S2cOK(c, s2c[c], server[c])
      /\ PairOK(client[c], server[c]) /\ OfferOK(c) /\ ByConn(c2s)
  BY DEF Inv
<1>2. c2s' = [c2s EXCEPT ![c] = c2s[c]]
  BY <1>1, Update
<1>3. C2sOK(c, c2s[c], c2)
  BY <1>1, C2sFrame
<1>4. S2cOK(c, q2, server[c])
  BY <1>1, S2cTail
<1>5. OpeningOK(c2, server[c], c2s[c], q2)
  BY DEF OpeningOK
<1>6. PairOK(c2, server[c])
  BY <1>1, PairKeptByClient
<1>7. c2.step \in ClientKeyed => Vouched(c2.master, Cfg(c).name)
  BY <1>1 DEF OfferOK
<1>8. StoreOK' /\ StoreGenuine' /\ Forgotten'
  BY StoreKept
<1> QED
  BY <1>2, <1>3, <1>4, <1>5, <1>6, <1>7, <1>8, ClientMoves

LEMMA SeqOne ==
    ASSUME NEW a
    PROVE  /\ IsSeq(<<a>>) /\ DOMAIN <<a>> = 1 .. 1 /\ Len(<<a>>) = 1 /\ <<a>>[1] = a
           /\ << >> \o <<a>> = <<a>>
  BY SeqShort

(* A client that has read something of the server, or is past its opening *)
LEMMA ServerHasRead ==
    ASSUME Inv, NEW c \in Conns,
           s2c[c] # << >> \/ client[c].step \notin ClientOpening \/ server[c].step = "CLOSED"
    PROVE  server[c].step # "RECV_CH"
  BY DEF Inv, OpeningOK, ClientOpening

LEMMA SendClientHelloInv ==
    ASSUME Inv, NEW c \in Conns, SendClientHello(c)
    PROVE  Inv'
<1> DEFINE cl == client[c]
           stored == IF SessionMatchesName(Cfg(c).name) THEN session.ticket ELSE "none"
           ext == Cfg(c).room > (IF stored # "none" THEN 1 ELSE 0)
           ch == [type |-> "ClientHello", random |-> c, ticketExt |-> ext,
                  ticket |-> IF ext THEN stored ELSE "none", ems |-> Cfg(c).ems,
                  suites |-> ClientSuites, name |-> Cfg(c).name, alpn |-> Cfg(c).alpn]
           c2 == [Heard(cl, ch) EXCEPT !.step = "RECV_SH", !.ticketExt = ext, !.offered = ch.ticket]
<1>1. /\ cl.step = "SEND_CH" /\ client' = [client EXCEPT ![c] = c2]
      /\ c2s' = [c2s EXCEPT ![c] = c2s[c] \o <<ch>>]
      /\ setting' = setting /\ session' = session /\ cache' = cache /\ server' = server /\ s2c' = s2c
  BY DEF SendClientHello, ClientIn, ClientBecomes, ClientSends, stores
<1>2. ch.type = "ClientHello" /\ ch.ems = Cfg(c).ems /\ ch.ticket \in {"none", stored}
  OBVIOUS
<1>3. stored # "none" => session.ticket # "none" /\ stored = session.ticket /\ session.name = Cfg(c).name
  BY DEF SessionMatchesName
<1> HIDE DEF ch, stored, ext
<1>4. /\ ClientLocal(c, cl) /\ C2sOK(c, c2s[c], cl) /\ S2cOK(c, s2c[c], server[c])
      /\ OpeningOK(cl, server[c], c2s[c], s2c[c]) /\ PairOK(cl, server[c])
      /\ OfferOK(c) /\ ByConn(s2c) /\ StoreOK
  BY DEF Inv
<1>5. /\ DOMAIN c2 = ClientFields /\ c2.step = "RECV_SH" /\ c2.tr = Append(cl.tr, ch)
      /\ c2.offered = ch.ticket /\ c2.resumed = cl.resumed /\ c2.nst = cl.nst
      /\ c2.why = cl.why /\ c2.at = cl.at /\ c2.peerCert = cl.peerCert
  BY <1>4 DEF ClientLocal, ClientFields, Heard
<1> HIDE DEF c2
<1>6. IsSeq(c2.tr) /\ Len(c2.tr) = 1
  <2>1. cl.tr = << >> /\ IsSeq(<< >>) /\ Len(<< >>) = 0
    BY <1>1, <1>4, SeqShort DEF ClientLocal
  <2>2. IsSeq(Append(<< >>, ch)) /\ Len(Append(<< >>, ch)) = 0 + 1
    BY <2>1, SeqAppend
  <2> QED
    BY <1>5, <2>1, <2>2
<1>7. ClientLocal(c, c2)
  BY <1>1, <1>4, <1>5, <1>6
     DEF ClientLocal, ClientSteps, ClientReadSteps, Final, ClientOpening, ClientHearsTicket,
         ClientVerified, ClientHeardCert, ClientResumes, ClientKeyed
<1>8. ClientKeeps(cl, c2)
  BY <1>1, <1>4, <1>5 DEF ClientLocal, ClientKeeps, ClientVerified, ClientFlown
<1>9. C2sOK(c, c2s[c] \o <<ch>>, c2)
  <2>1. C2sOK(c, <<ch>>, c2)
    BY <1>2, SeqOne DEF C2sOK, FromClient
  <2> QED
    BY <1>4, <1>8, <2>1, C2sFrame, C2sSend
<1>10. OpeningOK(c2, server[c], c2s[c] \o <<ch>>, s2c[c])
  <2>1. CASE server[c].step = "RECV_CH"
    <3>1. c2s[c] = << >> /\ s2c[c] = << >>
      BY <1>1, <1>4, <2>1 DEF OpeningOK
    <3>2. c2s[c] \o <<ch>> = <<ch>>
      BY <3>1, SeqOne
    <3> QED
      BY <1>2, <1>5, <3>1, <3>2, SeqOne DEF OpeningOK
  <2> QED
    BY <2>1 DEF OpeningOK
<1>11. PairOK(c2, server[c])
  BY <1>1, <1>4, <1>5, PairKeptByClient DEF ClientVerified
<1>12. c2.offered # "none" => TicketFor(c2.offered, Cfg(c).name)
  BY <1>2, <1>3, <1>4, <1>5 DEF StoreOK
<1>13. StoreOK' /\ StoreGenuine' /\ Forgotten'
  <2>1. c2.at # "RESUME_RECV_FINISHED"
    BY <1>1, <1>4, <1>5 DEF ClientLocal
  <2> QED
    BY <1>1, <1>8, <2>1, StoreKept
<1>14. c2.step \notin ClientKeyed
  BY <1>5 DEF ClientKeyed, ClientResumes
<1>15. s2c' = [s2c EXCEPT ![c] = s2c[c]]
  BY <1>1, <1>4, Update
<1> QED
  BY <1>1, <1>4, <1>7, <1>8, <1>9, <1>10, <1>11, <1>12, <1>13, <1>14, <1>15, ClientMoves

LEMMA HearsServerHello ==
    ASSUME Inv, NEW c \in Conns, client[c].step = "RECV_SH", NEW msg, NEW c2,
           FromServer(c, msg, server[c]), c2 = TakeServerHello(c, client[c], msg)
    PROVE  /\ ClientLocal(c, c2) /\ ClientKeeps(client[c], c2)
           /\ c2.offered = client[c].offered /\ c2.step \in {"CLOSED", "PEEK_RESUME"}
           /\ c2.at # "RESUME_RECV_FINISHED"
<1> DEFINE cl == client[c]
<1>1. ClientLocal(c, cl)
  BY DEF Inv
<1>2. CASE c2 \in {Closed(cl, "unexpected"), Closed(cl, "suite"), Closed(cl, "protocol")}
  BY <1>1, <1>2, ClientCloses DEF ClientVerified
<1>3. CASE ~ (c2 \in {Closed(cl, "unexpected"), Closed(cl, "suite"), Closed(cl, "protocol")})
  <2>1. /\ msg.type = "ServerHello"
        /\ c2 = [Heard(cl, msg) EXCEPT
                   !.step = "PEEK_RESUME", !.suite = msg.suite, !.ems = msg.ems,
                   !.ticketNegotiated = msg.ticketExt /\ cl.ticketExt]
    BY <1>3 DEF TakeServerHello
  <2>2. msg.ems = Cfg(c).ems
    BY <2>1 DEF FromServer
  <2>3. /\ DOMAIN c2 = ClientFields /\ c2.step = "PEEK_RESUME" /\ c2.tr = Append(cl.tr, msg)
        /\ c2.ems = msg.ems /\ c2.offered = cl.offered /\ c2.resumed = cl.resumed
        /\ c2.nst = cl.nst /\ c2.why = cl.why /\ c2.at = cl.at /\ c2.peerCert = cl.peerCert
    BY <1>1, <2>1 DEF ClientLocal, ClientFields, Heard
  <2>4. IsSeq(c2.tr) /\ Len(c2.tr) = 2 /\ ShowsEms(c2.tr, msg.ems)
    <3>1. IsSeq(cl.tr) /\ Len(cl.tr) = 1
      BY <1>1 DEF ClientLocal
    <3>2. IsSeq(Append(cl.tr, msg)) /\ Len(Append(cl.tr, msg)) = 1 + 1
      BY <3>1, AppendLen
    <3>3. ShowsEms(Append(cl.tr, msg), msg.ems)
      BY <3>1, AppendEms
    <3> QED
      BY <2>3, <3>2, <3>3
  <2>5. ClientLocal(c, c2)
    BY <1>1, <2>2, <2>3, <2>4
       DEF ClientLocal, ClientSteps, ClientOpening, ClientHearsTicket,
           ClientVerified, ClientHeardCert, ClientResumes, ClientKeyed
  <2>6. ClientKeeps(cl, c2)
    BY <2>3 DEF ClientKeeps, ClientVerified, ClientFlown
  <2> QED
    BY <1>1, <2>3, <2>5, <2>6 DEF ClientLocal
<1> QED
  BY <1>2, <1>3

(* The steps that only go on in a full handshake, with a message heard or not *)
FullSteps == {"RECV_CERTIFICATE", "RECV_SERVER_KEY_EXCHANGE", "RECV_CERTIFICATE_REQUEST",
              "RECV_SERVER_HELLO_DONE"}

LEMMA ClientGoesOn ==
    ASSUME NEW c, NEW cl, NEW c2, ClientLocal(c, cl),
           cl.step \in FullSteps, c2.step \in ClientHeardCert \ {"RECV_CCS", "RECV_FINISHED"},
           cl.step = "RECV_CERTIFICATE" => c2.peerCert /\ Full(c2.tr),
           cl.step # "RECV_CERTIFICATE" => c2.peerCert = cl.peerCert,
           DOMAIN c2 = ClientFields, GoesOn(cl.tr, c2.tr),
           c2.ems = cl.ems, c2.offered = cl.offered, c2.resumed = cl.resumed,
           c2.nst = cl.nst, c2.why = cl.why, c2.at = cl.at
    PROVE  /\ ClientLocal(c, c2) /\ ClientKeeps(cl, c2) /\ c2.step \notin ClientVerified \cup ClientKeyed
           /\ c2.at # "RESUME_RECV_FINISHED"
<1>1. /\ IsSeq(cl.tr) /\ ShowsEms(cl.tr, cl.ems) /\ cl.ems = Cfg(c).ems /\ ~ cl.nst /\ ~ cl.resumed
      /\ cl.why = "none" /\ cl.at = "none"
      /\ cl.step = "RECV_CERTIFICATE" => Len(cl.tr) = 2
      /\ cl.step # "RECV_CERTIFICATE" => Full(cl.tr) /\ cl.peerCert
  BY DEF ClientLocal, FullSteps, ClientOpening, ClientHearsTicket, ClientVerified, ClientHeardCert
<1>2. IsSeq(c2.tr) /\ ShowsEms(c2.tr, c2.ems) /\ Full(c2.tr) /\ c2.peerCert
  BY <1>1 DEF GoesOn
<1>3. ClientLocal(c, c2)
  BY <1>1, <1>2
     DEF ClientLocal, ClientSteps, ClientReadSteps, ClientOpening, ClientHearsTicket,
         ClientVerified, ClientHeardCert, ClientResumes, ClientKeyed
<1>4. ClientKeeps(cl, c2)
  BY <1>1, <1>2 DEF ClientKeeps, ClientVerified, ClientFlown, FullSteps
<1> QED
  BY <1>1, <1>3, <1>4 DEF ClientHeardCert, ClientVerified, ClientKeyed, ClientResumes

LEMMA HearsTicketOrCcs ==
    ASSUME NEW c, NEW cl, NEW c2, NEW msg, ClientLocal(c, cl),
           cl.step \in {"RECV_CCS", "RESUME_RECV_CCS"}, c2 = TakeChangeCipherSpec(cl, msg)
    PROVE  /\ ClientLocal(c, c2) /\ ClientKeeps(cl, c2) /\ c2.step \notin ClientVerified
           /\ c2.offered = cl.offered /\ c2.at # "RESUME_RECV_FINISHED"
           /\ c2.step \in ClientKeyed => c2.master = cl.master
<1> USE DEF ClientOpening, ClientHearsTicket, ClientVerified, ClientHeardCert, ClientResumes,
            ClientKeyed
<1>1. CASE c2 = Closed(cl, "unexpected")
  <2>1. /\ ClientLocal(c, c2) /\ ClientKeeps(cl, c2)
        /\ c2.step = "CLOSED" /\ c2.offered = cl.offered /\ c2.at = cl.step
    BY <1>1, ClientCloses
  <2> QED
    BY <2>1
<1>2. CASE /\ msg.type = "ChangeCipherSpec"
           /\ c2 = [cl EXCEPT !.step = IF cl.resumed THEN "RESUME_RECV_FINISHED" ELSE "RECV_FINISHED"]
  <2>1. /\ DOMAIN c2 = ClientFields
        /\ c2.step = (IF cl.resumed THEN "RESUME_RECV_FINISHED" ELSE "RECV_FINISHED")
        /\ c2.tr = cl.tr /\ c2.ems = cl.ems /\ c2.offered = cl.offered /\ c2.resumed = cl.resumed
        /\ c2.nst = cl.nst /\ c2.next = cl.next /\ c2.why = cl.why /\ c2.at = cl.at
        /\ c2.peerCert = cl.peerCert /\ c2.master = cl.master /\ c2.ticketExt = cl.ticketExt
    BY <1>2 DEF ClientLocal, ClientFields
  <2>2. ClientLocal(c, c2)
    BY <2>1 DEF ClientLocal, ClientSteps
  <2>3. ClientKeeps(cl, c2)
    BY <2>1 DEF ClientLocal, ClientKeeps, ClientFlown
  <2> QED
    BY <2>1, <2>2, <2>3 DEF ClientLocal
<1>3. CASE msg.type = "NewSessionTicket" /\ c2 = [Heard(cl, msg) EXCEPT !.nst = TRUE, !.next = msg.ticket]
  <2>1. /\ DOMAIN c2 = ClientFields /\ c2.step = cl.step /\ c2.tr = Append(cl.tr, msg)
        /\ c2.ems = cl.ems /\ c2.offered = cl.offered /\ c2.resumed = cl.resumed
        /\ c2.nst = TRUE /\ c2.next = msg.ticket /\ c2.why = cl.why /\ c2.at = cl.at
        /\ c2.peerCert = cl.peerCert /\ c2.master = cl.master /\ c2.ticketExt = cl.ticketExt
    BY <1>3 DEF ClientLocal, ClientFields, Heard
  <2>2. /\ IsSeq(c2.tr) /\ (ShowsEms(cl.tr, cl.ems) => ShowsEms(c2.tr, cl.ems))
        /\ Full(cl.tr) => Full(c2.tr)
        /\ ~ Full(cl.tr) => ~ Full(c2.tr)
    <3>1. IsSeq(cl.tr)
      BY DEF ClientLocal
    <3>2. IsSeq(Append(cl.tr, msg))
      BY <3>1, AppendLen
    <3>3. ShowsEms(cl.tr, cl.ems) => ShowsEms(Append(cl.tr, msg), cl.ems)
      BY <3>1, AppendEms
    <3>4. /\ Full(cl.tr) => Full(Append(cl.tr, msg))
          /\ ~ Full(cl.tr) => ~ Full(Append(cl.tr, msg))
      BY <1>3, <3>1, AppendFull
    <3> QED
      BY <2>1, <3>2, <3>3, <3>4
  <2>3. \E i \in DOMAIN c2.tr : c2.tr[i].type = "NewSessionTicket" /\ c2.tr[i].ticket = c2.next
    BY <1>3, <2>1, SeqAppend DEF ClientLocal
  <2>4. ClientLocal(c, c2)
    BY <2>1, <2>2, <2>3, ZenonT(40) DEF ClientLocal
  <2>5. ClientKeeps(cl, c2)
    BY <2>1 DEF ClientLocal, ClientKeeps, ClientFlown
  <2> QED
    BY <2>1, <2>4, <2>5 DEF ClientLocal
<1> QED
  BY <1>1, <1>2, <1>3 DEF TakeChangeCipherSpec

LEMMA PeekResumeInv ==
    ASSUME Inv, NEW c \in Conns, PeekResume(c)
    PROVE  Inv'
<1> USE DEF ClientOpening, ClientHearsTicket, ClientVerified, ClientHeardCert, ClientResumes,
            ClientKeyed, ClientFlown
<1> DEFINE cl == client[c]
           loads == WasOffered(c) /\ Head(s2c[c]).type \in {"ChangeCipherSpec", "NewSessionTicket"}
           c2 == IF loads THEN LoadSession(cl) ELSE [cl EXCEPT !.step = "RECV_CERTIFICATE"]
<1>1. /\ cl.step = "PEEK_RESUME" /\ client' = [client EXCEPT ![c] = c2]
      /\ setting' = setting /\ session' = session /\ cache' = cache /\ server' = server
      /\ c2s' = c2s /\ s2c' = s2c
  BY DEF PeekResume, ClientIn, ClientBecomes, stores
<1>2. ClientLocal(c, cl) /\ ByConn(s2c) /\ StoreOK
  BY DEF Inv
<1>3. s2c' = [s2c EXCEPT ![c] = s2c[c]] /\ server[c].step # "RECV_CH"
  BY <1>1, <1>2, Update, ServerHasRead
<1>4. /\ ClientLocal(c, c2) /\ ClientKeeps(cl, c2) /\ c2.offered = cl.offered
      /\ c2.step \notin ClientVerified /\ c2.at # "RESUME_RECV_FINISHED"
      /\ c2.step \in ClientKeyed => Vouched(c2.master, Cfg(c).name)
  <2>1. CASE ~ loads
    <3>1. /\ DOMAIN c2 = ClientFields /\ c2.step = "RECV_CERTIFICATE" /\ c2.tr = cl.tr
          /\ c2.ems = cl.ems /\ c2.offered = cl.offered /\ c2.resumed = cl.resumed
          /\ c2.nst = cl.nst /\ c2.why = cl.why /\ c2.at = cl.at /\ c2.peerCert = cl.peerCert
      BY <1>2, <2>1 DEF ClientLocal, ClientFields
    <3> HIDE DEF c2
    <3>2. ClientLocal(c, c2)
      BY <1>1, <1>2, <3>1 DEF ClientLocal, ClientSteps, ClientReadSteps
    <3>3. ClientKeeps(cl, c2)
      BY <1>1, <3>1 DEF ClientKeeps
    <3> QED
      BY <1>1, <1>2, <3>1, <3>2, <3>3 DEF ClientLocal
  <2>2. CASE loads /\ cl.ems # session.ems
    <3>1. c2 = Closed(cl, "protocol")
      BY <2>2 DEF LoadSession
    <3> HIDE DEF c2, cl
    <3>2. /\ ClientLocal(c, c2) /\ ClientKeeps(cl, c2)
          /\ c2.step = "CLOSED" /\ c2.offered = cl.offered /\ c2.at = cl.step
      <4>1. c2 \in {Closed(cl, "protocol"), [Closed(cl, "protocol") EXCEPT !.next = "none"]}
        BY <3>1
      <4>2. cl.step \notin ClientVerified
        BY <1>1
      <4> HIDE DEF ClientVerified
      <4> QED
        BY <1>2, <4>1, <4>2, ClientCloses
    <3> QED
      BY <1>1, <3>2
  <2>3. CASE loads /\ cl.ems = session.ems
    <3>1. c2 = [cl EXCEPT !.step = "RESUME_RECV_CCS", !.resumed = TRUE,
                          !.master = session.master, !.suite = session.suite]
      BY <2>3 DEF LoadSession
    <3>2. /\ cl.ticketExt /\ cl.offered # "none" /\ cl.offered = session.ticket
          /\ session.ticket # "none" /\ session.name = Cfg(c).name
      BY <2>3 DEF WasOffered, SessionMatchesName
    <3> HIDE DEF c2
    <3>3. /\ DOMAIN c2 = ClientFields /\ c2.step = "RESUME_RECV_CCS" /\ c2.tr = cl.tr
          /\ c2.ems = cl.ems /\ c2.offered = cl.offered /\ c2.resumed = TRUE
          /\ c2.master = session.master /\ c2.ticketExt = cl.ticketExt
          /\ c2.nst = cl.nst /\ c2.why = cl.why /\ c2.at = cl.at /\ c2.peerCert = cl.peerCert
      BY <1>2, <3>1 DEF ClientLocal, ClientFields
    <3>4. Vouched(session.master, Cfg(c).name) /\ (session.ems <=> session.master.hash # << >>)
      BY <1>2, <3>2 DEF StoreOK
    <3>5. ~ Full(cl.tr) /\ ~ cl.nst
      BY <1>1, <1>2 DEF ClientLocal, Full
    <3>6. ClientLocal(c, c2)
      BY <1>1, <1>2, <2>3, <3>2, <3>3, <3>4, <3>5 DEF ClientLocal, ClientSteps, ClientReadSteps
    <3>7. ClientKeeps(cl, c2)
      BY <1>1, <3>3 DEF ClientKeeps
    <3> QED
      BY <1>1, <1>2, <3>3, <3>4, <3>6, <3>7 DEF ClientLocal
  <2> QED
    BY <2>1, <2>2, <2>3
<1> HIDE DEF c2
<1> QED
  BY <1>1, <1>3, <1>4, ClientReads

LEMMA ClientReceivesInv ==
    ASSUME Inv, NEW c \in Conns, ClientReceives(c)
    PROVE  Inv'
<1> DEFINE cl == client[c]
           msg == Head(s2c[c])
<1>1. /\ cl.step \in ClientReadSteps /\ s2c[c] # << >>
      /\ s2c' = [s2c EXCEPT ![c] = Tail(s2c[c])]
      /\ setting' = setting /\ session' = session /\ cache' = cache /\ server' = server
      /\ c2s' = c2s
  BY DEF ClientReceives, ClientIn, ClientTakes, stores
<1>2. PICK c2 :
        /\ client' = [client EXCEPT ![c] = c2]
        /\ cl.step = "RECV_SH" => c2 = TakeServerHello(c, cl, msg)
        /\ cl.step = "RECV_CERTIFICATE" => c2 = TakeCertificate(c, cl, msg)
        /\ cl.step = "RECV_SERVER_KEY_EXCHANGE" => c2 = TakeServerKeyExchange(cl, msg)
        /\ cl.step = "RECV_SERVER_HELLO_DONE" => c2 = TakeServerHelloDone(cl, msg)
        /\ cl.step \in {"RECV_CCS", "RESUME_RECV_CCS"} => c2 = TakeChangeCipherSpec(cl, msg)
  BY DEF ClientReceives, ClientBecomes
<1>3. ClientLocal(c, cl) /\ FromServer(c, msg, server[c]) /\ server[c].step # "RECV_CH"
  BY <1>1, S2cTail, ServerHasRead DEF Inv
<1> DEFINE Good == /\ ClientLocal(c, c2) /\ ClientKeeps(cl, c2) /\ c2.offered = cl.offered
                   /\ c2.step \notin ClientVerified /\ c2.at # "RESUME_RECV_FINISHED"
                   /\ c2.step \in ClientKeyed =>
                        cl.step \in ClientKeyed /\ c2.master = cl.master
<1> HIDE DEF msg
<1>4. ASSUME NEW why, why # "none", c2 = Closed(cl, why), cl.step \notin ClientVerified,
             cl.step # "RESUME_RECV_FINISHED"
      PROVE  Good
  <2>1. /\ ClientLocal(c, c2) /\ ClientKeeps(cl, c2)
        /\ c2.step = "CLOSED" /\ c2.offered = cl.offered /\ c2.at = cl.step
    BY <1>3, <1>4, ClientCloses
  <2> QED
    BY <1>4, <2>1 DEF ClientVerified, ClientKeyed, ClientResumes
<1>5. ASSUME cl.step = "RECV_SH" PROVE Good
  <2>1. /\ ClientLocal(c, c2) /\ ClientKeeps(cl, c2) /\ c2.offered = cl.offered
        /\ c2.step \in {"CLOSED", "PEEK_RESUME"} /\ c2.at # "RESUME_RECV_FINISHED"
    BY <1>2, <1>3, <1>5, HearsServerHello
  <2> QED
    BY <2>1 DEF ClientVerified, ClientKeyed, ClientResumes
<1>6. ASSUME cl.step = "RECV_CERTIFICATE" PROVE Good
  <2>1. CASE c2 \in {Closed(cl, "unexpected"), Closed(cl, "certificate")}
    BY <1>4, <1>6, <2>1 DEF ClientVerified
  <2>2. CASE ~ (c2 \in {Closed(cl, "unexpected"), Closed(cl, "certificate")})
    <3>1. /\ msg.type = "Certificate"
          /\ c2 = [Heard(cl, msg) EXCEPT
                     !.peerCert = TRUE,
                     !.step = IF cl.suite = "dhe" THEN "RECV_SERVER_KEY_EXCHANGE"
                              ELSE "RECV_CERTIFICATE_REQUEST"]
      BY <1>2, <1>6, <2>2 DEF TakeCertificate
    <3>2. /\ DOMAIN c2 = ClientFields /\ c2.peerCert /\ c2.tr = Append(cl.tr, msg)
          /\ c2.step \in {"RECV_SERVER_KEY_EXCHANGE", "RECV_CERTIFICATE_REQUEST"}
          /\ c2.ems = cl.ems /\ c2.offered = cl.offered /\ c2.resumed = cl.resumed
          /\ c2.nst = cl.nst /\ c2.why = cl.why /\ c2.at = cl.at
      BY <1>3, <3>1 DEF ClientLocal, ClientFields, Heard
    <3>3. cl.step \in FullSteps /\ c2.step \in ClientHeardCert \ {"RECV_CCS", "RECV_FINISHED"}
      BY <1>6, <3>2 DEF FullSteps, ClientHeardCert
    <3>4. IsSeq(cl.tr) /\ Len(cl.tr) = 2
      BY <1>3, <1>6 DEF ClientLocal
    <3>5. GoesOn(cl.tr, c2.tr)
      BY <3>2, <3>4, AppendGoesOn
    <3>6. Full(c2.tr)
      <4>1. Full(Append(cl.tr, msg))
        BY <3>1, <3>4, AppendFull
      <4> QED
        BY <3>2, <4>1
    <3>7. ClientLocal(c, c2) /\ ClientKeeps(cl, c2) /\ c2.step \notin ClientVerified \cup ClientKeyed
          /\ c2.at # "RESUME_RECV_FINISHED"
      BY <1>3, <1>6, <3>2, <3>3, <3>5, <3>6, ClientGoesOn
    <3> QED
      BY <3>2, <3>7
  <2> QED
    BY <2>1, <2>2
<1>7. ASSUME cl.step \in {"RECV_SERVER_KEY_EXCHANGE", "RECV_SERVER_HELLO_DONE"} PROVE Good
  <2>1. CASE c2 = Closed(cl, "unexpected")
    BY <1>4, <1>7, <2>1 DEF ClientVerified
  <2>2. CASE c2 # Closed(cl, "unexpected")
    <3>1. c2 \in {[Heard(cl, msg) EXCEPT !.step = "RECV_CERTIFICATE_REQUEST"],
                  [Heard(cl, msg) EXCEPT !.step = "SEND_FLIGHT"]}
      BY <1>2, <1>7, <2>2 DEF TakeServerKeyExchange, TakeServerHelloDone
    <3>2. /\ DOMAIN c2 = ClientFields /\ c2.peerCert = cl.peerCert /\ c2.tr = Append(cl.tr, msg)
          /\ c2.step \in {"RECV_CERTIFICATE_REQUEST", "SEND_FLIGHT"}
          /\ c2.ems = cl.ems /\ c2.offered = cl.offered /\ c2.resumed = cl.resumed
          /\ c2.nst = cl.nst /\ c2.why = cl.why /\ c2.at = cl.at
      BY <1>3, <3>1, ZenonT(40) DEF ClientLocal, ClientFields, Heard
    <3>3. cl.step \in FullSteps /\ c2.step \in ClientHeardCert \ {"RECV_CCS", "RECV_FINISHED"}
      BY <1>7, <3>2 DEF FullSteps, ClientHeardCert
    <3>4. IsSeq(cl.tr)
      BY <1>3 DEF ClientLocal
    <3>5. GoesOn(cl.tr, c2.tr)
      BY <3>2, <3>4, AppendGoesOn
    <3>6. ClientLocal(c, c2) /\ ClientKeeps(cl, c2) /\ c2.step \notin ClientVerified \cup ClientKeyed
          /\ c2.at # "RESUME_RECV_FINISHED"
      BY <1>3, <1>7, <3>2, <3>3, <3>5, ClientGoesOn
    <3> QED
      BY <3>2, <3>6
  <2> QED
    BY <2>1, <2>2
<1>8. ASSUME cl.step \in {"RECV_CCS", "RESUME_RECV_CCS"} PROVE Good
  <2>1. /\ ClientLocal(c, c2) /\ ClientKeeps(cl, c2) /\ c2.step \notin ClientVerified
        /\ c2.offered = cl.offered /\ c2.at # "RESUME_RECV_FINISHED"
        /\ c2.step \in ClientKeyed => c2.master = cl.master
    BY <1>2, <1>3, <1>8, HearsTicketOrCcs
  <2> QED
    BY <1>8, <2>1 DEF ClientKeyed, ClientResumes
<1>9. Good
  BY <1>1, <1>5, <1>6, <1>7, <1>8 DEF ClientReadSteps
<1>10. cl.step # "CONNECTED"
  BY <1>1 DEF ClientReadSteps
<1> QED
  BY <1>1, <1>2, <1>3, <1>9, <1>10, ClientReads

LEMMA ReceiveCertificateRequestInv ==
    ASSUME Inv, NEW c \in Conns, ReceiveCertificateRequest(c)
    PROVE  Inv'
<1> DEFINE cl == client[c]
           msg == Head(s2c[c])
           next == [cl EXCEPT !.step = "RECV_SERVER_HELLO_DONE"]
<1>1. /\ cl.step = "RECV_CERTIFICATE_REQUEST" /\ s2c[c] # << >>
      /\ setting' = setting /\ session' = session /\ cache' = cache /\ server' = server
      /\ c2s' = c2s
  BY DEF ReceiveCertificateRequest, ClientIn, stores
<1>2. ClientLocal(c, cl) /\ server[c].step # "RECV_CH" /\ ByConn(s2c)
  BY <1>1, ServerHasRead DEF Inv
<1>3. PICK c2, q2 :
        /\ client' = [client EXCEPT ![c] = c2] /\ s2c' = [s2c EXCEPT ![c] = q2]
        /\ \/ q2 = s2c[c] /\ c2 = next
           \/ q2 = Tail(s2c[c]) /\ c2 = [Heard(next, msg) EXCEPT !.authRequested = TRUE]
  <2>1. CASE msg.type = "CertificateRequest"
    BY <2>1 DEF ReceiveCertificateRequest, ClientBecomes, ClientTakes
  <2>2. CASE msg.type # "CertificateRequest"
    <3>1. client' = [client EXCEPT ![c] = next] /\ s2c' = s2c
      BY <2>2 DEF ReceiveCertificateRequest, ClientBecomes
    <3>2. s2c' = [s2c EXCEPT ![c] = s2c[c]]
      BY <1>2, <3>1, Update
    <3> QED
      BY <3>1, <3>2
  <2> QED
    BY <2>1, <2>2
<1>4. /\ DOMAIN c2 = ClientFields /\ c2.peerCert = cl.peerCert /\ c2.tr \in {cl.tr, Append(cl.tr, msg)}
      /\ c2.step = "RECV_SERVER_HELLO_DONE"
      /\ c2.ems = cl.ems /\ c2.offered = cl.offered /\ c2.resumed = cl.resumed
      /\ c2.nst = cl.nst /\ c2.why = cl.why /\ c2.at = cl.at
  BY <1>2, <1>3, ZenonT(40) DEF ClientLocal, ClientFields, Heard
<1> HIDE DEF msg
<1>5. IsSeq(cl.tr)
  BY <1>2 DEF ClientLocal
<1>6. GoesOn(cl.tr, c2.tr)
  <2>1. GoesOn(cl.tr, cl.tr)
    BY <1>5 DEF GoesOn
  <2>2. GoesOn(cl.tr, Append(cl.tr, msg))
    BY <1>5, AppendGoesOn
  <2> QED
    BY <1>4, <2>1, <2>2
<1>7. cl.step \in FullSteps /\ c2.step \in ClientHeardCert \ {"RECV_CCS", "RECV_FINISHED"}
  BY <1>1, <1>4 DEF FullSteps, ClientHeardCert
<1>8. ClientLocal(c, c2) /\ ClientKeeps(cl, c2) /\ c2.step \notin ClientVerified \cup ClientKeyed
      /\ c2.at # "RESUME_RECV_FINISHED"
  BY <1>1, <1>2, <1>4, <1>6, <1>7, ClientGoesOn
<1> QED
  BY <1>1, <1>2, <1>3, <1>4, <1>8, ClientReads

LEMMA SendClientFlightInv ==
    ASSUME Inv, NEW c \in Conns, SendClientFlight(c)
    PROVE  Inv'
<1> DEFINE cl == client[c]
           auth == IF cl.authRequested
                   THEN <<[type |-> "Certificate", present |-> Cfg(c).ownCert]>> ELSE << >>
           tr1 == cl.tr \o Append(auth, Msg("ClientKeyExchange"))
           cv == [type |-> "CertificateVerify", over |-> tr1]
           proof == IF cl.authRequested /\ Cfg(c).ownCert THEN <<cv>> ELSE << >>
           keyed == [cl EXCEPT !.master = Master(c, cl.ems, tr1), !.tr = tr1 \o proof]
           fin == Finished(keyed)
           c2 == [Heard(keyed, fin) EXCEPT !.step = "RECV_CCS"]
           sent == Append(auth, Msg("ClientKeyExchange")) \o proof \o <<Msg("ChangeCipherSpec"), fin>>
<1>1. /\ cl.step = "SEND_FLIGHT" /\ client' = [client EXCEPT ![c] = c2]
      /\ c2s' = [c2s EXCEPT ![c] = c2s[c] \o sent]
      /\ setting' = setting /\ session' = session /\ cache' = cache /\ server' = server /\ s2c' = s2c
  BY DEF SendClientFlight, ClientIn, ClientBecomes, ClientSends, stores
<1>2. /\ ClientLocal(c, cl) /\ C2sOK(c, c2s[c], cl) /\ S2cOK(c, s2c[c], server[c])
      /\ PairOK(cl, server[c]) /\ ByConn(s2c) /\ server[c].step # "RECV_CH"
  BY <1>1, ServerHasRead DEF Inv, ClientOpening
<1>3. /\ IsSeq(cl.tr) /\ ShowsEms(cl.tr, cl.ems) /\ Full(cl.tr) /\ cl.peerCert /\ ~ cl.resumed
      /\ ~ cl.nst /\ cl.ems = Cfg(c).ems /\ cl.why = "none" /\ cl.at = "none"
  BY <1>1, <1>2 DEF ClientLocal, ClientOpening, ClientHeardCert, ClientHearsTicket, ClientVerified
<1> DEFINE first == Append(auth, Msg("ClientKeyExchange"))
<1>4. /\ IsSeq(first) /\ \A i \in DOMAIN first : first[i].type \notin {"ClientHello", "Finished"}
      /\ IsSeq(proof) /\ \A i \in DOMAIN proof : proof[i].type \notin {"ClientHello", "Finished"}
  <2>1. /\ IsSeq(auth) /\ \A i \in DOMAIN auth : auth[i].type \notin {"ClientHello", "Finished"}
    BY SeqShort
  <2>2. /\ IsSeq(proof) /\ \A i \in DOMAIN proof : proof[i].type \notin {"ClientHello", "Finished"}
    BY SeqShort
  <2>3. Msg("ClientKeyExchange").type = "ClientKeyExchange"
    BY DEF Msg
  <2> HIDE DEF auth, proof
  <2>4. /\ Len(auth) \in Nat /\ DOMAIN auth = 1 .. Len(auth) /\ IsSeq(first)
        /\ DOMAIN first = 1 .. (Len(auth) + 1)
        /\ first[Len(auth) + 1] = Msg("ClientKeyExchange")
        /\ \A i \in 1 .. Len(auth) : first[i] = auth[i]
    BY <2>1, SeqAppend
  <2> HIDE DEF first
  <2>5. \A i \in 1 .. (Len(auth) + 1) : i = Len(auth) + 1 \/ i \in 1 .. Len(auth)
    BY <2>4
  <2>6. \A i \in DOMAIN first : first[i].type \notin {"ClientHello", "Finished"}
    BY <2>1, <2>3, <2>4, <2>5
  <2> QED
    BY <2>2, <2>4, <2>6
<1>5. tr1 = cl.tr \o first /\ sent = first \o proof \o <<Msg("ChangeCipherSpec"), fin>>
  OBVIOUS
<1> HIDE DEF first, proof, auth
<1>6. IsSeq(tr1) /\ Full(tr1) /\ ShowsEms(tr1, cl.ems)
  <2>1. IsSeq(cl.tr \o first) /\ (Full(cl.tr) => Full(cl.tr \o first))
        /\ \A e : ShowsEms(cl.tr, e) => ShowsEms(cl.tr \o first, e)
    BY <1>3, <1>4, ConcatTranscript
  <2> QED
    BY <1>3, <1>5, <2>1
<1> DEFINE tr2 == tr1 \o proof
<1> HIDE DEF tr1
<1>7. IsSeq(tr2) /\ Full(tr2) /\ ShowsEms(tr2, cl.ems)
  <2>1. IsSeq(tr1 \o proof) /\ (Full(tr1) => Full(tr1 \o proof))
        /\ \A e : ShowsEms(tr1, e) => ShowsEms(tr1 \o proof, e)
    BY <1>4, <1>6, ConcatTranscript
  <2> QED
    BY <1>6, <2>1
<1>8. /\ DOMAIN keyed = ClientFields /\ keyed.tr = tr2 /\ keyed.master = Master(c, cl.ems, tr1)
      /\ keyed.suite = cl.suite
  BY <1>2 DEF ClientLocal, ClientFields
<1>9. /\ DOMAIN c2 = ClientFields /\ c2.step = "RECV_CCS" /\ c2.tr = Append(tr2, fin)
      /\ c2.master = Master(c, cl.ems, tr1)
      /\ c2.ems = cl.ems /\ c2.offered = cl.offered /\ c2.resumed = cl.resumed
      /\ c2.nst = cl.nst /\ c2.why = cl.why /\ c2.at = cl.at /\ c2.peerCert = cl.peerCert
  BY <1>2 DEF ClientLocal, ClientFields, Heard
<1>10. fin.type = "Finished" /\ fin.over = tr2
  BY <1>8 DEF Finished
<1> HIDE DEF tr2, keyed, c2, fin
<1>11. IsSeq(c2.tr) /\ Full(c2.tr) /\ ShowsEms(c2.tr, cl.ems)
  <2>1. GoesOn(tr2, c2.tr)
    BY <1>7, <1>9, AppendGoesOn
  <2> QED
    BY <1>7, <2>1 DEF GoesOn
<1>12. cl.ems <=> c2.master.hash # << >>
  <2>1. cl.ems \in BOOLEAN
    BY <1>3, CfgOK
  <2>2. tr1 # << >>
    BY <1>6, SeqShort DEF Full
  <2> QED
    BY <1>9, <2>1, <2>2 DEF Master
<1>13. ClientLocal(c, c2)
  BY <1>2, <1>3, <1>9, <1>11, <1>12
     DEF ClientLocal, ClientSteps, ClientReadSteps, ClientOpening, ClientHearsTicket,
         ClientVerified, ClientHeardCert, ClientResumes, ClientKeyed
<1>14. ClientKeeps(cl, c2)
  BY <1>1, <1>3, <1>9 DEF ClientKeeps, ClientVerified, ClientFlown
<1>15. C2sOK(c, c2s[c] \o sent, c2)
  <2>1. C2sOK(c, first, c2) /\ C2sOK(c, proof, c2)
    BY <1>4 DEF C2sOK, FromClient
  <2>2. C2sOK(c, <<Msg("ChangeCipherSpec"), fin>>, c2)
    <3>1. FromClient(c, Msg("ChangeCipherSpec"), c2)
      BY DEF FromClient, Msg
    <3>2. FromClient(c, fin, c2)
      BY <1>3, <1>7, <1>9, <1>10 DEF FromClient
    <3> QED
      BY <3>1, <3>2, SeqShort DEF C2sOK
  <2>3. C2sOK(c, first \o proof, c2)
    BY <2>1, C2sSend
  <2>4. C2sOK(c, sent, c2)
    BY <1>5, <2>2, <2>3, C2sSend
  <2>5. C2sOK(c, c2s[c], c2)
    BY <1>2, <1>14, C2sFrame
  <2> HIDE DEF sent
  <2> QED
    BY <2>4, <2>5, C2sSend
<1> HIDE DEF sent
<1>16. PairOK(c2, server[c])
  BY <1>1, <1>2, <1>9, PairKeptByClient DEF ClientVerified
<1>17. OpeningOK(c2, server[c], c2s[c] \o sent, s2c[c])
  BY <1>2 DEF OpeningOK
<1>18. StoreOK' /\ StoreGenuine' /\ Forgotten'
  BY <1>1, <1>3, <1>9, <1>14, StoreKept
<1>19. s2c' = [s2c EXCEPT ![c] = s2c[c]]
  BY <1>1, <1>2, Update
<1>20. c2.master.of = c /\ c2.peerCert
  BY <1>3, <1>9 DEF Master
<1> QED
  BY <1>1, <1>2, <1>9, <1>13, <1>14, <1>15, <1>16, <1>17, <1>18, <1>19, <1>20, ClientMoves

(* The tickets of one name, by the way the client came by them *)
LEMMA TicketNames ==
    ASSUME NEW t, NEW n1, NEW n2, TicketFor(t, n1), TicketFor(t, n2)
    PROVE  n1 = n2
  BY DEF TicketFor, Conns

LEMMA FinishedFailsInv ==
    ASSUME Inv, NEW c \in Conns, NEW why, why # "none", FinishedFails(c, why),
           client[c].step \in {"RECV_FINISHED", "RESUME_RECV_FINISHED"}, NEW q2,
           \/ q2 = s2c[c]
           \/ s2c[c] # << >> /\ q2 = Tail(s2c[c]),
           s2c' = [s2c EXCEPT ![c] = q2],
           setting' = setting, cache' = cache, server' = server, c2s' = c2s
    PROVE  Inv'
<1> DEFINE cl == client[c]
           c2 == [Closed(cl, why) EXCEPT !.next = "none"]
<1>1. /\ client' = [client EXCEPT ![c] = c2]
      /\ session' = IF cl.resumed /\ WasOffered(c) THEN NoSession ELSE session
  BY DEF FinishedFails, ClientBecomes
<1>2. /\ ClientLocal(c, cl) /\ C2sOK(c, c2s[c], cl) /\ S2cOK(c, s2c[c], server[c])
      /\ PairOK(cl, server[c]) /\ ByConn(c2s) /\ server[c].step # "RECV_CH" /\ OfferOK(c) /\ StoreOK
  BY ServerHasRead DEF Inv, ClientOpening
<1>3. cl.step \notin ClientVerified
  BY DEF ClientVerified
<1>4. /\ ClientLocal(c, c2) /\ ClientKeeps(cl, c2)
      /\ c2.step = "CLOSED" /\ c2.offered = cl.offered /\ c2.at = cl.step
  <2>1. c2 \in {Closed(cl, why), [Closed(cl, why) EXCEPT !.next = "none"]}
    OBVIOUS
  <2> HIDE DEF c2, cl
  <2> QED
    BY <1>2, <1>3, <2>1, ClientCloses
<1> HIDE DEF c2
<1>5. cl.step = "RESUME_RECV_FINISHED" => session'.ticket # cl.offered
  <2> SUFFICES ASSUME cl.step = "RESUME_RECV_FINISHED" PROVE session'.ticket # cl.offered
    OBVIOUS
  <2>1. cl.resumed /\ cl.ticketExt /\ cl.offered # "none"
    BY <1>2 DEF ClientLocal, ClientResumes
  <2>2. CASE WasOffered(c)
    BY <1>1, <2>1, <2>2 DEF NoSession
  <2>3. CASE ~ WasOffered(c)
    <3> SUFFICES ASSUME session.ticket = cl.offered PROVE FALSE
      BY <1>1, <2>3
    <3>1. ~ (session.name = Cfg(c).name)
      BY <2>1, <2>3 DEF WasOffered, SessionMatchesName
    <3>2. TicketFor(session.ticket, session.name) /\ TicketFor(session.ticket, Cfg(c).name)
      BY <1>2, <2>1 DEF StoreOK, OfferOK
    <3> QED
      BY <3>1, <3>2, TicketNames
  <2> QED
    BY <2>2, <2>3
<1>6. StoreOK' /\ StoreGenuine' /\ Forgotten'
  BY <1>1, <1>4, <1>5, StoreKept
<1>7. c2s' = [c2s EXCEPT ![c] = c2s[c]]
  BY <1>2, Update
<1>8. C2sOK(c, c2s[c], c2)
  BY <1>2, <1>4, C2sFrame
<1>9. S2cOK(c, q2, server[c])
  BY <1>2, S2cTail
<1>10. OpeningOK(c2, server[c], c2s[c], q2)
  BY <1>2 DEF OpeningOK
<1>11. PairOK(c2, server[c])
  BY <1>2, <1>3, <1>4, PairKeptByClient DEF ClientVerified
<1>12. c2.step \notin ClientKeyed
  BY <1>4 DEF ClientKeyed, ClientResumes
<1> QED
  BY <1>1, <1>4, <1>6, <1>7, <1>8, <1>9, <1>10, <1>11, <1>12, ClientMoves

(* What the client learns from a Finished that verifies *)
LEMMA FinishedTells ==
    ASSUME NEW c, NEW cl, NEW sv, NEW msg, ClientLocal(c, cl), ServerLocal(c, sv),
           cl.step \in {"RECV_FINISHED", "RESUME_RECV_FINISHED"},
           FromServer(c, msg, sv), msg = Finished(cl)
    PROVE  /\ sv.resumed = cl.resumed /\ sv.master = cl.master /\ sv.suite = cl.suite
           /\ sv.ems = cl.ems /\ sv.step \in ServerFinished
           /\ ~ cl.resumed => sv.step = "CONNECTED" /\ sv.tr = Append(cl.tr, msg)
           /\ cl.nst => cl.next = c /\ sv.issued
<1>1. msg.type = "Finished" /\ msg.master = cl.master /\ msg.suite = cl.suite /\ msg.over = cl.tr
  BY DEF Finished
<1>2. /\ cl.step = "RECV_FINISHED" => Full(cl.tr) /\ ~ cl.resumed
      /\ cl.step = "RESUME_RECV_FINISHED" => ~ Full(cl.tr) /\ cl.resumed
      /\ ShowsEms(cl.tr, cl.ems) /\ cl.resumed \in BOOLEAN /\ sv.resumed \in BOOLEAN
  BY DEF ClientLocal, ServerLocal, ClientHeardCert, ClientResumes, ClientOpening
<1>3. /\ sv.master = cl.master /\ sv.suite = cl.suite /\ ShowsEms(cl.tr, sv.ems)
      /\ OwnTicket(c, cl.tr) /\ (~ sv.issued => NoTicket(cl.tr))
      /\ IF sv.resumed THEN sv.step \in ServerFinished /\ ~ Full(cl.tr)
         ELSE sv.step = "CONNECTED" /\ Full(cl.tr) /\ sv.tr = Append(cl.tr, msg)
  BY <1>1 DEF FromServer
<1>4. sv.resumed = cl.resumed
  BY <1>2, <1>3
<1>5. sv.ems = cl.ems
  BY <1>2, <1>3 DEF ShowsEms
<1>6. cl.nst => cl.next = c /\ sv.issued
  <2>1. cl.nst => \E i \in DOMAIN cl.tr : cl.tr[i].type = "NewSessionTicket" /\ cl.tr[i].ticket = cl.next
    BY DEF ClientLocal, ClientHearsTicket
  <2> QED
    BY <1>3, <2>1 DEF OwnTicket, NoTicket
<1> QED
  BY <1>3, <1>4, <1>5, <1>6 DEF ServerFinished

LEMMA ReceiveFinishedInv ==
    ASSUME Inv, NEW c \in Conns, ReceiveFinished(c)
    PROVE  Inv'
<1> DEFINE cl == client[c]
           sv == server[c]
           msg == Head(s2c[c])
           c2 == [Heard(cl, msg) EXCEPT !.step = IF cl.resumed THEN "RESUME_SEND" ELSE "CONNECTED"]
<1>1. /\ cl.step \in {"RECV_FINISHED", "RESUME_RECV_FINISHED"} /\ s2c[c] # << >>
      /\ s2c' = [s2c EXCEPT ![c] = Tail(s2c[c])]
      /\ setting' = setting /\ cache' = cache /\ server' = server /\ c2s' = c2s
  BY DEF ReceiveFinished, ClientIn, ClientTakes
<1>2. CASE ~ Verifies(cl, msg)
  <2>1. FinishedFails(c, "finished")
    BY <1>2 DEF ReceiveFinished
  <2> QED
    BY <1>1, <2>1, FinishedFailsInv
<1>3. CASE Verifies(cl, msg)
  <2>1. /\ client' = [client EXCEPT ![c] = c2] /\ msg = Finished(cl)
        /\ session' = IF cl.nst /\ cl.next # "none" THEN SessionOf(c, cl.next) ELSE session
    BY <1>3 DEF ReceiveFinished, ClientBecomes, Verifies
  <2>2. /\ ClientLocal(c, cl) /\ ServerLocal(c, sv) /\ C2sOK(c, c2s[c], cl) /\ S2cOK(c, s2c[c], sv)
        /\ PairOK(cl, sv) /\ ByConn(c2s) /\ sv.step # "RECV_CH" /\ OfferOK(c) /\ StoreOK
        /\ ByConn(client)
    BY <1>1, ServerHasRead DEF Inv
  <2>3. S2cOK(c, Tail(s2c[c]), sv) /\ FromServer(c, msg, sv)
    BY <1>1, <2>2, S2cTail
  <2>4. /\ sv.resumed = cl.resumed /\ sv.master = cl.master /\ sv.suite = cl.suite
        /\ sv.ems = cl.ems /\ sv.step \in ServerFinished
        /\ ~ cl.resumed => sv.step = "CONNECTED" /\ sv.tr = Append(cl.tr, msg)
        /\ cl.nst => cl.next = c /\ sv.issued
    BY <1>1, <2>1, <2>2, <2>3, FinishedTells
  <2>5. /\ DOMAIN c2 = ClientFields /\ c2.tr = Append(cl.tr, msg)
        /\ c2.step = (IF cl.resumed THEN "RESUME_SEND" ELSE "CONNECTED")
        /\ c2.master = cl.master /\ c2.suite = cl.suite /\ c2.ticketExt = cl.ticketExt
        /\ c2.ems = cl.ems /\ c2.offered = cl.offered /\ c2.resumed = cl.resumed
        /\ c2.nst = cl.nst /\ c2.why = cl.why /\ c2.at = cl.at /\ c2.peerCert = cl.peerCert
    BY <2>2 DEF ClientLocal, ClientFields, Heard
  <2>6. msg.type = "Finished"
    BY <2>1 DEF Finished
  <2> HIDE DEF c2, msg
  <2>7. /\ IsSeq(cl.tr) /\ ShowsEms(cl.tr, cl.ems)
        /\ ~ cl.resumed => Full(cl.tr) /\ cl.peerCert
        /\ cl.resumed => ~ Full(cl.tr)
        /\ cl.resumed \in BOOLEAN /\ cl.why = "none" /\ cl.at = "none"
        /\ Vouched(cl.master, Cfg(c).name) /\ (cl.ems <=> cl.master.hash # << >>)
    BY <1>1, <2>2 DEF ClientLocal, OfferOK, ClientHeardCert, ClientResumes, ClientKeyed, ClientOpening
  <2>8. /\ IsSeq(c2.tr) /\ ShowsEms(c2.tr, cl.ems)
        /\ ~ cl.resumed => Full(c2.tr)
        /\ cl.resumed => ~ Full(c2.tr)
    <3>1. GoesOn(cl.tr, Append(cl.tr, msg))
      BY <2>7, AppendGoesOn
    <3>2. ~ Full(cl.tr) => ~ Full(Append(cl.tr, msg))
      BY <2>6, <2>7, AppendFull
    <3> QED
      BY <2>5, <2>7, <3>1, <3>2 DEF GoesOn
  <2>9. ClientLocal(c, c2)
    <3> USE DEF ClientLocal, ClientSteps, Final, ClientOpening, ClientHearsTicket,
                ClientVerified, ClientHeardCert, ClientResumes, ClientKeyed
    <3>1. CASE cl.resumed
      BY <1>1, <2>2, <2>5, <2>7, <2>8, <3>1
    <3>2. CASE ~ cl.resumed
      BY <1>1, <2>2, <2>5, <2>7, <2>8, <3>2
    <3> QED
      BY <3>1, <3>2
  <2>10. ClientKeeps(cl, c2)
    BY <1>1, <2>5 DEF ClientKeeps, ClientVerified, ClientFlown
  <2>11. PairOK(c2, sv)
    BY <1>1, <2>2, <2>4, <2>5, <2>7 DEF PairOK, SameHandshake, ClientVerified
  <2>12. c2s' = [c2s EXCEPT ![c] = c2s[c]]
    BY <1>1, <2>2, Update
  <2>13. C2sOK(c, c2s[c], c2)
    BY <2>2, <2>10, C2sFrame
  <2>14. OpeningOK(c2, sv, c2s[c], Tail(s2c[c]))
    BY <2>2 DEF OpeningOK
  <2>15. StoreOK' /\ StoreGenuine' /\ Forgotten'
    <3>1. CASE session' = session
      BY <1>1, <2>1, <2>5, <2>7, <2>10, <3>1, StoreKept
    <3>2. CASE session' # session
      <4>1. cl.next = c /\ sv.issued /\ session' = SessionOf(c, c)
        BY <2>1, <2>4, <3>2
      <4>2. /\ session'.ticket = c /\ session'.master = cl.master /\ session'.suite = cl.suite
            /\ session'.ems = cl.ems /\ session'.name = Cfg(c).name
        BY <4>1 DEF SessionOf
      <4>3. client'[c] = c2 /\ \A d \in Conns : d # c => client'[d] = client[d]
        BY <2>1, <2>2, Update
      <4>4. \A d \in Conns : Cfg(d)' = Cfg(d) /\ ClientKeeps(client[d], client'[d])
        BY <1>1, <2>10, <4>3 DEF Cfg, ClientKeeps
      <4>5. StoreOK'
        <5>1. Vouched(cl.master, Cfg(c).name)'
          BY <1>1, <2>5, <2>7, <4>3, <4>4 DEF Vouched, ClientKeeps
        <5>2. TicketFor(c, Cfg(c).name)'
          BY <2>5, <4>3 DEF TicketFor, ClientVerified
        <5> QED
          BY <1>1, <2>5, <2>7, <4>2, <4>3, <4>4, <5>1, <5>2 DEF StoreOK, Vouched, TicketFor
      <4>6. StoreGenuine'
        BY <1>1, <2>4, <4>1, <4>2, <4>4 DEF StoreGenuine
      <4>7. Forgotten'
        <5>1. ASSUME NEW d \in Conns, client'[d].at = "RESUME_RECV_FINISHED"
              PROVE  client'[d].offered # c
          <6>1. d # c /\ client'[d] = client[d]
            BY <2>5, <2>7, <4>3, <5>1
          <6>2. client[d].offered = c => TicketFor(c, Cfg(d).name)
            BY DEF Inv, OfferOK, Conns
          <6> QED
            BY <1>1, <6>1, <6>2 DEF TicketFor, ClientVerified, Conns
        <5> QED
          BY <4>2, <5>1 DEF Forgotten
      <4> QED
        BY <4>5, <4>6, <4>7
    <3> QED
      BY <3>1, <3>2
  <2> QED
    BY <1>1, <2>1, <2>3, <2>5, <2>7, <2>9, <2>10, <2>11, <2>12, <2>13, <2>14, <2>15, ClientMoves
<1> QED
  BY <1>2, <1>3

LEMMA SendResumedFinishedInv ==
    ASSUME Inv, NEW c \in Conns, SendResumedFinished(c)
    PROVE  Inv'
<1> DEFINE cl == client[c]
           sv == server[c]
           fin == Finished(cl)
           c2 == [Heard(cl, fin) EXCEPT !.step = "CONNECTED"]
           sent == <<Msg("ChangeCipherSpec"), fin>>
<1>1. /\ cl.step = "RESUME_SEND" /\ client' = [client EXCEPT ![c] = c2]
      /\ c2s' = [c2s EXCEPT ![c] = c2s[c] \o sent]
      /\ setting' = setting /\ session' = session /\ cache' = cache /\ server' = server /\ s2c' = s2c
  BY DEF SendResumedFinished, ClientIn, ClientBecomes, ClientSends, stores
<1>2. /\ ClientLocal(c, cl) /\ C2sOK(c, c2s[c], cl) /\ S2cOK(c, s2c[c], sv)
      /\ PairOK(cl, sv) /\ ByConn(s2c) /\ sv.step # "RECV_CH" /\ OfferOK(c)
  BY <1>1, ServerHasRead DEF Inv, ClientOpening
<1>3. /\ fin.type = "Finished" /\ fin.over = cl.tr /\ fin.master = cl.master /\ fin.suite = cl.suite
  BY DEF Finished
<1>4. /\ DOMAIN c2 = ClientFields /\ c2.tr = Append(cl.tr, fin) /\ c2.step = "CONNECTED"
      /\ c2.master = cl.master /\ c2.suite = cl.suite /\ c2.ticketExt = cl.ticketExt
      /\ c2.ems = cl.ems /\ c2.offered = cl.offered /\ c2.resumed = cl.resumed
      /\ c2.nst = cl.nst /\ c2.why = cl.why /\ c2.at = cl.at /\ c2.peerCert = cl.peerCert
  BY <1>2 DEF ClientLocal, ClientFields, Heard
<1> HIDE DEF fin, c2
<1>5. /\ IsSeq(cl.tr) /\ ShowsEms(cl.tr, cl.ems) /\ ~ Full(cl.tr) /\ cl.resumed
      /\ cl.why = "none" /\ cl.at = "none" /\ Vouched(cl.master, Cfg(c).name)
  BY <1>1, <1>2 DEF ClientLocal, OfferOK, ClientHeardCert, ClientResumes, ClientKeyed, ClientOpening
<1>6. IsSeq(c2.tr) /\ ShowsEms(c2.tr, cl.ems) /\ ~ Full(c2.tr)
  <2>1. GoesOn(cl.tr, Append(cl.tr, fin)) /\ ~ Full(Append(cl.tr, fin))
    BY <1>3, <1>5, AppendGoesOn, AppendFull
  <2> QED
    BY <1>4, <1>5, <2>1 DEF GoesOn
<1>7. ClientLocal(c, c2)
  BY <1>1, <1>2, <1>4, <1>5, <1>6
     DEF ClientLocal, ClientSteps, Final, ClientOpening, ClientHearsTicket,
         ClientVerified, ClientHeardCert, ClientResumes, ClientKeyed
<1>8. ClientKeeps(cl, c2)
  BY <1>1, <1>4, <1>5 DEF ClientKeeps, ClientVerified, ClientFlown
<1>9. C2sOK(c, c2s[c] \o sent, c2)
  <2>1. FromClient(c, Msg("ChangeCipherSpec"), c2)
    BY DEF FromClient, Msg
  <2>2. FromClient(c, fin, c2)
    BY <1>3, <1>4, <1>5 DEF FromClient
  <2>3. C2sOK(c, sent, c2)
    BY <2>1, <2>2, SeqShort DEF C2sOK
  <2>4. C2sOK(c, c2s[c], c2)
    BY <1>2, <1>8, C2sFrame
  <2> HIDE DEF sent
  <2> QED
    BY <2>3, <2>4, C2sSend
<1> HIDE DEF sent
<1>10. PairOK(c2, sv)
  BY <1>1, <1>2, <1>4, <1>5 DEF PairOK, ClientVerified
<1>11. OpeningOK(c2, sv, c2s[c] \o sent, s2c[c])
  BY <1>2 DEF OpeningOK
<1>12. StoreOK' /\ StoreGenuine' /\ Forgotten'
  BY <1>1, <1>4, <1>5, <1>8, StoreKept
<1>13. s2c' = [s2c EXCEPT ![c] = s2c[c]]
  BY <1>1, <1>2, Update
<1> QED
  BY <1>1, <1>2, <1>4, <1>5, <1>7, <1>8, <1>9, <1>10, <1>11, <1>12, <1>13, ClientMoves

LEMMA ClientSeesEndInv ==
    ASSUME Inv, NEW c \in Conns, ClientSeesEnd(c)
    PROVE  Inv'
<1> DEFINE cl == client[c]
           c2 == Closed(cl, "peer")
<1>1. /\ cl.step \notin Final \cup {"SEND_CH", "SEND_FLIGHT", "RESUME_SEND"}
      /\ server[c].step = "CLOSED"
      /\ setting' = setting /\ cache' = cache /\ server' = server /\ c2s' = c2s /\ s2c' = s2c
  BY DEF ClientSeesEnd, ClientIn, ServerIn
<1>2. ByConn(s2c) /\ ClientLocal(c, cl)
  BY DEF Inv
<1>3. s2c' = [s2c EXCEPT ![c] = s2c[c]]
  BY <1>1, <1>2, Update
<1>4. CASE cl.step \in {"RECV_FINISHED", "RESUME_RECV_FINISHED"}
  <2>1. FinishedFails(c, "peer")
    BY <1>4 DEF ClientSeesEnd, ClientIn
  <2> QED
    BY <1>1, <1>3, <1>4, <2>1, FinishedFailsInv
<1>5. CASE cl.step \notin {"RECV_FINISHED", "RESUME_RECV_FINISHED"}
  <2>1. client' = [client EXCEPT ![c] = c2] /\ session' = session
    BY <1>5 DEF ClientSeesEnd, ClientIn, ClientBecomes
  <2>2. cl.step \notin ClientVerified
    BY <1>1 DEF ClientVerified, Final
  <2>3. /\ ClientLocal(c, c2) /\ ClientKeeps(cl, c2)
        /\ c2.step = "CLOSED" /\ c2.offered = cl.offered /\ c2.at = cl.step
    <3> HIDE DEF cl
    <3> QED
      BY <1>2, <2>2, ClientCloses
  <2> HIDE DEF c2
  <2>4. c2.step \notin ClientVerified \cup ClientKeyed /\ cl.step # "CONNECTED"
    BY <2>2, <2>3 DEF ClientVerified, ClientKeyed, ClientResumes
  <2> QED
    BY <1>1, <1>3, <1>5, <2>1, <2>3, <2>4, ClientReads
<1> QED
  BY <1>4, <1>5

-----------------------------------------------------------------------------
(* The server's steps *)

LEMMA ServerCloses ==
    ASSUME NEW c, NEW sv, NEW why, NEW s2, ServerLocal(c, sv), why # "none",
           s2 = Closed(sv, why), sv.step # "CONNECTED"
    PROVE  ServerLocal(c, s2) /\ ServerKeeps(sv, s2) /\ s2.step = "CLOSED"
<1>1. /\ DOMAIN s2 = ServerFields /\ s2.step = "CLOSED" /\ s2.why = why
      /\ s2.tr = sv.tr /\ s2.resumed = sv.resumed /\ s2.issued = sv.issued
      /\ s2.master = sv.master /\ s2.suite = sv.suite /\ s2.ems = sv.ems
  BY DEF ServerLocal, Closed, ServerFields
<1>2. ServerLocal(c, s2)
  BY <1>1 DEF ServerLocal, ServerSteps, Final, ServerOpening, ServerGreets, ServerSentCert,
              ServerResumes, ServerIssued, ServerProved
<1>3. ServerKeeps(sv, s2)
  BY <1>1 DEF ServerKeeps, ServerFinished
<1> QED
  BY <1>1, <1>2, <1>3

(* The server reads at most one message and sends and stores nothing *)
LEMMA ServerReads ==
    ASSUME Inv, NEW c \in Conns, NEW s2, NEW q1,
           \/ q1 = c2s[c]
           \/ c2s[c] # << >> /\ q1 = Tail(c2s[c]),
           server' = [server EXCEPT ![c] = s2], c2s' = [c2s EXCEPT ![c] = q1],
           setting' = setting, session' = session, client' = client, s2c' = s2c, CacheOK',
           ServerLocal(c, s2), ServerKeeps(server[c], s2), s2.step # "RECV_CH",
           PairOK(client[c], s2)
    PROVE  Inv'
<1>1. C2sOK(c, c2s[c], client[c]) /\ S2cOK(c, s2c[c], server[c]) /\ ByConn(s2c)
  BY DEF Inv
<1>2. s2c' = [s2c EXCEPT ![c] = s2c[c]]
  BY <1>1, Update
<1>3. S2cOK(c, s2c[c], s2)
  BY <1>1, S2cFrame
<1>4. C2sOK(c, q1, client[c])
  BY <1>1, C2sTail
<1>5. OpeningOK(client[c], s2, q1, s2c[c])
  BY DEF OpeningOK
<1> QED
  BY <1>2, <1>3, <1>4, <1>5, ServerMoves

(* The server sends something and reads nothing *)
LEMMA ServerSaysInv ==
    ASSUME Inv, NEW c \in Conns, NEW s2, NEW sent,
           server' = [server EXCEPT ![c] = s2], s2c' = [s2c EXCEPT ![c] = s2c[c] \o sent],
           setting' = setting, session' = session, client' = client, c2s' = c2s, CacheOK',
           ServerLocal(c, s2), ServerKeeps(server[c], s2), s2.step # "RECV_CH",
           PairOK(client[c], s2), S2cOK(c, sent, s2)
    PROVE  Inv'
<1>1. C2sOK(c, c2s[c], client[c]) /\ S2cOK(c, s2c[c], server[c]) /\ ByConn(c2s)
  BY DEF Inv
<1>2. c2s' = [c2s EXCEPT ![c] = c2s[c]]
  BY <1>1, Update
<1>3. S2cOK(c, s2c[c] \o sent, s2)
  BY <1>1, S2cFrame, S2cSend
<1>4. OpeningOK(client[c], s2, c2s[c], s2c[c] \o sent)
  BY DEF OpeningOK
<1> QED
  BY <1>1, <1>2, <1>3, <1>4, ServerMoves

LEMMA ServerEndsInv ==
    ASSUME Inv, NEW c \in Conns, NEW why, why # "none", server[c].step # "CONNECTED",
           server' = [server EXCEPT ![c] = Closed(server[c], why)],
           setting' = setting, session' = session, cache' = cache, client' = client,
           c2s' = c2s, s2c' = s2c
    PROVE  Inv'
<1> DEFINE s2 == Closed(server[c], why)
<1>1. ServerLocal(c, server[c]) /\ PairOK(client[c], server[c]) /\ ByConn(c2s)
  BY DEF Inv
<1>2. ServerLocal(c, s2) /\ ServerKeeps(server[c], s2) /\ s2.step = "CLOSED"
  BY <1>1, ServerCloses
<1> HIDE DEF s2
<1>3. PairOK(client[c], s2)
  BY <1>1, <1>2, PairKeptByServer
<1>4. CacheOK'
  BY <1>2, CacheKept DEF s2
<1>5. c2s' = [c2s EXCEPT ![c] = c2s[c]]
  BY <1>1, Update
<1> QED
  BY <1>2, <1>3, <1>4, <1>5, ServerReads DEF s2

LEMMA ServerSeesEndInv ==
    ASSUME Inv, NEW c \in Conns, ServerSeesEnd(c) \/ ServerAborts(c)
    PROVE  Inv'
<1>1. server[c].step \in ServerReadSteps \cup ServerSendSteps
  BY DEF ServerSeesEnd, ServerAborts, ServerIn
<1>2. /\ \E why \in {"peer", "abort"} : server' = [server EXCEPT ![c] = Closed(server[c], why)]
      /\ setting' = setting /\ session' = session /\ cache' = cache /\ client' = client
      /\ c2s' = c2s /\ s2c' = s2c
  BY DEF ServerSeesEnd, ServerAborts, ServerBecomes, stores
<1>3. server[c].step # "CONNECTED"
  BY <1>1 DEF ServerReadSteps, ServerSendSteps
<1> QED
  BY <1>2, <1>3, ServerEndsInv

LEMMA CheckSniInv ==
    ASSUME Inv, NEW c \in Conns, CheckSni(c)
    PROVE  Inv'
<1> DEFINE sv == server[c]
           s2 == IF UnrecognizedName(c) /\ Cfg(c).fatal THEN Closed(sv, "sni")
                 ELSE [sv EXCEPT !.step = "SEND_SH"]
           sent == IF WarnsOfName(c) THEN <<Msg("alert")>> ELSE << >>
<1>1. /\ sv.step = "CHECK_SNI" /\ server' = [server EXCEPT ![c] = s2]
      /\ s2c' = [s2c EXCEPT ![c] = s2c[c] \o sent]
      /\ setting' = setting /\ session' = session /\ cache' = cache /\ client' = client /\ c2s' = c2s
  BY DEF CheckSni, ServerIn, ServerBecomes, ServerSends, stores
<1>2. ServerLocal(c, sv) /\ PairOK(client[c], sv)
  BY DEF Inv
<1>3. ServerLocal(c, s2) /\ ServerKeeps(sv, s2) /\ s2.step \in {"CLOSED", "SEND_SH"}
  <2>1. CASE UnrecognizedName(c) /\ Cfg(c).fatal
    <3>1. s2 = Closed(sv, "sni")
      BY <2>1
    <3>2. sv.step # "CONNECTED"
      BY <1>1
    <3> HIDE DEF s2, sv, sent
    <3>3. ServerLocal(c, s2) /\ ServerKeeps(sv, s2) /\ s2.step = "CLOSED"
      BY <1>2, <3>1, <3>2, ServerCloses
    <3> QED
      BY <3>3
  <2>2. CASE ~ (UnrecognizedName(c) /\ Cfg(c).fatal)
    <3>1. /\ DOMAIN s2 = ServerFields /\ s2.step = "SEND_SH" /\ s2.why = sv.why
          /\ s2.tr = sv.tr /\ s2.resumed = sv.resumed /\ s2.issued = sv.issued
          /\ s2.hello = sv.hello /\ s2.resumeEms = sv.resumeEms /\ s2.peerCert = sv.peerCert
      BY <1>2, <2>2 DEF ServerLocal, ServerFields
    <3> HIDE DEF s2
    <3>2. ServerLocal(c, s2)
      BY <1>1, <1>2, <3>1
         DEF ServerLocal, ServerSteps, ServerSendSteps, ServerOpening, ServerGreets, ServerSentCert,
             ServerResumes, ServerIssued, ServerProved
    <3>3. ServerKeeps(sv, s2)
      BY <1>1, <1>2 DEF ServerLocal, ServerKeeps, ServerIssued, ServerFinished
    <3> QED
      BY <3>1, <3>2, <3>3
  <2> QED
    BY <2>1, <2>2
<1>4. S2cOK(c, sent, s2)
  <2>1. FromServer(c, Msg("alert"), s2)
    BY DEF FromServer, Msg
  <2> QED
    BY <2>1, SeqShort DEF S2cOK
<1> HIDE DEF s2, sent
<1>5. PairOK(client[c], s2)
  BY <1>2, <1>3, PairKeptByServer
<1>6. CacheOK'
  BY <1>1, <1>3, CacheKept
<1> QED
  BY <1>1, <1>3, <1>4, <1>5, <1>6, ServerSaysInv

(* The cache, when some of its entries are dropped *)
LEMMA CacheWiped ==
    ASSUME Inv, NEW c \in Conns, NEW s2, server' = [server EXCEPT ![c] = s2],
           ServerKeeps(server[c], s2),
           DOMAIN cache' = DOMAIN cache, cache' = [i \in DOMAIN cache |-> cache'[i]],
           \A i \in DOMAIN cache : cache'[i] \in {cache[i], NoEntry}
    PROVE  CacheOK'
<1>1. server'[c] = s2 /\ \A d \in Conns : d # c => server'[d] = server[d]
  BY Update DEF Inv
<1>2. \A d \in Conns : server[d].issued => server'[d].issued
  BY <1>1 DEF ServerKeeps
<1>3. NoEntry.ticket = "none" /\ "ticket" \in DOMAIN NoEntry /\ "none" \notin Conns
  BY DEF NoEntry, Conns
<1>4. CacheOK /\ DOMAIN cache = 1 .. TicketSlots
  BY DEF Inv, CacheOK
<1> QED
  BY <1>2, <1>3, <1>4 DEF CacheOK

(* A session is resumed only if it agrees on extended master secret *)
LEMMA ChoosesSession ==
    ASSUME NEW c, NEW sv, NEW ch, NEW found, NEW s2, ServerLocal(c, sv), sv.step = "CHECK_SNI",
           ch.ems = Cfg(c).ems, found # 0 => Cfg(c).auth = "none",
           ~ sv.issued, ~ sv.resumed, s2 = ChooseSession(c, sv, ch, found)
    PROVE  ServerLocal(c, s2) /\ s2.step \in {"CHECK_SNI", "CLOSED"}
<1>1. ASSUME NEW why \in {"suite", "ems"}, s2 = Closed(sv, why)
      PROVE  ServerLocal(c, s2) /\ s2.step \in {"CHECK_SNI", "CLOSED"}
  BY <1>1, ServerCloses
<1>2. ASSUME NEW suite, s2 = [sv EXCEPT !.suite = suite]
      PROVE  ServerLocal(c, s2) /\ s2.step \in {"CHECK_SNI", "CLOSED"}
  <2>1. /\ DOMAIN s2 = ServerFields /\ s2.step = sv.step /\ s2.why = sv.why
        /\ s2.tr = sv.tr /\ s2.resumed = sv.resumed /\ s2.issued = sv.issued
        /\ s2.hello = sv.hello /\ s2.resumeEms = sv.resumeEms /\ s2.peerCert = sv.peerCert
        /\ s2.ems = sv.ems
    BY <1>2 DEF ServerLocal, ServerFields
  <2> QED
    BY <2>1 DEF ServerLocal
<1>3. ASSUME found # 0, NEW e, ~ (e.ems /\ ~ ch.ems), ~ (~ e.ems /\ ch.ems),
             s2 = [sv EXCEPT !.suite = e.suite, !.resumed = TRUE,
                             !.resumeEms = e.ems, !.master = e.master]
      PROVE  ServerLocal(c, s2) /\ s2.step \in {"CHECK_SNI", "CLOSED"}
  <2>1. /\ DOMAIN s2 = ServerFields /\ s2.step = sv.step /\ s2.why = sv.why
        /\ s2.tr = sv.tr /\ s2.resumed = TRUE /\ s2.issued = sv.issued
        /\ s2.hello = sv.hello /\ s2.resumeEms = e.ems /\ s2.peerCert = sv.peerCert
        /\ s2.ems = sv.ems
    BY <1>3 DEF ServerLocal, ServerFields
  <2>2. s2.resumeEms <=> Cfg(c).ems
    BY <1>3, <2>1
  <2>3. Cfg(c).auth = "none" /\ Len(sv.tr) = 1
    BY <1>3 DEF ServerLocal, ServerGreets
  <2>4. ~ Full(sv.tr)
    BY <2>3 DEF Full
  <2> QED
    BY <2>1, <2>2, <2>3, <2>4
       DEF ServerLocal, ServerSteps, ServerSendSteps, ServerOpening, ServerGreets, ServerSentCert,
           ServerResumes, ServerIssued, ServerProved
<1> DEFINE fresh == FreshSuite(c, ch)
           full(suite) == IF suite = "none" THEN Closed(sv, "suite")
                          ELSE [sv EXCEPT !.suite = suite]
           e0 == cache[found]
<1>4. ASSUME NEW suite, s2 = full(suite)
      PROVE  ServerLocal(c, s2) /\ s2.step \in {"CHECK_SNI", "CLOSED"}
  BY <1>1, <1>2, <1>4
<1>5. CASE found = 0 \/ ~ Usable(c, ch, e0) \/ e0.name # ch.name
  BY <1>4, <1>5 DEF ChooseSession
<1>6. CASE found # 0 /\ Usable(c, ch, e0) /\ e0.name = ch.name
  <2>1. CASE e0.ems /\ ~ ch.ems
    <3>1. EmsPolicy(e0, ch) = "refuse"
      BY <2>1 DEF EmsPolicy
    <3>2. s2 = Closed(sv, "ems")
      BY <1>6, <3>1 DEF ChooseSession
    <3> QED
      BY <1>1, <3>2
  <2>2. CASE ~ e0.ems /\ ch.ems
    <3>1. EmsPolicy(e0, ch) = "full"
      BY <2>2 DEF EmsPolicy
    <3>2. s2 = full(e0.suite)
      BY <1>6, <3>1 DEF ChooseSession
    <3> QED
      BY <1>4, <3>2
  <2>3. CASE ~ (e0.ems /\ ~ ch.ems) /\ ~ (~ e0.ems /\ ch.ems)
    <3>1. EmsPolicy(e0, ch) = "resume"
      BY <2>3 DEF EmsPolicy
    <3>2. s2 = [sv EXCEPT !.suite = e0.suite, !.resumed = TRUE,
                          !.resumeEms = e0.ems, !.master = e0.master]
      BY <1>6, <3>1 DEF ChooseSession
    <3> QED
      BY <1>3, <1>6, <2>3, <3>2
  <2> QED
    BY <2>1, <2>2, <2>3
<1> QED
  BY <1>5, <1>6

LEMMA ReceiveClientHelloInv ==
    ASSUME Inv, NEW c \in Conns, ReceiveClientHello(c)
    PROVE  Inv'
<1> DEFINE sv == server[c]
           ch == Head(c2s[c])
           looks == ResumptionAllowed(c) /\ ch.ticketExt /\ ch.ticket # "none"
           found == IF looks THEN TicketCacheFind(ch.ticket) ELSE 0
           s1 == [Heard(sv, ch) EXCEPT !.hello = ch, !.step = "CHECK_SNI"]
           s2 == ChooseSession(c, s1, ch, found)
<1>1. /\ sv.step = "RECV_CH" /\ c2s[c] # << >> /\ server' = [server EXCEPT ![c] = s2]
      /\ cache' = (IF looks THEN Wiped(found) ELSE cache)
      /\ c2s' = [c2s EXCEPT ![c] = Tail(c2s[c])]
      /\ setting' = setting /\ session' = session /\ client' = client /\ s2c' = s2c
  BY DEF ReceiveClientHello, ServerIn, ServerBecomes, ServerTakes
<1>2. /\ ServerLocal(c, sv) /\ PairOK(client[c], sv) /\ C2sOK(c, c2s[c], client[c])
      /\ OpeningOK(client[c], sv, c2s[c], s2c[c])
  BY DEF Inv
<1>3. ch.ems = Cfg(c).ems
  <2>1. Head(c2s[c]) = c2s[c][1] /\ FromClient(c, ch, client[c])
    BY <1>1, <1>2, SeqTail, C2sTail DEF C2sOK
  <2>2. c2s[c][1].type = "ClientHello"
    BY <1>1, <1>2 DEF OpeningOK
  <2> QED
    BY <2>1, <2>2 DEF FromClient
<1>4. found # 0 => Cfg(c).auth = "none"
  BY DEF ResumptionAllowed
<1>5. cache' = [i \in DOMAIN cache |-> cache'[i]] /\ DOMAIN cache' = DOMAIN cache
      /\ \A i \in DOMAIN cache : cache'[i] \in {cache[i], NoEntry}
  <2>1. cache = [i \in DOMAIN cache |-> cache[i]]
    BY DEF Inv, CacheOK
  <2> HIDE DEF found, looks
  <2> QED
    BY <1>1, <2>1 DEF Wiped
<1> HIDE DEF found, looks, ch
<1>6. /\ DOMAIN s1 = ServerFields /\ s1.step = "CHECK_SNI" /\ s1.why = sv.why /\ s1.hello = ch
      /\ s1.tr = Append(sv.tr, ch) /\ s1.resumed = sv.resumed /\ s1.issued = sv.issued
  BY <1>2 DEF ServerLocal, ServerFields, Heard
<1> HIDE DEF s1
<1>7. sv.tr = << >> /\ ~ sv.resumed /\ ~ sv.issued /\ sv.why = "none"
  BY <1>1, <1>2 DEF ServerLocal, ServerIssued
<1>8. IsSeq(s1.tr) /\ Len(s1.tr) = 1 /\ NoTicket(s1.tr) /\ OwnTicket(c, s1.tr)
  <2>1. IsSeq(sv.tr) /\ Len(sv.tr) = 0 /\ NoTicket(sv.tr) /\ OwnTicket(c, sv.tr)
    BY <1>2, <1>7, SeqShort DEF ServerLocal
  <2>2. ch.type = "ClientHello"
    BY <1>1, <1>2, SeqTail DEF OpeningOK, C2sOK, ch
  <2>3. IsSeq(Append(sv.tr, ch)) /\ Len(Append(sv.tr, ch)) = Len(sv.tr) + 1
    BY <2>1, SeqAppend
  <2>4. NoTicket(Append(sv.tr, ch)) /\ OwnTicket(c, Append(sv.tr, ch))
    BY <2>1, <2>2, AppendTicket
  <2> QED
    BY <1>6, <2>1, <2>3, <2>4
<1>9. ServerLocal(c, s1)
  BY <1>2, <1>3, <1>6, <1>7, <1>8
     DEF ServerLocal, ServerSteps, ServerSendSteps, ServerOpening, ServerGreets, ServerSentCert,
         ServerResumes, ServerIssued, ServerProved
<1>10. ServerLocal(c, s2) /\ s2.step \in {"CHECK_SNI", "CLOSED"}
  BY <1>3, <1>4, <1>6, <1>7, <1>9, ChoosesSession
<1> HIDE DEF s2
<1>11. ServerKeeps(sv, s2)
  BY <1>1, <1>7 DEF ServerKeeps, ServerFinished
<1>12. PairOK(client[c], s2)
  BY <1>2, <1>10, <1>11, PairKeptByServer
<1>13. CacheOK'
  BY <1>1, <1>5, <1>11, CacheWiped
<1> QED
  BY <1>1, <1>10, <1>11, <1>12, <1>13, ServerReads

LEMMA SendServerHelloInv ==
    ASSUME Inv, NEW c \in Conns, SendServerHello(c)
    PROVE  Inv'
<1> DEFINE sv == server[c]
           ems == sv.hello.ems /\ (sv.resumed => sv.resumeEms)
           sh == [type |-> "ServerHello", random |-> c, suite |-> sv.suite, ems |-> ems,
                  ticketExt |-> sv.hello.ticketExt]
           s2 == [Heard(sv, sh) EXCEPT !.ems = ems, !.step = AfterServerHello(sv)]
<1>1. /\ sv.step = "SEND_SH" /\ server' = [server EXCEPT ![c] = s2]
      /\ s2c' = [s2c EXCEPT ![c] = s2c[c] \o <<sh>>]
      /\ setting' = setting /\ session' = session /\ cache' = cache /\ client' = client /\ c2s' = c2s
  BY DEF SendServerHello, ServerIn, ServerBecomes, ServerSends, stores
<1>2. ServerLocal(c, sv) /\ PairOK(client[c], sv) /\ Cfg(c).ems \in BOOLEAN
  BY CfgOK DEF Inv
<1>3. /\ IsSeq(sv.tr) /\ Len(sv.tr) = 1 /\ sv.hello.ems = Cfg(c).ems /\ ~ sv.issued
      /\ sv.resumed \in BOOLEAN /\ sv.issued = FALSE
      /\ sv.why = "none" /\ NoTicket(sv.tr) /\ OwnTicket(c, sv.tr)
      /\ sv.resumed => (sv.resumeEms <=> Cfg(c).ems) /\ Cfg(c).auth = "none"
  BY <1>1, <1>2 DEF ServerLocal, ServerGreets, ServerIssued
<1>4. ems = Cfg(c).ems
  BY <1>2, <1>3
<1>5. sh.type = "ServerHello" /\ sh.ems = ems
  OBVIOUS
<1>6. /\ DOMAIN s2 = ServerFields /\ s2.step = AfterServerHello(sv) /\ s2.why = sv.why
      /\ s2.tr = Append(sv.tr, sh) /\ s2.resumed = sv.resumed /\ s2.issued = sv.issued
      /\ s2.ems = ems /\ s2.peerCert = sv.peerCert
  BY <1>2 DEF ServerLocal, ServerFields, Heard
<1> HIDE DEF sh, ems, s2
<1>7. /\ IsSeq(s2.tr) /\ Len(s2.tr) = 2 /\ ShowsEms(s2.tr, s2.ems) /\ ~ Full(s2.tr)
      /\ NoTicket(s2.tr) /\ OwnTicket(c, s2.tr)
  <2>1. IsSeq(Append(sv.tr, sh)) /\ Len(Append(sv.tr, sh)) = Len(sv.tr) + 1
    BY <1>3, SeqAppend
  <2>2. ShowsEms(Append(sv.tr, sh), ems)
    BY <1>3, <1>5, AppendEms
  <2>3. NoTicket(Append(sv.tr, sh)) /\ OwnTicket(c, Append(sv.tr, sh))
    BY <1>3, <1>5, AppendTicket
  <2>4. IsSeq(s2.tr) /\ Len(s2.tr) = 2 /\ ShowsEms(s2.tr, s2.ems)
    BY <1>3, <1>6, <2>1, <2>2
  <2>5. ~ Full(s2.tr)
    BY <2>4 DEF Full
  <2> QED
    BY <1>6, <2>3, <2>4, <2>5
<1>8. s2.step = IF sv.resumed THEN "RESUME_SEND_TICKET" ELSE "SEND_FLIGHT"
  BY <1>6 DEF AfterServerHello
<1>9. ServerLocal(c, s2)
  <2>1. CASE sv.resumed
    <3>1. s2.step = "RESUME_SEND_TICKET"
      BY <1>8, <2>1
    <3> QED
      BY <1>3, <1>6, <1>7, <2>1, <3>1
         DEF ServerLocal, ServerSteps, ServerSendSteps, ServerOpening, ServerGreets,
             ServerSentCert, ServerResumes, ServerIssued, ServerProved
  <2>2. CASE ~ sv.resumed
    <3>1. s2.step = "SEND_FLIGHT"
      BY <1>8, <2>2
    <3> QED
      BY <1>3, <1>6, <1>7, <2>2, <3>1
         DEF ServerLocal, ServerSteps, ServerSendSteps, ServerOpening, ServerGreets,
             ServerSentCert, ServerResumes, ServerIssued, ServerProved
  <2> QED
    BY <2>1, <2>2
<1>10. ServerKeeps(sv, s2) /\ s2.step \notin {"RECV_CH", "CONNECTED"}
  BY <1>1, <1>3, <1>8 DEF ServerKeeps, ServerFinished
<1>11. S2cOK(c, <<sh>>, s2)
  BY <1>4, <1>5, SeqOne DEF S2cOK, FromServer
<1>12. PairOK(client[c], s2)
  BY <1>2, <1>10, PairKeptByServer
<1>13. CacheOK'
  BY <1>1, <1>10, CacheKept
<1> QED
  BY <1>1, <1>9, <1>10, <1>11, <1>12, <1>13, ServerSaysInv

LEMMA SendServerFlightInv ==
    ASSUME Inv, NEW c \in Conns, SendServerFlight(c)
    PROVE  Inv'
<1> DEFINE sv == server[c]
           asks == Cfg(c).auth # "none"
           m1 == <<Msg("Certificate")>>
           m2 == m1 \o (IF sv.suite = "dhe" THEN <<Msg("ServerKeyExchange")>> ELSE << >>)
           m3 == m2 \o (IF asks THEN <<Msg("CertificateRequest")>> ELSE << >>)
           msgs == m3 \o <<Msg("ServerHelloDone")>>
           s2 == [sv EXCEPT !.tr = sv.tr \o msgs,
                            !.step = IF asks THEN "RECV_CERTIFICATE" ELSE "RECV_CLIENT_KEY_EXCHANGE"]
           Plain(q) == /\ IsSeq(q) /\ Len(q) \in Nat \ {0} /\ q[1] = Msg("Certificate")
                       /\ \A i \in DOMAIN q : \E t \in {"Certificate", "ServerKeyExchange",
                                                        "CertificateRequest", "ServerHelloDone"} :
                             q[i] = Msg(t)
<1>1. /\ sv.step = "SEND_FLIGHT" /\ server' = [server EXCEPT ![c] = s2]
      /\ s2c' = [s2c EXCEPT ![c] = s2c[c] \o msgs]
      /\ setting' = setting /\ session' = session /\ cache' = cache /\ client' = client /\ c2s' = c2s
  BY DEF SendServerFlight, ServerIn, ServerBecomes, ServerSends, stores
<1>2. ServerLocal(c, sv) /\ PairOK(client[c], sv)
  BY DEF Inv
<1>3. /\ IsSeq(sv.tr) /\ Len(sv.tr) = 2 /\ ~ sv.issued /\ ShowsEms(sv.tr, sv.ems)
      /\ ~ sv.resumed /\ sv.why = "none" /\ NoTicket(sv.tr) /\ OwnTicket(c, sv.tr)
  BY <1>1, <1>2 DEF ServerLocal, ServerGreets, ServerIssued, ServerOpening
<1>4. Plain(msgs)
  <2>1. ASSUME NEW q, Plain(q), NEW t \in {"ServerKeyExchange", "CertificateRequest", "ServerHelloDone"}
        PROVE  Plain(q \o <<Msg(t)>>) /\ Plain(q \o << >>)
    <3>1. ASSUME NEW r, IsSeq(r), Len(r) \in {0, 1}, Len(r) = 1 => r[1] = Msg(t)
          PROVE  Plain(q \o r)
      <4>1. /\ DOMAIN q = 1 .. Len(q) /\ DOMAIN r = 1 .. Len(r)
            /\ IsSeq(q \o r) /\ Len(q \o r) = Len(q) + Len(r)
            /\ DOMAIN (q \o r) = 1 .. (Len(q) + Len(r))
            /\ \A i \in 1 .. Len(q) : (q \o r)[i] = q[i]
            /\ \A i \in 1 .. (Len(q) + Len(r)) : i > Len(q) => (q \o r)[i] = r[i - Len(q)]
        BY <2>1, <3>1, SeqConcat
      <4>2. ASSUME NEW i \in DOMAIN (q \o r)
            PROVE  (i \in DOMAIN q /\ (q \o r)[i] = q[i]) \/ (q \o r)[i] = Msg(t)
        BY <2>1, <3>1, <4>1
      <4>3. (q \o r)[1] = q[1] /\ Len(q \o r) \in Nat \ {0}
        BY <2>1, <3>1, <4>1
      <4> QED
        BY <2>1, <4>1, <4>2, <4>3
    <3>2. IsSeq(<<Msg(t)>>) /\ Len(<<Msg(t)>>) = 1 /\ <<Msg(t)>>[1] = Msg(t)
      BY SeqOne
    <3>3. Plain(q \o <<Msg(t)>>)
      BY <3>1, <3>2
    <3>4. Plain(q \o << >>)
      <4>1. IsSeq(<< >>) /\ Len(<< >>) \in {0, 1} /\ Len(<< >>) # 1
        BY SeqShort
      <4> HIDE DEF Plain
      <4> QED
        BY <3>1, <4>1, Zenon
    <3> QED
      BY <3>3, <3>4
  <2>2. Plain(m1)
    BY SeqOne
  <2> HIDE DEF m1
  <2>3. Plain(m2)
    BY <2>1, <2>2
  <2> HIDE DEF m2
  <2>4. Plain(m3)
    BY <2>1, <2>3, ZenonT(40)
  <2> HIDE DEF m3
  <2> QED
    BY <2>1, <2>4
<1> HIDE DEF msgs
<1>5. /\ \A i \in DOMAIN msgs : msgs[i].type \notin {"NewSessionTicket", "ServerHello", "Finished"}
      /\ msgs[1].type = "Certificate" /\ IsSeq(msgs) /\ Len(msgs) >= 1
  BY <1>4 DEF Msg
<1>6. /\ DOMAIN s2 = ServerFields /\ s2.why = sv.why
      /\ s2.step = (IF asks THEN "RECV_CERTIFICATE" ELSE "RECV_CLIENT_KEY_EXCHANGE")
      /\ s2.tr = sv.tr \o msgs /\ s2.resumed = sv.resumed /\ s2.issued = sv.issued
      /\ s2.ems = sv.ems /\ s2.peerCert = sv.peerCert
  BY <1>2 DEF ServerLocal, ServerFields
<1> HIDE DEF s2
<1>7. /\ IsSeq(s2.tr) /\ ShowsEms(s2.tr, s2.ems) /\ Full(s2.tr)
      /\ NoTicket(s2.tr) /\ OwnTicket(c, s2.tr)
  <2>1. NoTicket(msgs)
    BY <1>5 DEF NoTicket
  <2>2. /\ IsSeq(sv.tr \o msgs) /\ Full(sv.tr \o msgs) /\ ShowsEms(sv.tr \o msgs, sv.ems)
        /\ NoTicket(sv.tr \o msgs) /\ OwnTicket(c, sv.tr \o msgs)
    BY <1>3, <1>5, <2>1, ConcatTranscript
  <2> QED
    BY <1>6, <2>2
<1>8. ServerLocal(c, s2)
  <2>1. s2.step \in {"RECV_CERTIFICATE", "RECV_CLIENT_KEY_EXCHANGE"} /\ s2.resumed = FALSE
        /\ s2.issued = FALSE /\ s2.why = "none"
        /\ (Cfg(c).auth = "require" => s2.step = "RECV_CERTIFICATE")
    BY <1>2, <1>3, <1>6 DEF ServerLocal
  <2> QED
    BY <1>6, <1>7, <2>1
       DEF ServerLocal, ServerSteps, ServerReadSteps, ServerOpening, ServerGreets, ServerSentCert,
           ServerResumes, ServerIssued, ServerProved
<1>9. ServerKeeps(sv, s2) /\ s2.step \notin {"RECV_CH", "CONNECTED"}
  BY <1>1, <1>3, <1>6 DEF ServerKeeps, ServerFinished
<1>10. S2cOK(c, msgs, s2)
  BY <1>5 DEF S2cOK, FromServer
<1>11. PairOK(client[c], s2)
  BY <1>2, <1>9, PairKeptByServer
<1>12. CacheOK'
  BY <1>1, <1>9, CacheKept
<1> QED
  BY <1>1, <1>8, <1>9, <1>10, <1>11, <1>12, ServerSaysInv

(* The server of a full handshake hears one more message, or a record *)
LEMMA ServerGoesOn ==
    ASSUME NEW c, NEW sv, NEW s2, NEW msg, ServerLocal(c, sv),
           sv.step \in {"RECV_CERTIFICATE", "RECV_CLIENT_KEY_EXCHANGE", "RECV_CERTIFICATE_VERIFY",
                        "RECV_CCS", "RECV_FINISHED"},
           s2.step \in {"RECV_CLIENT_KEY_EXCHANGE", "RECV_CERTIFICATE_VERIFY", "RECV_CCS",
                        "RECV_FINISHED", "SEND_TICKET"},
           DOMAIN s2 = ServerFields, s2.tr \in {sv.tr, Append(sv.tr, msg)},
           msg.type # "NewSessionTicket", s2.resumed = sv.resumed, s2.issued = sv.issued,
           s2.ems = sv.ems, s2.why = sv.why,
           Cfg(c).auth = "require" =>
               s2.peerCert = IF s2.step \in {"RECV_CLIENT_KEY_EXCHANGE", "RECV_CERTIFICATE_VERIFY"}
                             THEN "offered" ELSE "proved"
    PROVE  ServerLocal(c, s2) /\ ServerKeeps(sv, s2)
<1>1. /\ IsSeq(sv.tr) /\ sv.issued = FALSE /\ ShowsEms(sv.tr, sv.ems) /\ Full(sv.tr)
      /\ sv.resumed = FALSE /\ sv.why = "none" /\ NoTicket(sv.tr) /\ OwnTicket(c, sv.tr)
  BY DEF ServerLocal, ServerSentCert, ServerIssued, ServerOpening
<1>2. /\ IsSeq(s2.tr) /\ ShowsEms(s2.tr, s2.ems) /\ Full(s2.tr)
      /\ NoTicket(s2.tr) /\ OwnTicket(c, s2.tr)
  <2>1. GoesOn(sv.tr, Append(sv.tr, msg))
    BY <1>1, AppendGoesOn
  <2>2. NoTicket(Append(sv.tr, msg)) /\ OwnTicket(c, Append(sv.tr, msg))
    BY <1>1, AppendTicket
  <2> QED
    BY <1>1, <2>1, <2>2 DEF GoesOn
<1>3. ServerLocal(c, s2)
  BY <1>1, <1>2
     DEF ServerLocal, ServerSteps, ServerReadSteps, ServerSendSteps, ServerOpening, ServerGreets,
         ServerSentCert, ServerResumes, ServerIssued, ServerProved
<1>4. ServerKeeps(sv, s2)
  BY <1>1 DEF ServerKeeps, ServerFinished
<1> QED
  BY <1>3, <1>4

(* The Finished that ends an abbreviated handshake: what the client signed  *)
(* for is what the server has.                                              *)
LEMMA ServerConnects ==
    ASSUME NEW c, NEW cl, NEW sv, NEW msg, NEW s2, ServerLocal(c, sv), PairOK(cl, sv),
           FromClient(c, msg, cl), sv.step = "RESUME_RECV_FINISHED", msg = Finished(sv),
           s2 = [Heard(sv, msg) EXCEPT !.step = "CONNECTED"]
    PROVE  ServerLocal(c, s2) /\ ServerKeeps(sv, s2) /\ PairOK(cl, s2)
<1>1. /\ msg.type = "Finished" /\ msg.over = sv.tr /\ msg.master = sv.master /\ msg.suite = sv.suite
  BY DEF Finished
<1>2. /\ DOMAIN s2 = ServerFields /\ s2.why = sv.why /\ s2.step = "CONNECTED"
      /\ s2.tr = Append(sv.tr, msg) /\ s2.resumed = sv.resumed /\ s2.issued = sv.issued
      /\ s2.ems = sv.ems /\ s2.peerCert = sv.peerCert /\ s2.master = sv.master
      /\ s2.suite = sv.suite
  BY DEF ServerLocal, ServerFields, Heard
<1>3. /\ IsSeq(sv.tr) /\ ShowsEms(sv.tr, sv.ems) /\ ~ Full(sv.tr) /\ sv.resumed = TRUE
      /\ sv.why = "none" /\ OwnTicket(c, sv.tr) /\ (~ sv.issued => NoTicket(sv.tr))
      /\ Cfg(c).auth = "none" /\ sv.issued \in BOOLEAN
  BY DEF ServerLocal, ServerResumes, ServerOpening
<1>4. /\ IsSeq(s2.tr) /\ ShowsEms(s2.tr, s2.ems) /\ ~ Full(s2.tr)
      /\ OwnTicket(c, s2.tr) /\ (~ s2.issued => NoTicket(s2.tr))
  <2>1. GoesOn(sv.tr, Append(sv.tr, msg)) /\ ~ Full(Append(sv.tr, msg))
    BY <1>1, <1>3, AppendGoesOn, AppendFull
  <2>2. /\ OwnTicket(c, Append(sv.tr, msg))
        /\ NoTicket(sv.tr) => NoTicket(Append(sv.tr, msg))
    BY <1>1, <1>3, AppendTicket
  <2> QED
    BY <1>2, <1>3, <2>1, <2>2 DEF GoesOn
<1>5. ServerLocal(c, s2)
  BY <1>2, <1>3, <1>4
     DEF ServerLocal, ServerSteps, Final, ServerOpening, ServerGreets,
         ServerSentCert, ServerResumes, ServerIssued, ServerProved
<1>6. ServerKeeps(sv, s2)
  BY <1>2 DEF ServerKeeps, ServerFinished
<1>7. cl.resumed
  BY <1>1, <1>3 DEF FromClient
<1>8. cl.step = "CONNECTED" /\ SameHandshake(cl, s2)
  <2>1. /\ cl.step = "CONNECTED" /\ cl.tr = Append(msg.over, msg) /\ msg.master = cl.master
        /\ msg.suite = cl.suite /\ ShowsEms(msg.over, cl.ems)
    BY <1>1, <1>7 DEF FromClient
  <2>2. cl.ems = s2.ems
    BY <1>1, <1>2, <1>3, <2>1 DEF ShowsEms
  <2>3. sv.resumed = cl.resumed
    BY <1>7, <2>1, <1>3 DEF PairOK, ClientVerified
  <2> QED
    BY <1>1, <1>2, <2>1, <2>2, <2>3 DEF SameHandshake
<1> QED
  BY <1>2, <1>5, <1>6, <1>7, <1>8 DEF PairOK, ServerFinished

LEMMA ServerReceivesInv ==
    ASSUME Inv, NEW c \in Conns, ServerReceives(c)
    PROVE  Inv'
<1> DEFINE sv == server[c]
           msg == Head(c2s[c])
           s2 == CASE sv.step = "RECV_CERTIFICATE" -> TakeClientCertificate(c, sv, msg)
                   [] sv.step = "RECV_CLIENT_KEY_EXCHANGE" -> TakeClientKeyExchange(c, sv, msg)
                   [] sv.step = "RECV_CERTIFICATE_VERIFY" -> TakeCertificateVerify(sv, msg)
                   [] sv.step \in {"RECV_CCS", "RESUME_RECV_CCS"} -> TakeClientChangeCipherSpec(sv, msg)
                   [] OTHER -> TakeClientFinished(sv, msg)
           Good == /\ ServerLocal(c, s2) /\ ServerKeeps(sv, s2) /\ s2.step # "RECV_CH"
                   /\ PairOK(client[c], s2)
<1>1. /\ sv.step \in ServerReadSteps /\ c2s[c] # << >> /\ server' = [server EXCEPT ![c] = s2]
      /\ c2s' = [c2s EXCEPT ![c] = Tail(c2s[c])]
      /\ setting' = setting /\ session' = session /\ cache' = cache /\ client' = client /\ s2c' = s2c
  BY DEF ServerReceives, ServerIn, ServerBecomes, ServerTakes, stores
<1>2. /\ ServerLocal(c, sv) /\ PairOK(client[c], sv) /\ FromClient(c, msg, client[c])
  BY <1>1, C2sTail DEF Inv
<1> HIDE DEF msg
<1>3. /\ DOMAIN sv = ServerFields /\ sv.step # "CONNECTED" /\ sv.resumed \in BOOLEAN
      /\ Cfg(c).auth = "require" =>
           /\ sv.step \in {"RECV_CLIENT_KEY_EXCHANGE", "RECV_CERTIFICATE_VERIFY"} =>
                sv.peerCert = "offered"
           /\ sv.step \in ServerProved => sv.peerCert = "proved"
  BY <1>1, <1>2 DEF ServerLocal, ServerReadSteps
<1>4. ASSUME NEW why \in {"unexpected", "cert_required", "finished"}, s2 = Closed(sv, why)
      PROVE  Good
  <2>1. ServerLocal(c, s2) /\ ServerKeeps(sv, s2) /\ s2.step = "CLOSED"
    BY <1>2, <1>3, <1>4, ServerCloses
  <2> HIDE DEF s2
  <2> QED
    BY <1>2, <2>1, PairKeptByServer
<1>5. ASSUME ServerLocal(c, s2), ServerKeeps(sv, s2), s2.step \notin {"RECV_CH", "CONNECTED"}
      PROVE  Good
  <2> HIDE DEF s2
  <2> QED
    BY <1>2, <1>5, PairKeptByServer
<1>6. ASSUME sv.step = "RECV_CERTIFICATE" PROVE Good
  <2>1. s2 = TakeClientCertificate(c, sv, msg)
    BY <1>6
  <2> HIDE DEF s2
  <2>2. CASE s2 \in {Closed(sv, "unexpected"), Closed(sv, "cert_required")}
    BY <1>4, <2>2 DEF s2
  <2>3. CASE ~ (s2 \in {Closed(sv, "unexpected"), Closed(sv, "cert_required")})
    <3>1. /\ msg.type = "Certificate" /\ (Cfg(c).auth = "require" => msg.present)
          /\ s2 = [Heard(sv, msg) EXCEPT !.step = "RECV_CLIENT_KEY_EXCHANGE",
                                         !.peerCert = IF msg.present THEN "offered" ELSE "none"]
      BY <2>1, <2>3 DEF TakeClientCertificate
    <3>2. /\ DOMAIN s2 = ServerFields /\ s2.why = sv.why /\ s2.step = "RECV_CLIENT_KEY_EXCHANGE"
          /\ s2.tr = Append(sv.tr, msg) /\ s2.resumed = sv.resumed /\ s2.issued = sv.issued
          /\ s2.ems = sv.ems /\ (Cfg(c).auth = "require" => s2.peerCert = "offered")
      BY <1>3, <3>1 DEF ServerFields, Heard
    <3>3. ServerLocal(c, s2) /\ ServerKeeps(sv, s2)
      BY <1>2, <1>6, <3>1, <3>2, ServerGoesOn, ZenonT(40)
    <3> QED
      BY <1>5, <3>2, <3>3 DEF s2
  <2> QED
    BY <2>2, <2>3
<1>7. ASSUME sv.step = "RECV_CLIENT_KEY_EXCHANGE" PROVE Good
  <2>1. s2 = TakeClientKeyExchange(c, sv, msg)
    BY <1>7
  <2> HIDE DEF s2
  <2>2. CASE s2 = Closed(sv, "unexpected")
    BY <1>4, <2>2 DEF s2
  <2>3. CASE s2 # Closed(sv, "unexpected")
    <3>1. /\ msg.type = "ClientKeyExchange"
          /\ s2 = [Heard(sv, msg) EXCEPT
                     !.master = Master(c, sv.ems, Heard(sv, msg).tr),
                     !.step = IF sv.peerCert = "offered" THEN "RECV_CERTIFICATE_VERIFY" ELSE "RECV_CCS"]
      BY <2>1, <2>3 DEF TakeClientKeyExchange
    <3>2. /\ DOMAIN s2 = ServerFields /\ s2.why = sv.why
          /\ s2.step = (IF sv.peerCert = "offered" THEN "RECV_CERTIFICATE_VERIFY" ELSE "RECV_CCS")
          /\ s2.tr = Append(sv.tr, msg) /\ s2.resumed = sv.resumed /\ s2.issued = sv.issued
          /\ s2.ems = sv.ems /\ s2.peerCert = sv.peerCert
      BY <1>3, <3>1 DEF ServerFields, Heard
    <3>3. /\ s2.step \in {"RECV_CERTIFICATE_VERIFY", "RECV_CCS"}
          /\ Cfg(c).auth = "require" => s2.peerCert = "offered" /\ s2.step = "RECV_CERTIFICATE_VERIFY"
      BY <1>3, <1>7, <3>2
    <3>4. ServerLocal(c, s2) /\ ServerKeeps(sv, s2)
      BY <1>2, <1>7, <3>1, <3>2, <3>3, ServerGoesOn, ZenonT(40)
    <3> QED
      BY <1>5, <3>3, <3>4 DEF s2
  <2> QED
    BY <2>2, <2>3
<1>8. ASSUME sv.step = "RECV_CERTIFICATE_VERIFY" PROVE Good
  <2>1. s2 = TakeCertificateVerify(sv, msg)
    BY <1>8
  <2> HIDE DEF s2
  <2>2. CASE s2 = Closed(sv, "unexpected")
    BY <1>4, <2>2 DEF s2
  <2>3. CASE s2 # Closed(sv, "unexpected")
    <3>1. /\ msg.type = "CertificateVerify"
          /\ s2 = [Heard(sv, msg) EXCEPT !.peerCert = "proved", !.step = "RECV_CCS"]
      BY <2>1, <2>3 DEF TakeCertificateVerify
    <3>2. /\ DOMAIN s2 = ServerFields /\ s2.why = sv.why /\ s2.step = "RECV_CCS"
          /\ s2.tr = Append(sv.tr, msg) /\ s2.resumed = sv.resumed /\ s2.issued = sv.issued
          /\ s2.ems = sv.ems /\ s2.peerCert = "proved"
      BY <1>3, <3>1 DEF ServerFields, Heard
    <3>3. ServerLocal(c, s2) /\ ServerKeeps(sv, s2)
      BY <1>2, <1>8, <3>1, <3>2, ServerGoesOn
    <3> QED
      BY <1>5, <3>2, <3>3 DEF s2
  <2> QED
    BY <2>2, <2>3
<1>9. ASSUME sv.step \in {"RECV_CCS", "RESUME_RECV_CCS"} PROVE Good
  <2>1. s2 = TakeClientChangeCipherSpec(sv, msg)
    BY <1>9
  <2> HIDE DEF s2
  <2>2. CASE s2 = Closed(sv, "unexpected")
    BY <1>4, <2>2 DEF s2
  <2>3. CASE s2 # Closed(sv, "unexpected")
    <3>1. /\ msg.type = "ChangeCipherSpec"
          /\ s2 = [sv EXCEPT !.step = IF sv.resumed THEN "RESUME_RECV_FINISHED" ELSE "RECV_FINISHED"]
      BY <2>1, <2>3 DEF TakeClientChangeCipherSpec
    <3>2. /\ DOMAIN s2 = ServerFields /\ s2.why = sv.why
          /\ s2.step = (IF sv.resumed THEN "RESUME_RECV_FINISHED" ELSE "RECV_FINISHED")
          /\ s2.tr = sv.tr /\ s2.resumed = sv.resumed /\ s2.issued = sv.issued
          /\ s2.ems = sv.ems /\ s2.peerCert = sv.peerCert /\ s2.master = sv.master
          /\ s2.suite = sv.suite
      BY <1>3, <3>1 DEF ServerFields
    <3>3. CASE sv.step = "RECV_CCS"
      <4>1. ~ sv.resumed /\ s2.step = "RECV_FINISHED"
        BY <1>2, <3>2, <3>3 DEF ServerLocal, ServerSentCert
      <4>2. ServerLocal(c, s2) /\ ServerKeeps(sv, s2)
        BY <1>2, <1>3, <3>1, <3>2, <3>3, <4>1, ServerGoesOn DEF ServerProved
      <4> QED
        BY <1>5, <4>1, <4>2 DEF s2
    <3>4. CASE sv.step = "RESUME_RECV_CCS"
      <4>1. sv.resumed /\ s2.step = "RESUME_RECV_FINISHED"
        BY <1>2, <3>2, <3>4 DEF ServerLocal, ServerResumes
      <4>2. ServerLocal(c, s2)
        BY <1>2, <3>2, <3>4, <4>1
           DEF ServerLocal, ServerSteps, ServerReadSteps, ServerOpening, ServerGreets,
               ServerSentCert, ServerResumes, ServerIssued, ServerProved
      <4>3. ServerKeeps(sv, s2)
        BY <3>2, <3>4, <4>1 DEF ServerKeeps, ServerFinished
      <4> QED
        BY <1>5, <4>1, <4>2, <4>3 DEF s2
    <3> QED
      BY <1>9, <3>3, <3>4
  <2> QED
    BY <2>2, <2>3
<1>10. ASSUME sv.step \in {"RECV_FINISHED", "RESUME_RECV_FINISHED"} PROVE Good
  <2>1. s2 = TakeClientFinished(sv, msg)
    BY <1>10
  <2> HIDE DEF s2
  <2>2. CASE s2 = Closed(sv, "finished")
    BY <1>4, <2>2 DEF s2
  <2>3. CASE s2 # Closed(sv, "finished")
    <3>1. /\ msg = Finished(sv)
          /\ s2 = [Heard(sv, msg) EXCEPT !.step = IF sv.resumed THEN "CONNECTED" ELSE "SEND_TICKET"]
      BY <2>1, <2>3 DEF TakeClientFinished, Verifies
    <3>2. msg.type = "Finished"
      BY <3>1 DEF Finished
    <3>3. CASE sv.step = "RECV_FINISHED"
      <4>1. ~ sv.resumed
        BY <1>2, <3>3 DEF ServerLocal, ServerSentCert
      <4>2. /\ DOMAIN s2 = ServerFields /\ s2.why = sv.why /\ s2.step = "SEND_TICKET"
            /\ s2.tr = Append(sv.tr, msg) /\ s2.resumed = sv.resumed /\ s2.issued = sv.issued
            /\ s2.ems = sv.ems /\ s2.peerCert = sv.peerCert
        BY <1>3, <3>1, <4>1 DEF ServerFields, Heard
      <4>3. ServerLocal(c, s2) /\ ServerKeeps(sv, s2)
        BY <1>2, <1>3, <3>2, <3>3, <4>2, ServerGoesOn DEF ServerProved
      <4> QED
        BY <1>5, <4>2, <4>3 DEF s2
    <3>4. CASE sv.step = "RESUME_RECV_FINISHED"
      <4>1. sv.resumed
        BY <1>2, <3>4 DEF ServerLocal, ServerResumes
      <4>2. s2 = [Heard(sv, msg) EXCEPT !.step = "CONNECTED"]
        BY <3>1, <4>1
      <4>3. s2.step = "CONNECTED"
        BY <1>3, <4>2 DEF ServerFields, Heard
      <4>4. ServerLocal(c, s2) /\ ServerKeeps(sv, s2) /\ PairOK(client[c], s2)
        BY <1>2, <3>1, <3>4, <4>2, ServerConnects
      <4> QED
        BY <4>3, <4>4 DEF s2
    <3> QED
      BY <1>10, <3>3, <3>4
  <2> QED
    BY <2>2, <2>3
<1>11. Good
  BY <1>1, <1>6, <1>7, <1>8, <1>9, <1>10 DEF ServerReadSteps
<1> HIDE DEF s2
<1>12. CacheOK'
  BY <1>1, <1>11, CacheKept
<1> QED
  BY <1>1, <1>11, <1>12, ServerReads

(* The cache, when the ticket of connection c takes a slot *)
LEMMA CacheStores ==
    ASSUME Inv, NEW c \in Conns, NEW s2, NEW entry, server' = [server EXCEPT ![c] = s2],
           ~ server[c].issued, s2.issued, "ticket" \in DOMAIN entry, entry.ticket = c,
           cache' = TicketCacheStore(entry)
    PROVE  CacheOK'
<1> DEFINE free == { i \in DOMAIN Wiped(0) : Wiped(0)[i] = NoEntry }
           k == IF free = {} THEN 1 ELSE Least(free)
<1>1. server'[c] = s2 /\ \A d \in Conns : d # c => server'[d] = server[d]
  BY Update DEF Inv
<1>2. CacheOK /\ DOMAIN cache = 1 .. TicketSlots
  BY DEF Inv, CacheOK
<1>3. \A i \in 1 .. TicketSlots : cache[i].ticket # c
  BY <1>2 DEF CacheOK
<1>4. NoEntry.ticket = "none" /\ "ticket" \in DOMAIN NoEntry /\ "none" \notin Conns
  BY DEF NoEntry, Conns
<1>5. cache' = [Wiped(0) EXCEPT ![k] = entry]
  BY DEF TicketCacheStore
<1> HIDE DEF k
<1>6. /\ Wiped(0) = [i \in 1 .. TicketSlots |-> Wiped(0)[i]]
      /\ \A i \in 1 .. TicketSlots : Wiped(0)[i] \in {cache[i], NoEntry}
  BY <1>2 DEF Wiped
<1>7. /\ cache' = [i \in 1 .. TicketSlots |-> cache'[i]]
      /\ \A i \in 1 .. TicketSlots :
           \/ i = k /\ cache'[i] = entry
           \/ i # k /\ cache'[i] \in {cache[i], NoEntry}
  BY <1>5, <1>6
<1>8. \A i \in 1 .. TicketSlots :
         /\ "ticket" \in DOMAIN cache'[i]
         /\ cache'[i] = NoEntry \/ cache'[i].ticket \in Conns \cup {"prior"}
         /\ cache'[i].ticket \in Conns => server'[cache'[i].ticket].issued
  BY <1>1, <1>2, <1>4, <1>7 DEF CacheOK
<1>9. \A i, j \in 1 .. TicketSlots :
         cache'[i].ticket = cache'[j].ticket /\ cache'[i].ticket # "none" => i = j
  BY <1>2, <1>3, <1>4, <1>7 DEF CacheOK
<1> QED
  BY <1>7, <1>8, <1>9 DEF CacheOK

(* The server on its way to its Finished *)
LEMMA ServerFinishing ==
    ASSUME NEW c, NEW sv, ServerLocal(c, sv),
           sv.step \in {"SEND_TICKET", "RESUME_SEND_TICKET", "SEND_CCS", "RESUME_SEND_CCS",
                        "SEND_FINISHED", "RESUME_SEND_FINISHED"}
    PROVE  /\ DOMAIN sv = ServerFields /\ IsSeq(sv.tr) /\ ShowsEms(sv.tr, sv.ems) /\ sv.why = "none"
           /\ sv.resumed \in BOOLEAN /\ sv.issued \in BOOLEAN
           /\ OwnTicket(c, sv.tr) /\ (~ sv.issued => NoTicket(sv.tr))
           /\ sv.resumed <=> sv.step \in {"RESUME_SEND_TICKET", "RESUME_SEND_CCS",
                                          "RESUME_SEND_FINISHED"}
           /\ Full(sv.tr) <=> ~ sv.resumed
           /\ sv.resumed => Cfg(c).auth = "none"
           /\ Cfg(c).auth = "require" => sv.peerCert = "proved"
           /\ sv.step \in {"SEND_TICKET", "RESUME_SEND_TICKET"} => ~ sv.issued
<1>1. CASE sv.step \in {"SEND_TICKET", "SEND_CCS", "SEND_FINISHED"}
  BY <1>1 DEF ServerLocal, ServerOpening, ServerSentCert, ServerResumes, ServerIssued, ServerProved
<1>2. CASE sv.step \in {"RESUME_SEND_TICKET", "RESUME_SEND_CCS", "RESUME_SEND_FINISHED"}
  BY <1>2 DEF ServerLocal, ServerOpening, ServerSentCert, ServerResumes, ServerIssued, ServerProved
<1> QED
  BY <1>1, <1>2

LEMMA ServerOnward ==
    ASSUME NEW c, NEW sv, NEW s2, ServerLocal(c, sv),
           sv.step \in {"SEND_TICKET", "RESUME_SEND_TICKET", "SEND_CCS", "RESUME_SEND_CCS"},
           s2.step \in (IF sv.resumed THEN {"RESUME_SEND_CCS", "RESUME_SEND_FINISHED"}
                        ELSE {"SEND_CCS", "SEND_FINISHED"}),
           DOMAIN s2 = ServerFields, GoesOn(sv.tr, s2.tr), Full(s2.tr) => Full(sv.tr),
           OwnTicket(c, s2.tr), s2.issued \in BOOLEAN, ~ s2.issued => NoTicket(s2.tr),
           s2.resumed = sv.resumed, s2.ems = sv.ems, s2.why = sv.why, s2.peerCert = sv.peerCert
    PROVE  ServerLocal(c, s2)
<1>1. /\ ShowsEms(sv.tr, sv.ems) /\ sv.why = "none" /\ sv.resumed \in BOOLEAN
      /\ Full(sv.tr) <=> ~ sv.resumed
      /\ sv.resumed => Cfg(c).auth = "none"
      /\ Cfg(c).auth = "require" => sv.peerCert = "proved"
  BY ServerFinishing
<1>2. IsSeq(s2.tr) /\ ShowsEms(s2.tr, s2.ems) /\ (Full(s2.tr) <=> ~ sv.resumed)
  BY <1>1 DEF GoesOn
<1>3. CASE sv.resumed
  BY <1>1, <1>2, <1>3
     DEF ServerLocal, ServerSteps, ServerSendSteps, ServerOpening, ServerGreets, ServerSentCert,
         ServerResumes, ServerIssued, ServerProved
<1>4. CASE ~ sv.resumed
  BY <1>1, <1>2, <1>4
     DEF ServerLocal, ServerSteps, ServerSendSteps, ServerOpening, ServerGreets, ServerSentCert,
         ServerResumes, ServerIssued, ServerProved
<1> QED
  BY <1>3, <1>4

LEMMA SendNewSessionTicketInv ==
    ASSUME Inv, NEW c \in Conns, SendNewSessionTicket(c)
    PROVE  Inv'
<1> DEFINE sv == server[c]
           next == [sv EXCEPT !.step = IF sv.resumed THEN "RESUME_SEND_CCS" ELSE "SEND_CCS"]
           nst == [type |-> "NewSessionTicket", ticket |-> c]
           entry == [ticket |-> c, master |-> sv.master, suite |-> sv.suite, ems |-> sv.ems,
                     name |-> sv.hello.name, alpn |-> sv.hello.alpn,
                     identity |-> Cfg(c).identity, expired |-> FALSE]
           s3 == [Heard(next, nst) EXCEPT !.issued = TRUE]
<1>1. /\ sv.step \in {"SEND_TICKET", "RESUME_SEND_TICKET"}
      /\ setting' = setting /\ session' = session /\ client' = client /\ c2s' = c2s
  BY DEF SendNewSessionTicket, ServerIn
<1>2. ServerLocal(c, sv) /\ PairOK(client[c], sv) /\ ByConn(s2c) /\ ByConn(c2s)
  BY DEF Inv
<1>3. /\ DOMAIN sv = ServerFields /\ IsSeq(sv.tr) /\ sv.resumed \in BOOLEAN /\ sv.issued = FALSE
      /\ OwnTicket(c, sv.tr) /\ NoTicket(sv.tr)
  <2> HIDE DEF sv
  <2> QED
    BY <1>1, <1>2, ServerFinishing
<1>4. /\ DOMAIN next = ServerFields
      /\ next.step = (IF sv.resumed THEN "RESUME_SEND_CCS" ELSE "SEND_CCS")
      /\ next.tr = sv.tr /\ next.resumed = sv.resumed /\ next.issued = sv.issued
      /\ next.ems = sv.ems /\ next.why = sv.why /\ next.peerCert = sv.peerCert
  BY <1>3 DEF ServerFields
<1>5. CASE sv.hello.ticketExt
  <2>1. /\ cache' = TicketCacheStore(entry) /\ server' = [server EXCEPT ![c] = s3]
        /\ s2c' = [s2c EXCEPT ![c] = s2c[c] \o <<nst>>]
    BY <1>5 DEF SendNewSessionTicket, ServerBecomes, ServerSends
  <2>2. /\ DOMAIN s3 = ServerFields /\ s3.step = next.step /\ s3.tr = Append(next.tr, nst)
        /\ s3.resumed = next.resumed /\ s3.issued = TRUE
        /\ s3.ems = next.ems /\ s3.why = next.why /\ s3.peerCert = next.peerCert
    <3> HIDE DEF next, nst
    <3> QED
      BY <1>4 DEF Heard, ServerFields
  <2>3. nst.type = "NewSessionTicket" /\ nst.ticket = c /\ DOMAIN nst = {"type", "ticket"}
    OBVIOUS
  <2>4. "ticket" \in DOMAIN entry /\ entry.ticket = c
    OBVIOUS
  <2> HIDE DEF s3, next, nst, entry
  <2>5. /\ GoesOn(sv.tr, Append(sv.tr, nst)) /\ OwnTicket(c, Append(sv.tr, nst))
        /\ Full(Append(sv.tr, nst)) => Full(sv.tr)
    BY <1>3, <2>3, AppendGoesOn, AppendTicket, AppendFull
  <2>6. ServerLocal(c, s3)
    <3> HIDE DEF sv
    <3> QED
      BY <1>1, <1>2, <1>3, <1>4, <2>2, <2>5, ServerOnward
  <2>7. ServerKeeps(sv, s3) /\ s3.step \notin {"RECV_CH", "CONNECTED"}
    BY <1>1, <1>3, <1>4, <2>2 DEF ServerKeeps, ServerFinished
  <2>8. S2cOK(c, <<nst>>, s3)
    BY <2>3, SeqOne DEF S2cOK, FromServer
  <2>9. PairOK(client[c], s3)
    BY <1>2, <2>7, PairKeptByServer
  <2>10. CacheOK'
    BY <1>3, <2>1, <2>2, <2>4, CacheStores
  <2> QED
    BY <1>1, <2>1, <2>6, <2>7, <2>8, <2>9, <2>10, ServerSaysInv
<1>6. CASE ~ sv.hello.ticketExt
  <2>1. server' = [server EXCEPT ![c] = next] /\ cache' = cache /\ s2c' = s2c
    BY <1>6 DEF SendNewSessionTicket, ServerBecomes
  <2> HIDE DEF next
  <2>2. GoesOn(sv.tr, sv.tr)
    BY <1>3 DEF GoesOn
  <2>3. ServerLocal(c, next)
    <3> HIDE DEF sv
    <3> QED
      BY <1>1, <1>2, <1>3, <1>4, <2>2, ServerOnward
  <2>4. ServerKeeps(sv, next) /\ next.step \notin {"RECV_CH", "CONNECTED"}
    BY <1>1, <1>3, <1>4 DEF ServerKeeps, ServerFinished
  <2>5. PairOK(client[c], next)
    BY <1>2, <2>4, PairKeptByServer
  <2>6. CacheOK'
    BY <2>1, <2>4, CacheKept
  <2>7. c2s' = [c2s EXCEPT ![c] = c2s[c]]
    BY <1>1, <1>2, Update
  <2> QED
    BY <1>1, <2>1, <2>3, <2>4, <2>5, <2>6, <2>7, ServerReads
<1> QED
  BY <1>5, <1>6

LEMMA SendServerChangeCipherSpecInv ==
    ASSUME Inv, NEW c \in Conns, SendServerChangeCipherSpec(c)
    PROVE  Inv'
<1> DEFINE sv == server[c]
           ccs == Msg("ChangeCipherSpec")
           s2 == [sv EXCEPT !.step = IF sv.resumed THEN "RESUME_SEND_FINISHED" ELSE "SEND_FINISHED"]
<1>1. /\ sv.step \in {"SEND_CCS", "RESUME_SEND_CCS"} /\ server' = [server EXCEPT ![c] = s2]
      /\ s2c' = [s2c EXCEPT ![c] = s2c[c] \o <<ccs>>]
      /\ setting' = setting /\ session' = session /\ cache' = cache /\ client' = client /\ c2s' = c2s
  BY DEF SendServerChangeCipherSpec, ServerIn, ServerBecomes, ServerSends, stores
<1>2. ServerLocal(c, sv) /\ PairOK(client[c], sv)
  BY DEF Inv
<1>3. /\ DOMAIN sv = ServerFields /\ IsSeq(sv.tr) /\ sv.resumed \in BOOLEAN /\ sv.issued \in BOOLEAN
      /\ OwnTicket(c, sv.tr) /\ (~ sv.issued => NoTicket(sv.tr))
  <2> HIDE DEF sv
  <2> QED
    BY <1>1, <1>2, ServerFinishing
<1>4. /\ DOMAIN s2 = ServerFields
      /\ s2.step = (IF sv.resumed THEN "RESUME_SEND_FINISHED" ELSE "SEND_FINISHED")
      /\ s2.tr = sv.tr /\ s2.resumed = sv.resumed /\ s2.issued = sv.issued
      /\ s2.ems = sv.ems /\ s2.why = sv.why /\ s2.peerCert = sv.peerCert
      /\ s2.master = sv.master /\ s2.suite = sv.suite
  BY <1>3 DEF ServerFields
<1>5. ccs.type = "ChangeCipherSpec"
  BY DEF Msg
<1> HIDE DEF s2, ccs
<1>6. GoesOn(sv.tr, sv.tr)
  BY <1>3 DEF GoesOn
<1>7. ServerLocal(c, s2)
  <2> HIDE DEF sv
  <2> QED
    BY <1>1, <1>2, <1>3, <1>4, <1>6, ServerOnward
<1>8. ServerKeeps(sv, s2) /\ s2.step \notin {"RECV_CH", "CONNECTED"}
  BY <1>1, <1>3, <1>4 DEF ServerKeeps, ServerFinished
<1>9. S2cOK(c, <<ccs>>, s2)
  BY <1>5, SeqOne DEF S2cOK, FromServer
<1>10. PairOK(client[c], s2)
  BY <1>2, <1>8, PairKeptByServer
<1>11. CacheOK'
  BY <1>1, <1>8, CacheKept
<1> QED
  BY <1>1, <1>7, <1>8, <1>9, <1>10, <1>11, ServerSaysInv

LEMMA SendServerFinishedInv ==
    ASSUME Inv, NEW c \in Conns, SendServerFinished(c)
    PROVE  Inv'
<1> DEFINE sv == server[c]
           fin == Finished(sv)
           s2 == [Heard(sv, fin) EXCEPT !.step = IF sv.resumed THEN "RESUME_RECV_CCS" ELSE "CONNECTED"]
<1>1. /\ sv.step \in {"SEND_FINISHED", "RESUME_SEND_FINISHED"} /\ server' = [server EXCEPT ![c] = s2]
      /\ s2c' = [s2c EXCEPT ![c] = s2c[c] \o <<fin>>]
      /\ setting' = setting /\ session' = session /\ cache' = cache /\ client' = client /\ c2s' = c2s
  BY DEF SendServerFinished, ServerIn, ServerBecomes, ServerSends, stores
<1>2. ServerLocal(c, sv) /\ PairOK(client[c], sv)
  BY DEF Inv
<1>3. /\ DOMAIN sv = ServerFields /\ IsSeq(sv.tr) /\ ShowsEms(sv.tr, sv.ems) /\ sv.why = "none"
      /\ sv.resumed \in BOOLEAN /\ sv.issued \in BOOLEAN
      /\ OwnTicket(c, sv.tr) /\ (~ sv.issued => NoTicket(sv.tr))
      /\ Full(sv.tr) <=> ~ sv.resumed
      /\ sv.resumed => Cfg(c).auth = "none"
      /\ Cfg(c).auth = "require" => sv.peerCert = "proved"
  <2> HIDE DEF sv
  <2> QED
    BY <1>1, <1>2, ServerFinishing
<1>4. fin.type = "Finished" /\ fin.over = sv.tr /\ fin.master = sv.master /\ fin.suite = sv.suite
  BY DEF Finished
<1>5. /\ DOMAIN s2 = ServerFields
      /\ s2.step = (IF sv.resumed THEN "RESUME_RECV_CCS" ELSE "CONNECTED")
      /\ s2.tr = Append(sv.tr, fin) /\ s2.resumed = sv.resumed /\ s2.issued = sv.issued
      /\ s2.ems = sv.ems /\ s2.why = sv.why /\ s2.peerCert = sv.peerCert
      /\ s2.master = sv.master /\ s2.suite = sv.suite
  BY <1>3 DEF ServerFields, Heard
<1> HIDE DEF s2, fin
<1>6. /\ IsSeq(s2.tr) /\ ShowsEms(s2.tr, s2.ems) /\ (Full(s2.tr) <=> ~ sv.resumed)
      /\ OwnTicket(c, s2.tr) /\ (~ s2.issued => NoTicket(s2.tr))
  <2>1. GoesOn(sv.tr, Append(sv.tr, fin)) /\ (~ Full(sv.tr) => ~ Full(Append(sv.tr, fin)))
    BY <1>3, <1>4, AppendGoesOn, AppendFull
  <2>2. OwnTicket(c, Append(sv.tr, fin)) /\ (NoTicket(sv.tr) => NoTicket(Append(sv.tr, fin)))
    BY <1>3, <1>4, AppendTicket
  <2> QED
    BY <1>3, <1>5, <2>1, <2>2 DEF GoesOn
<1>7. ServerLocal(c, s2)
  <2>1. CASE sv.resumed
    BY <1>3, <1>5, <1>6, <2>1
       DEF ServerLocal, ServerSteps, ServerReadSteps, ServerOpening, ServerGreets,
           ServerSentCert, ServerResumes, ServerIssued, ServerProved
  <2>2. CASE ~ sv.resumed
    BY <1>3, <1>5, <1>6, <2>2
       DEF ServerLocal, ServerSteps, Final, ServerOpening, ServerGreets,
           ServerSentCert, ServerResumes, ServerIssued, ServerProved
  <2> QED
    BY <2>1, <2>2
<1>8. ServerKeeps(sv, s2) /\ s2.step # "RECV_CH"
  BY <1>1, <1>5 DEF ServerKeeps, ServerFinished
<1>9. S2cOK(c, <<fin>>, s2)
  <2>1. FromServer(c, fin, s2)
    <3>1. CASE sv.resumed
      BY <1>3, <1>4, <1>5, <3>1 DEF FromServer, ServerFinished
    <3>2. CASE ~ sv.resumed
      BY <1>3, <1>4, <1>5, <3>2 DEF FromServer
    <3> QED
      BY <3>1, <3>2
  <2> QED
    BY <2>1, SeqOne DEF S2cOK
<1>10. PairOK(client[c], s2)
  <2>1. CASE sv.resumed
    <3>1. s2.step # "CONNECTED"
      BY <1>5, <2>1
    <3> QED
      BY <1>2, <1>8, <3>1, PairKeptByServer
  <2>2. CASE ~ sv.resumed
    <3>1. ~ s2.resumed /\ sv.step # "CONNECTED"
      BY <1>1, <1>5, <2>2
    <3> QED
      BY <1>2, <2>2, <3>1 DEF PairOK, ClientVerified
  <2> QED
    BY <2>1, <2>2
<1>11. CacheOK'
  BY <1>1, <1>8, CacheKept
<1> QED
  BY <1>1, <1>7, <1>8, <1>9, <1>10, <1>11, ServerSaysInv

-----------------------------------------------------------------------------
(* The environment *)

LEMMA TicketDamagedInv ==
    ASSUME Inv, NEW c \in Conns, TicketDamaged(c)
    PROVE  Inv'
<1> DEFINE q == s2c[c]
           sv == server[c]
<1>1. PICK i \in DOMAIN q : /\ q[i].type = "NewSessionTicket"
                            /\ s2c' = [s2c EXCEPT ![c][i].ticket = "foreign"]
  BY DEF TicketDamaged
<1>2. /\ setting' = setting /\ session' = session /\ cache' = cache /\ client' = client
      /\ server' = server /\ c2s' = c2s
  BY DEF TicketDamaged, stores
<1>3. /\ ByConn(s2c) /\ ByConn(c2s) /\ ByConn(server) /\ ServerLocal(c, sv)
      /\ C2sOK(c, c2s[c], client[c]) /\ S2cOK(c, q, sv) /\ CacheOK
      /\ OpeningOK(client[c], sv, c2s[c], q) /\ PairOK(client[c], sv)
  BY DEF Inv
<1> DEFINE m == [q[i] EXCEPT !.ticket = "foreign"]
           q2 == [q EXCEPT ![i] = m]
<1>4. s2c' = [s2c EXCEPT ![c] = q2]
  BY <1>1
<1>5. IsSeq(q) /\ Len(q) \in Nat /\ DOMAIN q = 1 .. Len(q)
  <2>1. q \in Seq({ q[j] : j \in DOMAIN q })
    BY <1>3 DEF S2cOK, IsSeq
  <2> HIDE DEF q
  <2> QED
    BY <2>1, SeqOver
<1>6. DOMAIN q[i] = {"type", "ticket"} /\ \A j \in DOMAIN q : FromServer(c, q[j], sv)
  BY <1>1, <1>3 DEF S2cOK, FromServer
<1>7. DOMAIN m = {"type", "ticket"} /\ m.type = "NewSessionTicket"
  BY <1>1, <1>6
<1> HIDE DEF m, q
<1>8. /\ q2 = [j \in 1 .. Len(q) |-> q2[j]] /\ DOMAIN q2 = 1 .. Len(q) /\ q2[i] = m
      /\ \A j \in 1 .. Len(q) : j # i => q2[j] = q[j]
  <2>1. q = [j \in 1 .. Len(q) |-> q[j]]
    BY <1>5, SeqOver DEF IsSeq
  <2> QED
    BY <1>1, <1>5, <2>1
<1> HIDE DEF q2
<1>9. S2cOK(c, q2, sv)
  <2>1. FromServer(c, m, sv)
    BY <1>7 DEF FromServer
  <2>2. \A j \in DOMAIN q2 : FromServer(c, q2[j], sv)
    BY <1>5, <1>6, <1>8, <2>1
  <2>3. IsSeq(q2)
    BY <1>5, <1>8 DEF IsSeq
  <2> QED
    BY <2>2, <2>3 DEF S2cOK
<1>10. sv.step # "RECV_CH"
  <2>1. q # << >>
    BY <1>1, <1>5
  <2> QED
    BY <1>3, <2>1 DEF OpeningOK
<1>11. OpeningOK(client[c], sv, c2s[c], q2)
  BY <1>10 DEF OpeningOK
<1>12. CacheOK'
  BY <1>2, <1>3 DEF CacheOK
<1>13. ServerKeeps(sv, sv)
  BY DEF ServerKeeps
<1>14. server' = [server EXCEPT ![c] = sv] /\ c2s' = [c2s EXCEPT ![c] = c2s[c]]
  BY <1>2, <1>3, Update
<1> HIDE DEF sv
<1> QED
  BY <1>2, <1>3, <1>4, <1>9, <1>11, <1>12, <1>13, <1>14, ServerMoves DEF sv

(* Only the stores change *)
LEMMA StoresChange ==
    ASSUME Inv, setting' = setting, client' = client, server' = server, c2s' = c2s, s2c' = s2c,
           session' \in {session, NoSession}, CacheOK'
    PROVE  Inv'
<1>1. \A d \in Conns : Cfg(d)' = Cfg(d)
  BY DEF Cfg
<1>2. ASSUME NEW d \in Conns
      PROVE  /\ ClientLocal(d, client[d])' /\ ServerLocal(d, server[d])'
             /\ C2sOK(d, c2s[d], client[d])' /\ S2cOK(d, s2c[d], server[d])'
             /\ OpeningOK(client[d], server[d], c2s[d], s2c[d])'
             /\ PairOK(client[d], server[d])' /\ OfferOK(d)'
  <2>1. ClientLocal(d, client[d])' /\ ServerLocal(d, server[d])'
    BY <1>1 DEF Inv, ClientLocal, ServerLocal
  <2>2. C2sOK(d, c2s[d], client[d])' /\ S2cOK(d, s2c[d], server[d])'
    BY <1>1 DEF Inv, C2sOK, S2cOK, FromClient, FromServer
  <2>3. OfferOK(d)'
    BY <1>1 DEF Inv, OfferOK, Vouched, TicketFor
  <2> QED
    BY <2>1, <2>2, <2>3 DEF Inv, OpeningOK, PairOK, SameHandshake
<1>3. NoSession.ticket = "none"
  BY DEF NoSession
<1>4. StoreOK'
  BY <1>1, <1>3 DEF Inv, StoreOK, Vouched, TicketFor
<1>5. StoreGenuine'
  BY <1>1, <1>3 DEF Inv, StoreGenuine
<1>6. Forgotten'
  <2>1. \A d \in Conns : client[d].at = "RESUME_RECV_FINISHED" => client[d].offered # "none"
    BY DEF Inv, ClientLocal
  <2> QED
    BY <1>3, <2>1 DEF Inv, Forgotten
<1> QED
  BY <1>2, <1>4, <1>5, <1>6 DEF Inv, ByConn

LEMMA TicketExpiresInv ==
    ASSUME Inv, NEW i \in DOMAIN cache, TicketExpires(i)
    PROVE  Inv'
<1>1. /\ cache[i] # NoEntry /\ cache' = [cache EXCEPT ![i].expired = TRUE]
      /\ setting' = setting /\ session' = session /\ client' = client /\ server' = server
      /\ c2s' = c2s /\ s2c' = s2c
  BY DEF TicketExpires, Live
<1>2. CacheOK /\ DOMAIN cache = 1 .. TicketSlots
  BY DEF Inv, CacheOK
<1>3. /\ DOMAIN cache'[i] = DOMAIN cache[i] /\ cache'[i].ticket = cache[i].ticket
      /\ \A j \in 1 .. TicketSlots : j # i => cache'[j] = cache[j]
      /\ cache' = [j \in 1 .. TicketSlots |-> cache'[j]]
  BY <1>1, <1>2 DEF CacheOK
<1>4. /\ \A j \in 1 .. TicketSlots :
           /\ "ticket" \in DOMAIN cache'[j]
           /\ cache'[j] = NoEntry \/ cache'[j].ticket \in Conns \cup {"prior"}
           /\ cache'[j].ticket = cache[j].ticket
  BY <1>1, <1>2, <1>3 DEF CacheOK
<1>5. CacheOK'
  BY <1>1, <1>2, <1>3, <1>4 DEF CacheOK
<1> QED
  BY <1>1, <1>5, StoresChange

LEMMA SessionStoresClearInv ==
    ASSUME Inv, NEW process \in {"client", "server"}, SessionStoresClear(process)
    PROVE  Inv'
<1>1. /\ setting' = setting /\ client' = client /\ server' = server
      /\ c2s' = c2s /\ s2c' = s2c /\ session' \in {session, NoSession}
      /\ cache' \in {cache, [i \in DOMAIN cache |-> NoEntry]}
  BY DEF SessionStoresClear
<1>2. NoEntry.ticket = "none" /\ "ticket" \in DOMAIN NoEntry /\ "none" \notin Conns
  BY DEF NoEntry, Conns
<1>3. CacheOK /\ DOMAIN cache = 1 .. TicketSlots
  BY DEF Inv, CacheOK
<1>4. CacheOK'
  <2>1. CASE cache' = cache
    BY <1>1, <1>3, <2>1 DEF CacheOK
  <2>2. CASE cache' = [i \in 1 .. TicketSlots |-> NoEntry]
    BY <1>2, <2>2 DEF CacheOK
  <2> QED
    BY <1>1, <1>3, <2>1, <2>2
<1> QED
  BY <1>1, <1>4, StoresChange

-----------------------------------------------------------------------------
(* The invariant *)

LEMMA InitInv == Init => Inv
<1> SUFFICES ASSUME Init PROVE Inv
  OBVIOUS
<1>1. setting \in Settings /\ ByConn(client) /\ ByConn(server) /\ ByConn(c2s) /\ ByConn(s2c)
  BY DEF Init, ByConn
<1>2. ASSUME NEW c \in Conns
      PROVE  /\ ClientLocal(c, client[c]) /\ ServerLocal(c, server[c])
             /\ C2sOK(c, c2s[c], client[c]) /\ S2cOK(c, s2c[c], server[c])
             /\ OpeningOK(client[c], server[c], c2s[c], s2c[c])
             /\ PairOK(client[c], server[c]) /\ OfferOK(c)
  <2>1. /\ DOMAIN client[c] = ClientFields /\ client[c].step = "SEND_CH" /\ client[c].tr = << >>
        /\ client[c].offered = "none" /\ client[c].resumed = FALSE /\ client[c].nst = FALSE
        /\ client[c].why = "none" /\ client[c].at = "none"
    BY DEF Init, ClientFields
  <2>2. /\ DOMAIN server[c] = ServerFields /\ server[c].step = "RECV_CH" /\ server[c].tr = << >>
        /\ server[c].resumed = FALSE /\ server[c].issued = FALSE /\ server[c].why = "none"
    BY DEF Init, ServerFields
  <2>3. c2s[c] = << >> /\ s2c[c] = << >> /\ IsSeq(<< >>) /\ DOMAIN << >> = {}
    BY SeqShort DEF Init
  <2>4. ClientLocal(c, client[c])
    BY <2>1, <2>3
       DEF ClientLocal, ClientSteps, ClientOpening, ClientHearsTicket, ClientVerified,
           ClientHeardCert, ClientResumes, ClientKeyed
  <2>5. ServerLocal(c, server[c])
    BY <2>2, <2>3
       DEF ServerLocal, ServerSteps, ServerOpening, ServerGreets, ServerSentCert, ServerResumes,
           ServerIssued, ServerProved, OwnTicket, NoTicket
  <2>6. C2sOK(c, c2s[c], client[c]) /\ S2cOK(c, s2c[c], server[c])
    BY <2>3 DEF C2sOK, S2cOK
  <2>7. /\ OpeningOK(client[c], server[c], c2s[c], s2c[c])
        /\ PairOK(client[c], server[c]) /\ OfferOK(c)
    BY <2>1, <2>2, <2>3 DEF OpeningOK, PairOK, OfferOK, ClientVerified, ClientKeyed, ClientResumes
  <2> QED
    BY <2>4, <2>5, <2>6, <2>7
<1>3. PriorMaster.of = "prior" /\ (setting.prior.ems <=> PriorMaster.hash # << >>)
  <2>1. <<[type |-> "prior"]>> # << >>
    OBVIOUS
  <2>2. setting.prior.ems \in BOOLEAN
    BY <1>1, SettingAssumption
  <2> QED
    BY <2>1, <2>2 DEF PriorMaster, Master
<1> DEFINE p == setting.prior
           kept == [ticket |-> "prior", master |-> PriorMaster, suite |-> p.suite,
                    ems |-> p.ems, name |-> p.name]
           slot == [ticket |-> "prior", master |-> PriorMaster, suite |-> p.suite,
                    ems |-> p.ems, name |-> p.name, alpn |-> p.alpn,
                    identity |-> p.identity, expired |-> FALSE]
<1>4. /\ session \in {kept, NoSession}
      /\ cache = [i \in 1 .. TicketSlots |-> IF p.name # "none" /\ i = 1 THEN slot ELSE NoEntry]
  BY DEF Init
<1>5. /\ kept.ticket = "prior" /\ kept.master = PriorMaster /\ kept.ems = p.ems
      /\ kept.name = p.name /\ slot.ticket = "prior" /\ "ticket" \in DOMAIN slot
      /\ NoSession.ticket = "none" /\ NoEntry.ticket = "none" /\ "ticket" \in DOMAIN NoEntry
      /\ "none" \notin Conns /\ "prior" \notin Conns
  BY DEF NoSession, NoEntry, Conns
<1> HIDE DEF kept, slot
<1>6. StoreOK /\ StoreGenuine
  BY <1>3, <1>4, <1>5 DEF StoreOK, StoreGenuine, TicketFor, Vouched
<1>7. Forgotten
  BY DEF Init, Forgotten
<1>8. CacheOK
  BY <1>4, <1>5 DEF CacheOK
<1> QED
  BY <1>1, <1>2, <1>6, <1>7, <1>8 DEF Inv

LEMMA NextInv == Inv /\ [Next]_vars => Inv'
<1> SUFFICES ASSUME Inv, [Next]_vars PROVE Inv'
  OBVIOUS
<1>1. ASSUME NEW c \in Conns, ClientStep(c) PROVE Inv'
  BY <1>1, SendClientHelloInv, PeekResumeInv, ClientReceivesInv, ReceiveCertificateRequestInv,
     SendClientFlightInv, ReceiveFinishedInv, SendResumedFinishedInv, ClientSeesEndInv
     DEF ClientStep
<1>2. ASSUME NEW c \in Conns, ServerStep(c) PROVE Inv'
  BY <1>2, ReceiveClientHelloInv, CheckSniInv, SendServerHelloInv, SendServerFlightInv,
     ServerReceivesInv, SendNewSessionTicketInv, SendServerChangeCipherSpecInv,
     SendServerFinishedInv, ServerSeesEndInv
     DEF ServerStep
<1>3. ASSUME NEW c \in Conns, ServerAborts(c) \/ TicketDamaged(c) PROVE Inv'
  BY <1>3, ServerSeesEndInv, TicketDamagedInv
<1>4. ASSUME NEW i \in DOMAIN cache, TicketExpires(i) PROVE Inv'
  BY <1>4, TicketExpiresInv
<1>5. ASSUME NEW process \in {"client", "server"}, SessionStoresClear(process) PROVE Inv'
  BY <1>5, SessionStoresClearInv
<1>6. CASE UNCHANGED vars
  <2>1. /\ setting' = setting /\ client' = client /\ server' = server /\ c2s' = c2s
        /\ s2c' = s2c /\ session' = session /\ cache' = cache
    BY <1>6 DEF vars
  <2>2. CacheOK'
    BY <2>1 DEF Inv, CacheOK
  <2> QED
    BY <2>1, <2>2, StoresChange
<1> QED
  BY <1>1, <1>2, <1>3, <1>4, <1>5, <1>6 DEF Next

(* The transcripts, messages, stores and connections of every reachable     *)
(* state of the TLS 1.2 client and server (tls12_connect_poll_steps,        *)
(* tls12_accept_poll_steps) are related as Inv says.                        *)
THEOREM SessionsInvariant == Spec => []Inv
  BY InitInv, NextInv, PTL DEF Spec

-----------------------------------------------------------------------------
(* What the runs check *)

(* Contexts and stores keep their types, the ticket cache its size, and no  *)
(* ticket is ever in two of its slots (tls12_ticket_cache_store), however   *)
(* many connections store and evict.                                        *)
THEOREM SessionsTypeCorrect == Spec => []TypeOK
<1>1. Inv => TypeOK
  <2> SUFFICES ASSUME Inv PROVE TypeOK
    OBVIOUS
  <2>1. NoEntry.ticket = "none" /\ "foreign" \notin Conns /\ CacheOK
    BY DEF NoEntry, Conns, Inv
  <2>2. session.ticket \in Tickets
    BY DEF Inv, StoreOK, TicketFor, Tickets
  <2>3. DOMAIN cache = 1 .. TicketSlots
    BY <2>1 DEF CacheOK
  <2>4. \A i \in DOMAIN cache : cache[i].ticket \in Tickets \ {"foreign"}
    BY <2>1, <2>3 DEF CacheOK, Tickets
  <2>5. \A i, j \in DOMAIN cache :
           Live(i) /\ Live(j) /\ cache[i].ticket = cache[j].ticket => i = j
    <3>1. \A i \in DOMAIN cache : Live(i) => cache[i].ticket # "none"
      BY <2>1, <2>3 DEF CacheOK, Live, Conns
    <3> QED
      BY <2>1, <2>3, <3>1 DEF CacheOK
  <2>6. \A c \in Conns :
           /\ client[c].step \in ClientSteps
           /\ server[c].step \in ServerReadSteps \cup ServerSendSteps \cup Final \cup {"RECV_CH"}
           /\ client[c].step = "CLOSED" <=> client[c].why # "none"
           /\ server[c].step = "CLOSED" <=> server[c].why # "none"
    BY DEF Inv, ClientLocal, ServerLocal, ServerSteps
  <2> QED
    BY <2>2, <2>3, <2>4, <2>5, <2>6 DEF TypeOK
<1> QED
  BY <1>1, SessionsInvariant, PTL

(* Two connected ends went through the same handshake: the Finished each    *)
(* end verified (noxtls_tls12_recv_finished, ..._recv_finished_client)      *)
(* leaves no room for one side full and the other abbreviated, whatever the *)
(* other connections did to the two stores meanwhile.                       *)
THEOREM SessionEndsAgree == Spec => []Agreement
<1>1. Inv => Agreement
  <2> SUFFICES ASSUME Inv, NEW c \in Conns,
                      client[c].step = "CONNECTED", server[c].step = "CONNECTED"
               PROVE  SameHandshake(client[c], server[c])
    BY DEF Agreement, SameHandshake, ClientIn, ServerIn
  <2>1. PairOK(client[c], server[c])
    BY DEF Inv
  <2> QED
    BY <2>1 DEF PairOK, ClientVerified
<1> QED
  BY <1>1, SessionsInvariant, PTL

(* A resumed connection loses neither the certificate check of its name,    *)
(* nor a client certificate the server requires, nor the extended master    *)
(* secret it offered (tls12_server_resumption_allowed,                      *)
(* tls12_resume_ems_policy, tls12_client_session_was_offered).              *)
THEOREM ResumingLosesNothing == Spec => []NothingLostByResuming
<1>1. Inv => PeersAuthenticated
  <2> SUFFICES ASSUME Inv, NEW c \in Conns
               PROVE  /\ client[c].step = "CONNECTED" =>
                           IF client[c].master.of = "prior" THEN setting.prior.name = Cfg(c).name
                           ELSE /\ client[client[c].master.of].peerCert
                                /\ Cfg(client[c].master.of).name = Cfg(c).name
                      /\ server[c].step = "CONNECTED" /\ Cfg(c).auth = "require" =>
                           server[c].peerCert = "proved"
    BY DEF PeersAuthenticated, ClientIn, ServerIn
  <2>1. OfferOK(c) /\ ServerLocal(c, server[c])
    BY DEF Inv
  <2>2. "prior" \notin Conns
    BY DEF Conns
  <2> QED
    BY <2>1, <2>2 DEF OfferOK, Vouched, ClientKeyed, ServerLocal, ServerProved
<1>2. Inv => EmsKept
  BY DEF Inv, EmsKept, ClientIn, ClientLocal, ClientKeyed, ClientOpening
<1> QED
  BY <1>1, <1>2, SessionsInvariant, PTL DEF NothingLostByResuming

(* What g_tls12_client_session holds is a ticket the server issued, with    *)
(* the secret, suite and name it was issued with, although the message that *)
(* carries it may be changed in transit; and a session whose resumption     *)
(* failed is not offered again (noxtls_tls12_recv_finished).                *)
THEOREM StoreIsSound == Spec => []StoreSound
<1>1. Inv => FailedResumeForgotten
  BY DEF Inv, Forgotten, FailedResumeForgotten
<1>2. Inv => StoreGenuine
  BY DEF Inv
<1> QED
  BY <1>1, <1>2, SessionsInvariant, PTL DEF StoreSound

=============================================================================
