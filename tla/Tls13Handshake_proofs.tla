------------------------ MODULE Tls13Handshake_proofs ------------------------
(***************************************************************************)
(* Proofs about Tls13Handshake, for every set of scenarios and both bounds  *)
(* on early data.  What one end knows of the other it knows from records:   *)
(* a Finished covers the whole transcript, and every negotiated value (the  *)
(* PSK, early data, the point where the application keys were derived) can   *)
(* be read off the transcript.  So the invariant says, for each end, where   *)
(* in its transcript its own values stand, and, for the records in transit,  *)
(* what their sender was when it sent them.                                 *)
(***************************************************************************)
EXTENDS Tls13Handshake, TLAPS

-----------------------------------------------------------------------------
(* Shapes.  Messages have no common type (a hello holds binders, which hold *)
(* transcripts), so a sequence is one over its own elements.                *)

IsSeq(s) == s \in Seq({ s[i] : i \in DOMAIN s })

ClientFields ==
    {"step", "tr", "shares", "hrr", "offeredEarly", "earlyKey", "psk", "hsKey", "appKey",
     "earlyAccepted", "authRequested", "eoedSent", "ccsSeen", "early", "peerCert",
     "resumption", "ticket", "why"}
ServerFields ==
    {"step", "tr", "sentHrr", "hrrGroup", "offeredEarly", "psk", "useDhe", "group", "pskKey",
     "store", "earlyKey", "hsKey", "appKey", "eoedSeen", "eoedAppended", "ccsSeen", "early",
     "peerCert", "resumption", "why"}

KeyOf(k, level) ==
    /\ DOMAIN k = {"level", "psk", "dhe", "tr"} /\ k.level \in {"plain", level}
    /\ k.level = "plain" => k = Plain

ClientSteps == ClientReadSteps \cup ClientSendSteps \cup {"CONNECTED", "CLOSED"}
ServerSteps == ServerReadSteps \cup ServerSendSteps \cup {"CONNECTED", "CLOSED"}

EndShape(e) ==
    /\ IsSeq(e.tr)
    /\ KeyOf(e.earlyKey, "early") /\ KeyOf(e.hsKey, "handshake")
    /\ KeyOf(e.appKey, "application") /\ KeyOf(e.resumption, "resumption")
    /\ e.why \in Causes /\ (e.step = "CLOSED" <=> e.why # "none")
    /\ e.ccsSeen \in 0 .. 2

ClientShape(cl) ==
    /\ DOMAIN cl = ClientFields /\ EndShape(cl)
    /\ cl.step \in ClientSteps /\ cl.early \in 0 .. MaxEarly

ServerShape(sv) ==
    /\ DOMAIN sv = ServerFields /\ EndShape(sv)
    /\ sv.step \in ServerSteps /\ sv.early \in Seq(Nat) /\ Len(sv.early) <= EarlyLimit

-----------------------------------------------------------------------------
(* What the transcript shows *)

Mentions(tr, type) == \E i \in DOMAIN tr : tr[i].type = type

(* The PSK, and whether early data was accepted, as the transcript has them *)
ShowsPsk(tr, psk) ==
    /\ Mentions(tr, "ServerHello")
    /\ \A i \in DOMAIN tr : tr[i].type = "ServerHello" => tr[i].psk = psk
ShowsEarly(tr, early) ==
    /\ Mentions(tr, "EncryptedExtensions")
    /\ \A i \in DOMAIN tr : tr[i].type = "EncryptedExtensions" => tr[i].early = early

(* The application keys are those of the transcript up to the first Finished *)
UpTo(tr, k) == [i \in 1 .. k |-> tr[i]]
ShowsAppKey(tr, hs, app) ==
    \E k \in DOMAIN tr :
        /\ tr[k].type = "Finished" /\ \A i \in 1 .. (k - 1) : tr[i].type # "Finished"
        /\ app = ApplicationSecret(hs, UpTo(tr, k))

PskValid(psk) ==
    \/ psk = "none"
    \/ psk = "ticket" /\ setting.ticket = "known"
    \/ psk = "external" /\ ServerHasExternal

-----------------------------------------------------------------------------
(* The client, by step *)

ClientBeforeSh == {"SEND_CH", "RECV_SH"}
ClientBeforeEe == ClientBeforeSh \cup {"RECV_ENC_EXT"}
ClientBeforeFin == {"SEND_CH"} \cup ClientReadSteps
ClientAuthed == {"RECV_FINISHED", "SEND_CLIENT_AUTH", "SEND_EOED", "SEND_FINISHED", "CONNECTED"}

(* A client that sent its Finished is done, closed afterwards or not *)
Done(e) == e.resumption # Plain

ClientLocal(cl) ==
    /\ ClientShape(cl)
    /\ cl.step \in ClientBeforeSh => ~ Mentions(cl.tr, "ServerHello")
    /\ cl.step \in ClientBeforeEe => ~ Mentions(cl.tr, "EncryptedExtensions")
    /\ cl.step \in ClientBeforeFin => ~ Mentions(cl.tr, "Finished")
    /\ cl.step \notin ClientBeforeSh \cup {"CLOSED"} => ShowsPsk(cl.tr, cl.psk) /\ PskValid(cl.psk)
    /\ cl.step \notin ClientBeforeEe \cup {"CLOSED"} => ShowsEarly(cl.tr, cl.earlyAccepted)
    /\ cl.step \notin ClientBeforeFin \cup {"CLOSED"} => ShowsAppKey(cl.tr, cl.hsKey, cl.appKey)
    /\ cl.step = "RECV_CERT_VERIFY" => setting.serverCert = "good"
    /\ cl.step \in ClientAuthed => cl.psk # "none" \/ (cl.peerCert /\ setting.serverCert = "good")
    /\ cl.step = "CONNECTED" => Done(cl)
    /\ cl.ticket # Plain => Done(cl) /\ cl.ticket = cl.resumption
    /\ Done(cl) =>
         /\ cl.step \in {"CONNECTED", "CLOSED"}
         /\ cl.resumption = ResumptionSecret(cl.hsKey, cl.tr)
         /\ ShowsPsk(cl.tr, cl.psk) /\ ShowsEarly(cl.tr, cl.earlyAccepted)
         /\ ShowsAppKey(cl.tr, cl.hsKey, cl.appKey)

-----------------------------------------------------------------------------
(* The server, by step *)

ServerBeforeSh == {"RECV_CH", "SEND_SH"}
ServerBeforeEe == ServerBeforeSh \cup {"SEND_EE"}
ServerBeforeFin == {"RECV_CH"} \cup (ServerSendSteps \ {"SEND_NST"})

ServerLocal(sv) ==
    /\ ServerShape(sv)
    /\ sv.store => setting.ticket = "known"
    /\ sv.step \in ServerBeforeSh => ~ Mentions(sv.tr, "ServerHello")
    /\ sv.step \in ServerBeforeEe => ~ Mentions(sv.tr, "EncryptedExtensions")
    /\ sv.step \in ServerBeforeFin => ~ Mentions(sv.tr, "Finished")
    /\ sv.step \notin {"RECV_CH", "CLOSED"} => PskValid(sv.psk)
    /\ sv.step \notin ServerBeforeSh \cup {"CLOSED"} => ShowsPsk(sv.tr, sv.psk)
    /\ sv.step \notin ServerBeforeEe \cup {"CLOSED"} => ShowsEarly(sv.tr, AcceptsEarly(sv))
    /\ sv.step \notin ServerBeforeFin \cup {"CLOSED"} => ShowsAppKey(sv.tr, sv.hsKey, sv.appKey)
    /\ sv.step = "RECV_CLIENT_CERT_VERIFY" => setting.clientCert = "good"
    /\ sv.step \in {"RECV_FINISHED", "SEND_NST", "CONNECTED"} /\ setting.auth = "require" =>
           sv.peerCert = "proved" /\ setting.clientCert = "good"
    /\ sv.step \in {"SEND_NST", "CONNECTED"} => Done(sv)
    /\ Done(sv) => sv.step \in {"SEND_NST", "CONNECTED", "CLOSED"}
    /\ sv.step = "RECV_CH" => sv.early = << >>
    /\ sv.step # "CLOSED" /\ ~ AcceptsEarly(sv) => sv.early = << >>
    /\ sv.step \notin {"RECV_CH", "CLOSED"} /\ AcceptsEarly(sv) => ~ sv.sentHrr
    /\ sv.step \notin ServerBeforeSh \cup {"CLOSED"} /\ AcceptsEarly(sv) =>
           sv.earlyKey.level = "early"

-----------------------------------------------------------------------------
(* Records in transit *)

FromClient(rec, cl) ==
    /\ rec.key.level \in Secrets
    /\ rec.key.level = "early" => rec.msg.type = "data"
    /\ rec.msg.type = "ClientHello" => rec.msg.psks = OfferedPsks
    /\ rec.msg.type = "Certificate" => rec.msg.cert = setting.clientCert
    /\ rec.msg.type = "Finished" =>
         Done(cl) /\ rec.key = cl.hsKey /\ cl.tr = Append(rec.verify, rec.msg)

FromServer(rec, sv) ==
    /\ rec.key.level \in Secrets
    /\ rec.msg.type = "ServerHello" => PskValid(rec.msg.psk)
    /\ rec.msg.type = "NewSessionTicket" => Done(sv)

C2sOK(q, cl) ==
    /\ IsSeq(q)
    /\ \A i \in DOMAIN q : FromClient(q[i], cl) /\ (q[i].msg.type = "Finished" => i = Len(q))
S2cOK(q, sv) == IsSeq(q) /\ \A i \in DOMAIN q : FromServer(q[i], sv)

(* The early records of q carry n+1 .. m, each once and in order *)
Early(rec) == rec.key.level = "early"
EarlyRun(q, n, m) ==
    /\ n \in Nat /\ m \in Nat /\ n <= m
    /\ \A i \in DOMAIN q : Early(q[i]) => q[i].msg.unit \in (n + 1) .. m
    /\ \A i, j \in DOMAIN q : Early(q[i]) /\ Early(q[j]) /\ i < j => q[i].msg.unit < q[j].msg.unit
    /\ \A u \in (n + 1) .. m : \E i \in DOMAIN q : Early(q[i]) /\ q[i].msg.unit = u

(* The server still counts on reading all of the client's early records *)
Tracks(sv) == /\ sv.step # "CLOSED" /\ ~ sv.sentHrr /\ ~ Done(sv)
              /\ sv.step = "RECV_CH" \/ AcceptsEarly(sv)

EarlyOK(q, sv, sent) ==
    /\ \A i \in DOMAIN sv.early : sv.early[i] = i
    /\ Len(sv.early) <= sent
    /\ Tracks(sv) => EarlyRun(q, Len(sv.early), sent)

(* The two ends, once the server has verified the client's Finished *)
DoneOK(cl, sv) ==
    Done(sv) =>
        /\ Done(cl) /\ cl.tr = sv.tr /\ cl.hsKey = sv.hsKey /\ cl.psk = sv.psk
        /\ cl.appKey = sv.appKey /\ cl.resumption = sv.resumption
        /\ Len(sv.early) = IF cl.earlyAccepted THEN cl.early ELSE 0
TicketOK(cl, sv) == cl.ticket # Plain => Done(sv)

Inv ==
    /\ setting \in Scenarios
    /\ ClientLocal(client) /\ ServerLocal(server)
    /\ C2sOK(c2s, client) /\ S2cOK(s2c, server)
    /\ EarlyOK(c2s, server, client.early)
    /\ DoneOK(client, server) /\ TicketOK(client, server)

-----------------------------------------------------------------------------
(* Sequences over their own elements *)

LEMMA SeqOver ==
    ASSUME NEW S, NEW s \in Seq(S)
    PROVE  /\ IsSeq(s) /\ Len(s) \in Nat /\ DOMAIN s = 1 .. Len(s)
           /\ s = [i \in 1 .. Len(s) |-> s[i]]
<1>1. Len(s) \in Nat /\ DOMAIN s = 1 .. Len(s)
  OBVIOUS
<1>2. s = [i \in 1 .. Len(s) |-> s[i]]
  OBVIOUS
<1>3. \A i \in 1 .. Len(s) : s[i] \in { s[j] : j \in DOMAIN s }
  BY <1>1
<1>4. s \in Seq({ s[j] : j \in DOMAIN s })
  BY <1>1, <1>2, <1>3
<1> QED
  BY <1>1, <1>2, <1>4 DEF IsSeq

(* Appending one message *)
LEMMA SeqAppend ==
    ASSUME NEW s, NEW x, IsSeq(s)
    PROVE  /\ Len(s) \in Nat /\ DOMAIN s = 1 .. Len(s)
           /\ IsSeq(Append(s, x)) /\ Len(Append(s, x)) = Len(s) + 1
           /\ DOMAIN Append(s, x) = 1 .. (Len(s) + 1)
           /\ Append(s, x)[Len(s) + 1] = x
           /\ \A i \in 1 .. Len(s) : Append(s, x)[i] = s[i]
<1> DEFINE S == { s[i] : i \in DOMAIN s } \cup {x}
           t == Append(s, x)
<1>1. s \in Seq(S)
  BY DEF IsSeq
<1>2. /\ t \in Seq(S) /\ Len(t) = Len(s) + 1 /\ t[Len(s) + 1] = x
      /\ \A i \in 1 .. Len(s) : t[i] = s[i]
      /\ Len(s) \in Nat /\ DOMAIN s = 1 .. Len(s)
  BY <1>1
<1>3. IsSeq(t) /\ DOMAIN t = 1 .. Len(t)
  BY <1>2, SeqOver
<1> QED
  BY <1>2, <1>3

(* Taking the first record *)
LEMMA SeqTail ==
    ASSUME NEW s, IsSeq(s), s # << >>
    PROVE  /\ Len(s) \in Nat \ {0} /\ DOMAIN s = 1 .. Len(s) /\ Head(s) = s[1]
           /\ IsSeq(Tail(s)) /\ Len(Tail(s)) = Len(s) - 1
           /\ DOMAIN Tail(s) = 1 .. (Len(s) - 1)
           /\ \A i \in 1 .. (Len(s) - 1) : Tail(s)[i] = s[i + 1]
<1> DEFINE S == { s[i] : i \in DOMAIN s }
           t == Tail(s)
<1>1. s \in Seq(S)
  BY DEF IsSeq
<1>2. /\ t \in Seq(S) /\ Len(t) = Len(s) - 1
      /\ \A i \in 1 .. (Len(s) - 1) : t[i] = s[i + 1]
      /\ Len(s) \in Nat \ {0} /\ DOMAIN s = 1 .. Len(s) /\ Head(s) = s[1]
  BY <1>1
<1>3. IsSeq(t) /\ DOMAIN t = 1 .. Len(t)
  BY <1>2, SeqOver
<1> QED
  BY <1>2, <1>3

(* Sending several records *)
LEMMA SeqConcat ==
    ASSUME NEW s, NEW r, IsSeq(s), IsSeq(r)
    PROVE  /\ Len(s) \in Nat /\ DOMAIN s = 1 .. Len(s)
           /\ Len(r) \in Nat /\ DOMAIN r = 1 .. Len(r)
           /\ IsSeq(s \o r) /\ Len(s \o r) = Len(s) + Len(r)
           /\ DOMAIN (s \o r) = 1 .. (Len(s) + Len(r))
           /\ \A i \in 1 .. Len(s) : (s \o r)[i] = s[i]
           /\ \A i \in 1 .. Len(r) : (s \o r)[Len(s) + i] = r[i]
           /\ \A i \in 1 .. (Len(s) + Len(r)) : i > Len(s) => (s \o r)[i] = r[i - Len(s)]
<1> DEFINE S == { s[i] : i \in DOMAIN s } \cup { r[i] : i \in DOMAIN r }
           t == s \o r
<1>1. s \in Seq(S) /\ r \in Seq(S)
  BY DEF IsSeq
<1>2. /\ t \in Seq(S) /\ Len(t) = Len(s) + Len(r)
      /\ \A i \in 1 .. Len(s) : t[i] = s[i]
      /\ \A i \in 1 .. Len(r) : t[Len(s) + i] = r[i]
      /\ \A i \in 1 .. (Len(s) + Len(r)) : i > Len(s) => t[i] = r[i - Len(s)]
      /\ Len(s) \in Nat /\ DOMAIN s = 1 .. Len(s)
      /\ Len(r) \in Nat /\ DOMAIN r = 1 .. Len(r)
  BY <1>1
<1>3. IsSeq(t) /\ DOMAIN t = 1 .. Len(t)
  BY <1>2, SeqOver
<1> QED
  BY <1>2, <1>3

(* The short sequences the ends send *)
LEMMA SeqShort ==
    /\ IsSeq(<< >>) /\ Len(<< >>) = 0
    /\ \A a : IsSeq(<<a>>) /\ Len(<<a>>) = 1 /\ <<a>>[1] = a
    /\ \A a, b : /\ IsSeq(<<a, b>>) /\ Len(<<a, b>>) = 2
                 /\ <<a, b>>[1] = a /\ <<a, b>>[2] = b
<1>1. IsSeq(<< >>) /\ Len(<< >>) = 0
  BY DEF IsSeq
<1>2. ASSUME NEW a PROVE IsSeq(<<a>>) /\ Len(<<a>>) = 1 /\ <<a>>[1] = a
  <2>1. <<a>> \in Seq({a}) /\ DOMAIN <<a>> = 1 .. 1
    OBVIOUS
  <2>2. { <<a>>[i] : i \in DOMAIN <<a>> } = {a}
    BY <2>1
  <2> QED
    BY <2>1, <2>2 DEF IsSeq
<1>3. ASSUME NEW a, NEW b PROVE /\ IsSeq(<<a, b>>) /\ Len(<<a, b>>) = 2
                                /\ <<a, b>>[1] = a /\ <<a, b>>[2] = b
  <2>1. <<a, b>> \in Seq({a, b}) /\ DOMAIN <<a, b>> = 1 .. 2
    OBVIOUS
  <2>2. { <<a, b>>[i] : i \in DOMAIN <<a, b>> } = {a, b}
    BY <2>1
  <2> QED
    BY <2>1, <2>2 DEF IsSeq
<1> QED
  BY <1>1, <1>2, <1>3

-----------------------------------------------------------------------------
(* Keys *)

LEMMA PlainKey == /\ DOMAIN Plain = {"level", "psk", "dhe", "tr"} /\ Plain.level = "plain"
                  /\ \A level : KeyOf(Plain, level)
  BY DEF Plain, Secret, KeyOf

LEMMA DerivedKeys ==
    ASSUME NEW psk, NEW dhe, NEW tr, NEW hs, NEW hello, KeyOf(hs, "handshake")
    PROVE  /\ KeyOf(HandshakeSecret(psk, dhe, tr), "handshake")
           /\ KeyOf(EarlySecret(psk, hello), "early") /\ EarlySecret(psk, hello).level = "early"
           /\ KeyOf(ApplicationSecret(hs, tr), "application")
           /\ KeyOf(ResumptionSecret(hs, tr), "resumption")
           /\ ResumptionSecret(hs, tr) # Plain
<1>1. /\ KeyOf(HandshakeSecret(psk, dhe, tr), "handshake")
      /\ KeyOf(EarlySecret(psk, hello), "early") /\ EarlySecret(psk, hello).level = "early"
  BY DEF KeyOf, HandshakeSecret, EarlySecret, Secret
<1>2. KeyOf(ApplicationSecret(hs, tr), "application")
  BY DEF KeyOf, ApplicationSecret
<1>3. KeyOf(ResumptionSecret(hs, tr), "resumption") /\ ResumptionSecret(hs, tr).level = "resumption"
  BY DEF KeyOf, ResumptionSecret
<1> QED
  BY <1>1, <1>2, <1>3, PlainKey

(* Every key an end holds has one of the levels a record may show *)
LEMMA KeyLevels ==
    ASSUME NEW k, \/ KeyOf(k, "early") \/ KeyOf(k, "handshake")
                  \/ KeyOf(k, "application") \/ KeyOf(k, "resumption")
    PROVE  k.level \in Secrets
  BY DEF KeyOf, Secrets

-----------------------------------------------------------------------------
(* Transcripts *)

LEMMA MentionsAppend ==
    ASSUME NEW tr, NEW m, NEW type, IsSeq(tr)
    PROVE  Mentions(Append(tr, m), type) <=> Mentions(tr, type) \/ m.type = type
  BY SeqAppend DEF Mentions

LEMMA ShowsPskAppend ==
    ASSUME NEW tr, NEW m, NEW psk, IsSeq(tr)
    PROVE  /\ ShowsPsk(tr, psk) /\ m.type # "ServerHello" => ShowsPsk(Append(tr, m), psk)
           /\ ~ Mentions(tr, "ServerHello") /\ m.type = "ServerHello" /\ m.psk = psk =>
                  ShowsPsk(Append(tr, m), psk)
  BY SeqAppend DEF Mentions, ShowsPsk

LEMMA ShowsEarlyAppend ==
    ASSUME NEW tr, NEW m, NEW early, IsSeq(tr)
    PROVE  /\ ShowsEarly(tr, early) /\ m.type # "EncryptedExtensions" =>
                  ShowsEarly(Append(tr, m), early)
           /\ ~ Mentions(tr, "EncryptedExtensions") /\ m.type = "EncryptedExtensions"
                  /\ m.early = early => ShowsEarly(Append(tr, m), early)
  BY SeqAppend DEF Mentions, ShowsEarly

(* A prefix is still one when a message is appended, and all of a transcript *)
(* is a prefix of it.                                                        *)
LEMMA PrefixAppend ==
    ASSUME NEW tr, NEW m, IsSeq(tr)
    PROVE  /\ \A k \in 1 .. Len(tr) : UpTo(Append(tr, m), k) = UpTo(tr, k)
           /\ UpTo(Append(tr, m), Len(tr) + 1) = Append(tr, m)
<1> DEFINE S == { tr[i] : i \in DOMAIN tr } \cup {m}
           t == Append(tr, m)
<1>1. tr \in Seq(S) /\ t \in Seq(S) /\ Len(t) = Len(tr) + 1 /\ Len(tr) \in Nat
      /\ \A i \in 1 .. Len(tr) : t[i] = tr[i]
  BY DEF IsSeq
<1>2. ASSUME NEW k \in 1 .. Len(tr) PROVE UpTo(t, k) = UpTo(tr, k)
  BY <1>1 DEF UpTo
<1> HIDE DEF t
<1>3. UpTo(t, Len(tr) + 1) = t
  BY <1>1, SeqOver DEF UpTo
<1> QED
  BY <1>2, <1>3 DEF t

LEMMA ShowsAppKeyAppend ==
    ASSUME NEW tr, NEW m, NEW hs, NEW app, IsSeq(tr)
    PROVE  /\ ShowsAppKey(tr, hs, app) => ShowsAppKey(Append(tr, m), hs, app)
           /\ ~ Mentions(tr, "Finished") /\ m.type = "Finished" =>
                  ShowsAppKey(Append(tr, m), hs, ApplicationSecret(hs, Append(tr, m)))
<1> DEFINE t == Append(tr, m)
<1>1. ASSUME ShowsAppKey(tr, hs, app) PROVE ShowsAppKey(t, hs, app)
  <2>1. PICK k \in DOMAIN tr :
          /\ tr[k].type = "Finished" /\ \A i \in 1 .. (k - 1) : tr[i].type # "Finished"
          /\ app = ApplicationSecret(hs, UpTo(tr, k))
    BY <1>1 DEF ShowsAppKey
  <2>2. k \in DOMAIN t /\ t[k] = tr[k] /\ \A i \in 1 .. (k - 1) : t[i] = tr[i]
    BY SeqAppend
  <2>3. UpTo(t, k) = UpTo(tr, k)
    BY PrefixAppend, SeqAppend
  <2> QED
    BY <2>1, <2>2, <2>3 DEF ShowsAppKey
<1>2. ASSUME ~ Mentions(tr, "Finished"), m.type = "Finished"
      PROVE  ShowsAppKey(t, hs, ApplicationSecret(hs, t))
  <2> DEFINE k == Len(tr) + 1
  <2>1. k \in DOMAIN t /\ t[k] = m /\ \A i \in 1 .. (k - 1) : t[i].type # "Finished"
    BY <1>2, SeqAppend DEF Mentions
  <2>2. UpTo(t, k) = t
    BY PrefixAppend
  <2> QED
    BY <1>2, <2>1, <2>2 DEF ShowsAppKey
<1> QED
  BY <1>1, <1>2

(* A transcript shows one PSK, one answer on early data, one key. *)
LEMMA ShownOnce ==
    ASSUME NEW tr, IsSeq(tr)
    PROVE  /\ \A p, q : ShowsPsk(tr, p) /\ ShowsPsk(tr, q) => p = q
           /\ \A p, q : ShowsEarly(tr, p) /\ ShowsEarly(tr, q) => p = q
           /\ \A hs, p, q : ShowsAppKey(tr, hs, p) /\ ShowsAppKey(tr, hs, q) => p = q
<1>1. \A p, q : ShowsPsk(tr, p) /\ ShowsPsk(tr, q) => p = q
  BY DEF ShowsPsk, Mentions
<1>2. \A p, q : ShowsEarly(tr, p) /\ ShowsEarly(tr, q) => p = q
  BY DEF ShowsEarly, Mentions
<1>3. ASSUME NEW hs, NEW p, NEW q, ShowsAppKey(tr, hs, p), ShowsAppKey(tr, hs, q) PROVE p = q
  <2>0. DOMAIN tr = 1 .. Len(tr) /\ Len(tr) \in Nat
    BY SeqAppend
  <2>1. PICK k \in DOMAIN tr :
          /\ tr[k].type = "Finished" /\ \A i \in 1 .. (k - 1) : tr[i].type # "Finished"
          /\ p = ApplicationSecret(hs, UpTo(tr, k))
    BY <1>3 DEF ShowsAppKey
  <2>2. PICK n \in DOMAIN tr :
          /\ tr[n].type = "Finished" /\ \A i \in 1 .. (n - 1) : tr[i].type # "Finished"
          /\ q = ApplicationSecret(hs, UpTo(tr, n))
    BY <1>3 DEF ShowsAppKey
  <2>3. k = n
    BY <2>0, <2>1, <2>2
  <2> QED
    BY <2>1, <2>2, <2>3
<1> QED
  BY <1>1, <1>2, <1>3

(* A transcript that goes on with messages that show nothing *)
Continues(tr, t2) ==
    /\ IsSeq(t2)
    /\ \A type \in {"ServerHello", "EncryptedExtensions", "Finished"} :
         Mentions(t2, type) => Mentions(tr, type)
    /\ \A p : ShowsPsk(tr, p) => ShowsPsk(t2, p)
    /\ \A p : ShowsEarly(tr, p) => ShowsEarly(t2, p)
    /\ \A hs, p : ShowsAppKey(tr, hs, p) => ShowsAppKey(t2, hs, p)

LEMMA ContinuesAppend ==
    ASSUME NEW tr, NEW m, IsSeq(tr),
           m.type \notin {"ServerHello", "EncryptedExtensions", "Finished"}
    PROVE  Continues(tr, Append(tr, m)) /\ Continues(tr, tr)
<1>1. Continues(tr, tr)
  BY DEF Continues
<1>2. IsSeq(Append(tr, m))
  BY SeqAppend
<1>3. \A p : ShowsPsk(tr, p) => ShowsPsk(Append(tr, m), p)
  BY ShowsPskAppend
<1>4. \A p : ShowsEarly(tr, p) => ShowsEarly(Append(tr, m), p)
  BY ShowsEarlyAppend
<1>5. \A hs, p : ShowsAppKey(tr, hs, p) => ShowsAppKey(Append(tr, m), hs, p)
  BY ShowsAppKeyAppend
<1>6. \A type \in {"ServerHello", "EncryptedExtensions", "Finished"} :
         Mentions(Append(tr, m), type) => Mentions(tr, type)
  BY MentionsAppend
<1> QED
  BY <1>1, <1>2, <1>3, <1>4, <1>5, <1>6 DEF Continues

-----------------------------------------------------------------------------
(* Records in transit, as the ends move *)

(* The client's records stay good when it keeps what a Finished of it rests *)
(* on, or has sent no Finished.                                             *)
LEMMA C2sFrame ==
    ASSUME NEW q, NEW cl, NEW c2, C2sOK(q, cl),
           \/ ~ Done(cl)
           \/ c2.tr = cl.tr /\ c2.hsKey = cl.hsKey /\ c2.resumption = cl.resumption
    PROVE  C2sOK(q, c2)
  BY DEF C2sOK, FromClient, Done

LEMMA C2sTail ==
    ASSUME NEW q, NEW cl, C2sOK(q, cl), q # << >>
    PROVE  C2sOK(Tail(q), cl)
<1>1. \A i \in 1 .. (Len(q) - 1) : i + 1 \in DOMAIN q /\ Tail(q)[i] = q[i + 1]
  BY SeqTail DEF C2sOK
<1> QED
  BY <1>1, SeqTail DEF C2sOK

(* A record and what goes out behind it *)
LEMMA SeqBehind ==
    ASSUME NEW a, NEW r, IsSeq(r)
    PROVE  /\ IsSeq(<<a>> \o r)
           /\ \A i \in DOMAIN (<<a>> \o r) :
                (<<a>> \o r)[i] = a \/ \E j \in DOMAIN r : (<<a>> \o r)[i] = r[j]
<1> DEFINE s == <<a>>
<1>1. IsSeq(s) /\ Len(s) = 1 /\ s[1] = a
  BY SeqShort
<1> HIDE DEF s
<1>2. ASSUME NEW i \in DOMAIN (s \o r)
      PROVE  (s \o r)[i] = a \/ \E j \in DOMAIN r : (s \o r)[i] = r[j]
  <2>1. CASE i = 1
    BY <1>1, <2>1, SeqConcat
  <2>2. CASE i # 1
    <3>0. /\ Len(r) \in Nat /\ DOMAIN r = 1 .. Len(r) /\ i \in 1 .. (1 + Len(r))
          /\ \A n \in 1 .. (1 + Len(r)) : n > 1 => (s \o r)[n] = r[n - 1]
      <4>1. /\ Len(r) \in Nat /\ DOMAIN r = 1 .. Len(r)
            /\ DOMAIN (s \o r) = 1 .. (Len(s) + Len(r))
            /\ \A n \in 1 .. (Len(s) + Len(r)) : n > Len(s) => (s \o r)[n] = r[n - Len(s)]
        BY <1>1, SeqConcat
      <4> QED
        BY <1>1, <4>1
    <3>1. i - 1 \in DOMAIN r /\ (s \o r)[i] = r[i - 1]
      BY <2>2, <3>0
    <3> QED
      BY <3>1
  <2> QED
    BY <2>1, <2>2
<1>3. IsSeq(s \o r)
  BY <1>1, SeqConcat
<1> QED
  BY <1>2, <1>3 DEF s

(* Before it is done the client may send anything but a Finished, *)
LEMMA C2sSend ==
    ASSUME NEW q, NEW r, NEW cl, NEW c2, C2sOK(q, cl), ~ Done(cl), IsSeq(r),
           \A i \in DOMAIN r : FromClient(r[i], c2) /\ r[i].msg.type # "Finished"
    PROVE  C2sOK(q \o r, c2)
<1>1. C2sOK(q, c2) /\ \A i \in DOMAIN q : q[i].msg.type # "Finished"
  BY C2sFrame DEF C2sOK, FromClient, Done
<1>2. ASSUME NEW i \in DOMAIN (q \o r)
      PROVE  FromClient((q \o r)[i], c2) /\ (q \o r)[i].msg.type # "Finished"
  <2>1. CASE i \in 1 .. Len(q)
    BY <1>1, <2>1, SeqConcat DEF C2sOK
  <2>2. CASE i \notin 1 .. Len(q)
    <3>1. i > Len(q) /\ i - Len(q) \in DOMAIN r /\ (q \o r)[i] = r[i - Len(q)]
      BY <2>2, SeqConcat DEF C2sOK
    <3> QED
      BY <3>1
  <2> QED
    BY <2>1, <2>2
<1> QED
  BY <1>2, SeqConcat DEF C2sOK

(* ... and the Finished last. *)
LEMMA C2sFinish ==
    ASSUME NEW q, NEW rec, NEW cl, NEW c2, C2sOK(q, cl), ~ Done(cl), FromClient(rec, c2)
    PROVE  C2sOK(q \o <<rec>>, c2)
<1>1. C2sOK(q, c2) /\ \A i \in DOMAIN q : q[i].msg.type # "Finished"
  BY C2sFrame DEF C2sOK, FromClient, Done
<1>2. IsSeq(<<rec>>) /\ Len(<<rec>>) = 1 /\ <<rec>>[1] = rec
  BY SeqShort
<1>3. ASSUME NEW i \in DOMAIN (q \o <<rec>>)
      PROVE  /\ FromClient((q \o <<rec>>)[i], c2)
             /\ (q \o <<rec>>)[i].msg.type = "Finished" => i = Len(q \o <<rec>>)
  <2>1. CASE i \in 1 .. Len(q)
    BY <1>1, <1>2, <2>1, SeqConcat DEF C2sOK
  <2>2. CASE i \notin 1 .. Len(q)
    <3>1. i = Len(q) + 1 /\ (q \o <<rec>>)[i] = rec
      BY <1>2, <2>2, SeqConcat DEF C2sOK
    <3> QED
      BY <1>2, <3>1, SeqConcat DEF C2sOK
  <2> QED
    BY <2>1, <2>2
<1> QED
  BY <1>2, <1>3, SeqConcat DEF C2sOK

LEMMA S2cFrame ==
    ASSUME NEW q, NEW sv, NEW s2, S2cOK(q, sv), Done(sv) => Done(s2)
    PROVE  S2cOK(q, s2)
  BY DEF S2cOK, FromServer

LEMMA S2cTail ==
    ASSUME NEW q, NEW sv, S2cOK(q, sv), q # << >>
    PROVE  S2cOK(Tail(q), sv) /\ FromServer(Head(q), sv)
<1>1. \A i \in 1 .. (Len(q) - 1) : i + 1 \in DOMAIN q /\ Tail(q)[i] = q[i + 1]
  BY SeqTail DEF S2cOK
<1> QED
  BY <1>1, SeqTail DEF S2cOK

LEMMA S2cSend ==
    ASSUME NEW q, NEW r, NEW sv, NEW s2, S2cOK(q, sv), Done(sv) => Done(s2), IsSeq(r),
           \A i \in DOMAIN r : FromServer(r[i], s2)
    PROVE  S2cOK(q \o r, s2)
<1>0. IsSeq(q)
  BY DEF S2cOK
<1>1. S2cOK(q, s2)
  BY S2cFrame
<1>2. ASSUME NEW i \in DOMAIN (q \o r) PROVE FromServer((q \o r)[i], s2)
  <2>1. CASE i \in 1 .. Len(q)
    BY <1>1, <2>1, SeqConcat DEF S2cOK
  <2>2. CASE i \notin 1 .. Len(q)
    <3>1. i > Len(q) /\ i - Len(q) \in DOMAIN r /\ (q \o r)[i] = r[i - Len(q)]
      BY <1>0, <2>2, SeqConcat
    <3> QED
      BY <3>1
  <2> QED
    BY <2>1, <2>2
<1> QED
  BY <1>2, SeqConcat DEF S2cOK

-----------------------------------------------------------------------------
(* Early records *)

(* Other records do not disturb the run of early records, *)
LEMMA RunSend ==
    ASSUME NEW q, NEW r, NEW n, NEW m, IsSeq(q), IsSeq(r), EarlyRun(q, n, m),
           \A i \in DOMAIN r : ~ Early(r[i])
    PROVE  EarlyRun(q \o r, n, m)
<1> DEFINE t == q \o r
<1>1. \A i \in DOMAIN t : Early(t[i]) => i \in DOMAIN q /\ t[i] = q[i]
  <2> SUFFICES ASSUME NEW i \in DOMAIN t, Early(t[i]) PROVE i \in DOMAIN q /\ t[i] = q[i]
    OBVIOUS
  <2>1. CASE i \in 1 .. Len(q)
    BY <2>1, SeqConcat
  <2>2. CASE i \notin 1 .. Len(q)
    <3>1. i > Len(q) /\ i - Len(q) \in DOMAIN r /\ t[i] = r[i - Len(q)]
      BY <2>2, SeqConcat
    <3> QED
      BY <3>1
  <2> QED
    BY <2>1, <2>2
<1>2. \A i \in DOMAIN q : i \in DOMAIN t /\ t[i] = q[i]
  BY SeqConcat
<1> HIDE DEF t
<1>3. \A i, j \in DOMAIN t : Early(t[i]) /\ Early(t[j]) /\ i < j => t[i].msg.unit < t[j].msg.unit
  BY <1>1 DEF EarlyRun
<1>4. \A u \in (n + 1) .. m : \E i \in DOMAIN t : Early(t[i]) /\ t[i].msg.unit = u
  BY <1>2 DEF EarlyRun
<1>5. \A i \in DOMAIN t : Early(t[i]) => t[i].msg.unit \in (n + 1) .. m
  BY <1>1 DEF EarlyRun
<1> QED
  BY <1>3, <1>4, <1>5 DEF EarlyRun, t

(* ... and the next early record extends it. *)
LEMMA RunExtend ==
    ASSUME NEW q, NEW rec, NEW n, NEW m, IsSeq(q), EarlyRun(q, n, m),
           Early(rec), rec.msg.unit = m + 1
    PROVE  EarlyRun(q \o <<rec>>, n, m + 1)
<1> DEFINE t == q \o <<rec>>
           l == Len(q) + 1
<1>0. IsSeq(<<rec>>) /\ Len(<<rec>>) = 1 /\ <<rec>>[1] = rec
  BY SeqShort
<1>1. /\ Len(q) \in Nat /\ DOMAIN q = 1 .. Len(q) /\ DOMAIN t = 1 .. (Len(q) + 1)
      /\ t[l] = rec /\ \A i \in DOMAIN q : t[i] = q[i]
  BY <1>0, SeqConcat
<1> HIDE DEF t
<1>2. n \in Nat /\ m \in Nat /\ n <= m
  BY DEF EarlyRun
<1>3. ASSUME NEW i \in DOMAIN t, Early(t[i]) PROVE t[i].msg.unit \in (n + 1) .. (m + 1)
  BY <1>1, <1>2, <1>3 DEF EarlyRun
<1>4. ASSUME NEW i \in DOMAIN t, NEW j \in DOMAIN t, Early(t[i]), Early(t[j]), i < j
      PROVE  t[i].msg.unit < t[j].msg.unit
  <2>1. i \in DOMAIN q /\ t[i] = q[i] /\ q[i].msg.unit \in (n + 1) .. m
    BY <1>1, <1>4 DEF EarlyRun
  <2>2. CASE j = l
    BY <1>1, <1>2, <2>1, <2>2
  <2>3. CASE j # l
    BY <1>1, <1>4, <2>1, <2>3 DEF EarlyRun
  <2> QED
    BY <2>2, <2>3
<1>5. ASSUME NEW u \in (n + 1) .. (m + 1)
      PROVE  \E i \in DOMAIN t : Early(t[i]) /\ t[i].msg.unit = u
  <2>1. CASE u = m + 1
    BY <1>1, <2>1
  <2>2. CASE u # m + 1
    <3>1. u \in (n + 1) .. m
      BY <1>2, <2>2
    <3>2. PICK i \in DOMAIN q : Early(q[i]) /\ q[i].msg.unit = u
      BY <3>1 DEF EarlyRun
    <3> QED
      BY <1>1, <3>2
  <2> QED
    BY <2>1, <2>2
<1>6. m + 1 \in Nat /\ n <= m + 1
  BY <1>2
<1>7. EarlyRun(t, n, m + 1)
  BY <1>2, <1>3, <1>4, <1>5, <1>6 DEF EarlyRun
<1> QED
  BY <1>7 DEF t

(* A record that is not early leaves the run as it is; an early one is the  *)
(* next to be kept.                                                         *)
LEMMA RunTail ==
    ASSUME NEW q, NEW n, NEW m, IsSeq(q), q # << >>, EarlyRun(q, n, m)
    PROVE  /\ ~ Early(Head(q)) => EarlyRun(Tail(q), n, m)
           /\ Early(Head(q)) => /\ Head(q).msg.unit = n + 1 /\ n + 1 <= m
                                /\ EarlyRun(Tail(q), n + 1, m)
<1> DEFINE t == Tail(q)
<1>1. /\ Len(q) \in Nat \ {0} /\ DOMAIN q = 1 .. Len(q) /\ Head(q) = q[1]
      /\ DOMAIN t = 1 .. (Len(q) - 1) /\ \A i \in DOMAIN t : t[i] = q[i + 1]
  BY SeqTail
<1> HIDE DEF t
<1>2. n \in Nat /\ m \in Nat /\ n <= m
  BY DEF EarlyRun
<1>3. \A i \in DOMAIN t : i + 1 \in DOMAIN q /\ t[i] = q[i + 1]
  BY <1>1
<1>4. ASSUME NEW i \in DOMAIN t, NEW j \in DOMAIN t, Early(t[i]), Early(t[j]), i < j
      PROVE  t[i].msg.unit < t[j].msg.unit
  <2>1. /\ i + 1 \in DOMAIN q /\ t[i] = q[i + 1] /\ j + 1 \in DOMAIN q /\ t[j] = q[j + 1]
        /\ i + 1 < j + 1
    BY <1>1, <1>3, <1>4
  <2> QED
    BY <1>4, <2>1 DEF EarlyRun
<1>5. \A i \in DOMAIN q : i = 1 \/ (i - 1 \in DOMAIN t /\ t[i - 1] = q[i])
  BY <1>1
<1>6. ASSUME ~ Early(Head(q)) PROVE EarlyRun(t, n, m)
  <2>1. \A i \in DOMAIN t : Early(t[i]) => t[i].msg.unit \in (n + 1) .. m
    BY <1>3 DEF EarlyRun
  <2>2. ASSUME NEW u \in (n + 1) .. m PROVE \E i \in DOMAIN t : Early(t[i]) /\ t[i].msg.unit = u
    <3>1. PICK i \in DOMAIN q : Early(q[i]) /\ q[i].msg.unit = u
      BY DEF EarlyRun
    <3>2. i # 1
      BY <1>1, <1>6, <3>1
    <3> QED
      BY <1>5, <3>1, <3>2
  <2> QED
    BY <1>2, <1>4, <2>1, <2>2 DEF EarlyRun
<1>7. ASSUME Early(Head(q))
      PROVE  Head(q).msg.unit = n + 1 /\ n + 1 <= m /\ EarlyRun(t, n + 1, m)
  <2>1. 1 \in DOMAIN q /\ q[1].msg.unit \in (n + 1) .. m
    BY <1>1, <1>7 DEF EarlyRun
  <2>2. PICK i \in DOMAIN q : Early(q[i]) /\ q[i].msg.unit = n + 1
    BY <1>2, <2>1 DEF EarlyRun
  <2>3. q[1].msg.unit = n + 1
    <3>1. CASE i = 1
      BY <2>2, <3>1
    <3>2. CASE i # 1
      <4>1. 1 < i
        BY <1>1, <3>2
      <4>2. q[1].msg.unit < n + 1
        BY <1>1, <1>7, <2>1, <2>2, <4>1 DEF EarlyRun
      <4> QED
        BY <1>2, <2>1, <4>2
    <3> QED
      BY <3>1, <3>2
  <2>4. ASSUME NEW j \in DOMAIN t, Early(t[j]) PROVE t[j].msg.unit \in (n + 2) .. m
    <3>1. j + 1 \in DOMAIN q /\ t[j] = q[j + 1] /\ 1 < j + 1
      BY <1>1, <1>3
    <3>2. q[j + 1].msg.unit \in (n + 1) .. m /\ n + 1 < q[j + 1].msg.unit
      BY <1>1, <1>7, <2>1, <2>3, <2>4, <3>1 DEF EarlyRun
    <3> QED
      BY <1>2, <3>1, <3>2
  <2>5. ASSUME NEW u \in (n + 2) .. m PROVE \E j \in DOMAIN t : Early(t[j]) /\ t[j].msg.unit = u
    <3>0. u \in (n + 1) .. m /\ u # n + 1
      BY <1>2
    <3>1. PICK j \in DOMAIN q : Early(q[j]) /\ q[j].msg.unit = u
      BY <3>0 DEF EarlyRun
    <3>2. j # 1
      BY <2>3, <3>0, <3>1
    <3> QED
      BY <1>5, <3>1, <3>2
  <2>6. n + 1 \in Nat /\ n + 1 <= m /\ (n + 1) + 1 = n + 2
    BY <1>2, <2>1
  <2> QED
    BY <1>1, <1>2, <1>4, <2>3, <2>4, <2>5, <2>6 DEF EarlyRun
<1> QED
  BY <1>6, <1>7 DEF t

-----------------------------------------------------------------------------
(* Steps of one end.  The scenario never changes, so what holds of the new  *)
(* values holds in the new state.                                           *)

LEMMA InvNext ==
    ASSUME setting' = setting, setting \in Scenarios,
           ClientLocal(client'), ServerLocal(server'),
           C2sOK(c2s', client'), S2cOK(s2c', server'),
           EarlyOK(c2s', server', client'.early),
           DoneOK(client', server'), TicketOK(client', server')
    PROVE  Inv'
<1>1. ClientLocal(client)'
  BY DEF ClientLocal, PskValid, ServerHasExternal
<1>2. ServerLocal(server)'
  BY DEF ServerLocal, PskValid, ServerHasExternal
<1>3. C2sOK(c2s, client)'
  BY DEF C2sOK, FromClient, OfferedPsks, HasTicket, HasExternal
<1>4. S2cOK(s2c, server)'
  BY DEF S2cOK, FromServer, PskValid, ServerHasExternal
<1>5. EarlyOK(c2s, server, client.early)' /\ DoneOK(client, server)' /\ TicketOK(client, server)'
  OBVIOUS
<1> QED
  BY <1>1, <1>2, <1>3, <1>4, <1>5 DEF Inv

(* A client step before it is done: the server has nothing of it yet. *)
LEMMA ClientUndone ==
    ASSUME Inv, ~ Done(client), setting' = setting, server' = server,
           ClientLocal(client'), C2sOK(c2s', client'), S2cOK(s2c', server),
           EarlyOK(c2s', server, client'.early), client'.ticket = client.ticket
    PROVE  Inv'
<1>1. ~ Done(server)
  BY DEF Inv, DoneOK
<1>2. DoneOK(client', server') /\ TicketOK(client', server')
  BY <1>1 DEF Inv, DoneOK, TicketOK, ClientLocal
<1>3. ServerLocal(server') /\ S2cOK(s2c', server') /\ EarlyOK(c2s', server', client'.early)
  BY DEF Inv
<1> QED
  BY <1>2, <1>3, InvNext DEF Inv

(* Records other than early data leave the account of early data as it is. *)
LEMMA EarlySend ==
    ASSUME NEW q, NEW r, NEW sv, NEW sent, IsSeq(q), IsSeq(r), EarlyOK(q, sv, sent),
           \A i \in DOMAIN r : ~ Early(r[i])
    PROVE  EarlyOK(q \o r, sv, sent)
  BY RunSend DEF EarlyOK

(* What a client in progress is, where nothing of its later steps shows *)
LEMMA ClientOpen ==
    ASSUME NEW cl, ClientLocal(cl)
    PROVE  /\ cl.step \notin {"CONNECTED", "CLOSED"} => ~ Done(cl) /\ cl.why = "none"
           /\ DOMAIN cl = ClientFields /\ IsSeq(cl.tr) /\ cl.early \in Nat
  BY DEF ClientLocal, ClientShape, EndShape

-----------------------------------------------------------------------------
(* The client's handlers *)

(* An error leaves everything but the step. *)
ClientKeeps(cl, c2) ==
    /\ c2.tr = cl.tr /\ c2.hsKey = cl.hsKey /\ c2.psk = cl.psk /\ c2.appKey = cl.appKey
    /\ c2.resumption = cl.resumption /\ c2.ticket = cl.ticket
    /\ c2.earlyAccepted = cl.earlyAccepted /\ c2.early = cl.early

LEMMA ClientCloses ==
    ASSUME NEW cl, NEW why \in Causes \ {"none"}, ClientLocal(cl)
    PROVE  ClientLocal(Closed(cl, why)) /\ ClientKeeps(cl, Closed(cl, why))
<1> DEFINE c2 == Closed(cl, why)
<1>1. /\ DOMAIN c2 = ClientFields /\ c2.step = "CLOSED" /\ c2.why = why
      /\ c2.earlyKey = cl.earlyKey /\ c2.ccsSeen = cl.ccsSeen /\ ClientKeeps(cl, c2)
  BY DEF Closed, ClientLocal, ClientShape, ClientFields, ClientKeeps
<1> HIDE DEF c2
<1>2. ClientShape(c2)
  BY <1>1 DEF ClientLocal, ClientShape, EndShape, ClientKeeps, ClientSteps
<1>3. c2.step \notin ClientBeforeFin /\ c2.step \notin ClientAuthed
  BY <1>1 DEF ClientBeforeFin, ClientReadSteps, ClientAuthed
<1>4. c2.step \notin ClientBeforeSh /\ c2.step \notin ClientBeforeEe
  BY <1>1 DEF ClientBeforeSh, ClientBeforeEe
<1>5. ClientLocal(c2)
  BY <1>1, <1>2, <1>3, <1>4 DEF ClientLocal, ClientKeeps, Done
<1> QED
  BY <1>1, <1>5 DEF c2

WithServerHello(cl, sh, key) ==
    [cl EXCEPT !.step = "RECV_ENC_EXT", !.psk = sh.psk,
         !.tr = Append(@, sh), !.hsKey = key]

LEMMA HearsServerHello ==
    ASSUME NEW cl, NEW c2, NEW sh, NEW key, ClientLocal(cl), cl.step = "RECV_SH",
           sh.type = "ServerHello", PskValid(sh.psk), KeyOf(key, "handshake"),
           c2 = WithServerHello(cl, sh, key)
    PROVE  ClientLocal(c2) /\ c2.ticket = cl.ticket /\ c2.early = cl.early
<1>1. /\ DOMAIN c2 = ClientFields /\ c2.step = "RECV_ENC_EXT" /\ c2.psk = sh.psk
      /\ c2.tr = Append(cl.tr, sh) /\ c2.hsKey = key
      /\ c2.earlyKey = cl.earlyKey /\ c2.appKey = cl.appKey /\ c2.resumption = cl.resumption
      /\ c2.why = cl.why /\ c2.ccsSeen = cl.ccsSeen /\ c2.early = cl.early
      /\ c2.ticket = cl.ticket
  BY DEF ClientLocal, ClientShape, ClientFields, WithServerHello
<1>2. ~ Done(cl) /\ IsSeq(cl.tr) /\ cl.ticket = Plain
  BY DEF ClientLocal, ClientShape, EndShape
<1>3. ClientShape(c2)
  BY <1>1, <1>2, SeqAppend DEF ClientLocal, ClientShape, EndShape, ClientSteps, ClientReadSteps
<1>4. /\ ~ Mentions(c2.tr, "EncryptedExtensions") /\ ~ Mentions(c2.tr, "Finished")
      /\ ShowsPsk(c2.tr, c2.psk)
  BY <1>1, <1>2, MentionsAppend, ShowsPskAppend
     DEF ClientLocal, ClientBeforeSh, ClientBeforeEe, ClientBeforeFin, ClientReadSteps
<1>5. ClientLocal(c2)
  BY <1>1, <1>2, <1>3, <1>4
     DEF ClientLocal, ClientBeforeSh, ClientBeforeEe, ClientBeforeFin, ClientReadSteps,
         ClientAuthed, Done
<1> QED
  BY <1>1, <1>5

WithHello(cl, ch, early, key) ==
    [cl EXCEPT !.step = "RECV_SH", !.tr = Append(@, ch),
         !.offeredEarly = early, !.earlyKey = key]

LEMMA SaysHello ==
    ASSUME NEW cl, NEW c2, NEW ch, NEW key, NEW early, ClientLocal(cl), cl.step = "SEND_CH",
           ch.type = "ClientHello", KeyOf(key, "early"),
           c2 = WithHello(cl, ch, early, key)
    PROVE  ClientLocal(c2) /\ c2.ticket = cl.ticket /\ c2.early = cl.early
<1>1. /\ DOMAIN c2 = ClientFields /\ c2.step = "RECV_SH" /\ c2.tr = Append(cl.tr, ch)
      /\ c2.earlyKey = key
      /\ c2.hsKey = cl.hsKey /\ c2.appKey = cl.appKey /\ c2.resumption = cl.resumption
      /\ c2.why = cl.why /\ c2.ccsSeen = cl.ccsSeen /\ c2.early = cl.early
      /\ c2.ticket = cl.ticket
  BY DEF ClientLocal, ClientShape, ClientFields, WithHello
<1>2. ~ Done(cl) /\ IsSeq(cl.tr) /\ cl.ticket = Plain
  BY DEF ClientLocal, ClientShape, EndShape
<1>3. ClientShape(c2)
  BY <1>1, <1>2, SeqAppend DEF ClientLocal, ClientShape, EndShape, ClientSteps, ClientReadSteps
<1>4. /\ ~ Mentions(c2.tr, "ServerHello") /\ ~ Mentions(c2.tr, "EncryptedExtensions")
      /\ ~ Mentions(c2.tr, "Finished")
  BY <1>1, <1>2, MentionsAppend
     DEF ClientLocal, ClientBeforeSh, ClientBeforeEe, ClientBeforeFin, ClientReadSteps
<1>5. ClientLocal(c2)
  BY <1>1, <1>2, <1>3, <1>4
     DEF ClientLocal, ClientBeforeSh, ClientBeforeEe, ClientBeforeFin, ClientReadSteps,
         ClientAuthed, Done
<1> QED
  BY <1>1, <1>5

(* The transcript after a retry starts anew. *)
LEMMA RetryTranscript ==
    ASSUME NEW tr, NEW hrr, hrr.type = "HelloRetryRequest"
    PROVE  /\ IsSeq(AfterRetryRequest(tr, hrr))
           /\ \A type \in {"ServerHello", "EncryptedExtensions", "Finished"} :
                ~ Mentions(AfterRetryRequest(tr, hrr), type)
<1> DEFINE a == [type |-> "message_hash", of |-> tr]
           t == <<a, hrr>>
<1>1. IsSeq(t) /\ Len(t) = 2 /\ t[1] = a /\ t[2] = hrr /\ a.type = "message_hash"
  BY SeqShort
<1>2. AfterRetryRequest(tr, hrr) = t
  BY DEF AfterRetryRequest
<1> HIDE DEF t, a
<1>3. DOMAIN t = 1 .. 2
  BY <1>1, SeqAppend
<1>4. \A i \in DOMAIN t : t[i] = a \/ t[i] = hrr
  BY <1>1, <1>3
<1> QED
  BY <1>1, <1>2, <1>4 DEF Mentions

Retried(cl, hrr, shares) ==
    [cl EXCEPT !.hrr = TRUE, !.earlyKey = Plain, !.shares = shares,
         !.tr = AfterRetryRequest(@, hrr)]

WithHelloAgain(c1, ch) == [c1 EXCEPT !.tr = Append(@, ch), !.offeredEarly = FALSE]

LEMMA SaysHelloAgain ==
    ASSUME NEW cl, NEW c1, NEW c2, NEW hrr, NEW ch, NEW shares, ClientLocal(cl),
           cl.step = "RECV_SH", hrr.type = "HelloRetryRequest", ch.type = "ClientHello",
           c1 = Retried(cl, hrr, shares),
           c2 = WithHelloAgain(c1, ch)
    PROVE  ClientLocal(c2) /\ c2.ticket = cl.ticket /\ c2.early = cl.early
<1> DEFINE t == AfterRetryRequest(cl.tr, hrr)
<1>1. /\ DOMAIN c1 = ClientFields /\ c1.step = "RECV_SH" /\ c1.tr = t
      /\ c1.earlyKey = Plain
      /\ c1.hsKey = cl.hsKey /\ c1.appKey = cl.appKey /\ c1.resumption = cl.resumption
      /\ c1.why = cl.why /\ c1.ccsSeen = cl.ccsSeen /\ c1.early = cl.early
      /\ c1.ticket = cl.ticket
  BY DEF ClientLocal, ClientShape, ClientFields, Retried
<1> HIDE DEF t
<1>2. /\ DOMAIN c2 = ClientFields /\ c2.step = "RECV_SH" /\ c2.tr = Append(t, ch)
      /\ c2.earlyKey = Plain
      /\ c2.hsKey = cl.hsKey /\ c2.appKey = cl.appKey /\ c2.resumption = cl.resumption
      /\ c2.why = cl.why /\ c2.ccsSeen = cl.ccsSeen /\ c2.early = cl.early
      /\ c2.ticket = cl.ticket
  BY <1>1 DEF ClientFields, WithHelloAgain
<1>3. ~ Done(cl) /\ IsSeq(t) /\ cl.ticket = Plain
  BY RetryTranscript DEF ClientLocal, t
<1>4. ClientShape(c2)
  BY <1>2, <1>3, SeqAppend, PlainKey
     DEF ClientLocal, ClientShape, EndShape, ClientSteps, ClientReadSteps
<1>5. /\ ~ Mentions(c2.tr, "ServerHello") /\ ~ Mentions(c2.tr, "EncryptedExtensions")
      /\ ~ Mentions(c2.tr, "Finished")
  BY <1>2, <1>3, MentionsAppend, RetryTranscript DEF t
<1>6. ClientLocal(c2)
  BY <1>2, <1>3, <1>4, <1>5
     DEF ClientLocal, ClientBeforeSh, ClientBeforeEe, ClientBeforeFin, ClientReadSteps,
         ClientAuthed, Done
<1> QED
  BY <1>2, <1>6

WithExtensions(cl, m) ==
    [cl EXCEPT !.step = "RECV_CERT_REQ", !.tr = Append(@, m),
         !.earlyAccepted = m.early]

LEMMA HearsExtensions ==
    ASSUME NEW cl, NEW c2, NEW m, ClientLocal(cl), cl.step = "RECV_ENC_EXT",
           m.type = "EncryptedExtensions",
           c2 = WithExtensions(cl, m)
    PROVE  ClientLocal(c2) /\ c2.ticket = cl.ticket /\ c2.early = cl.early
<1>1. /\ DOMAIN c2 = ClientFields /\ c2.step = "RECV_CERT_REQ" /\ c2.tr = Append(cl.tr, m)
      /\ c2.earlyAccepted = m.early /\ c2.psk = cl.psk /\ c2.earlyKey = cl.earlyKey
      /\ c2.hsKey = cl.hsKey /\ c2.appKey = cl.appKey /\ c2.resumption = cl.resumption
      /\ c2.why = cl.why /\ c2.ccsSeen = cl.ccsSeen /\ c2.early = cl.early
      /\ c2.ticket = cl.ticket
  BY DEF ClientLocal, ClientShape, ClientFields, WithExtensions
<1>2. ~ Done(cl) /\ IsSeq(cl.tr) /\ cl.ticket = Plain
  BY DEF ClientLocal, ClientShape, EndShape
<1>3. ClientShape(c2)
  BY <1>1, <1>2, SeqAppend DEF ClientLocal, ClientShape, EndShape, ClientSteps, ClientReadSteps
<1>4. /\ ~ Mentions(c2.tr, "Finished") /\ ShowsPsk(c2.tr, c2.psk) /\ PskValid(c2.psk)
      /\ ShowsEarly(c2.tr, c2.earlyAccepted)
  BY <1>1, <1>2, MentionsAppend, ShowsPskAppend, ShowsEarlyAppend
     DEF ClientLocal, ClientBeforeSh, ClientBeforeEe, ClientBeforeFin, ClientReadSteps
<1>5. ClientLocal(c2)
  BY <1>1, <1>2, <1>3, <1>4
     DEF ClientLocal, ClientBeforeSh, ClientBeforeEe, ClientBeforeFin, ClientReadSteps,
         ClientAuthed, Done
<1> QED
  BY <1>1, <1>5

(* The rest of the server's flight up to its Finished, and the client's own *)
(* flight up to its Finished: the values negotiated do not change.          *)
LEMMA ClientGoesOn ==
    ASSUME NEW cl, NEW c2, ClientLocal(cl),
           \/ /\ cl.step \in {"RECV_CERT_REQ", "RECV_CERT", "RECV_CERT_VERIFY"}
              /\ c2.step \in {"RECV_CERT", "RECV_CERT_VERIFY", "RECV_FINISHED"}
           \/ /\ cl.step \in {"SEND_CLIENT_AUTH", "SEND_EOED"}
              /\ c2.step \in {"SEND_EOED", "SEND_FINISHED"} /\ c2.peerCert = cl.peerCert,
           c2.step = "RECV_CERT_VERIFY" => setting.serverCert = "good",
           c2.step = "RECV_FINISHED" => cl.psk # "none" \/ (c2.peerCert /\ setting.serverCert = "good"),
           Continues(cl.tr, c2.tr), DOMAIN c2 = ClientFields,
           c2.psk = cl.psk, c2.earlyAccepted = cl.earlyAccepted, c2.earlyKey = cl.earlyKey,
           c2.hsKey = cl.hsKey, c2.appKey = cl.appKey, c2.resumption = cl.resumption,
           c2.why = cl.why, c2.ccsSeen = cl.ccsSeen, c2.early = cl.early, c2.ticket = cl.ticket
    PROVE  ClientLocal(c2)
<1>1. ~ Done(cl) /\ IsSeq(cl.tr) /\ IsSeq(c2.tr) /\ cl.ticket = Plain
  BY DEF ClientLocal, ClientShape, EndShape, Continues
<1>2. ClientShape(c2)
  BY <1>1 DEF ClientLocal, ClientShape, EndShape, ClientSteps, ClientReadSteps, ClientSendSteps
<1>3. /\ ShowsPsk(c2.tr, c2.psk) /\ PskValid(c2.psk) /\ ShowsEarly(c2.tr, c2.earlyAccepted)
      /\ c2.step \in {"RECV_CERT", "RECV_CERT_VERIFY", "RECV_FINISHED"} =>
           ~ Mentions(c2.tr, "Finished")
      /\ c2.step \in {"SEND_EOED", "SEND_FINISHED"} => ShowsAppKey(c2.tr, c2.hsKey, c2.appKey)
  BY <1>1
     DEF ClientLocal, ClientBeforeSh, ClientBeforeEe, ClientBeforeFin, ClientReadSteps, Continues
<1> QED
  BY <1>1, <1>2, <1>3
     DEF ClientLocal, ClientBeforeSh, ClientBeforeEe, ClientBeforeFin, ClientReadSteps,
         ClientAuthed, Done

WithFinished(cl, m) ==
    [cl EXCEPT !.step = "SEND_CLIENT_AUTH", !.tr = Append(@, m),
         !.appKey = ApplicationSecret(cl.hsKey, Append(cl.tr, m))]

LEMMA HearsFinished ==
    ASSUME NEW cl, NEW c2, NEW m, ClientLocal(cl), cl.step = "RECV_FINISHED", m.type = "Finished",
           c2 = WithFinished(cl, m)
    PROVE  ClientLocal(c2) /\ c2.ticket = cl.ticket /\ c2.early = cl.early
<1>1. /\ DOMAIN c2 = ClientFields /\ c2.step = "SEND_CLIENT_AUTH" /\ c2.tr = Append(cl.tr, m)
      /\ c2.appKey = ApplicationSecret(cl.hsKey, Append(cl.tr, m))
      /\ c2.earlyAccepted = cl.earlyAccepted /\ c2.psk = cl.psk /\ c2.earlyKey = cl.earlyKey
      /\ c2.hsKey = cl.hsKey /\ c2.resumption = cl.resumption /\ c2.peerCert = cl.peerCert
      /\ c2.why = cl.why /\ c2.ccsSeen = cl.ccsSeen /\ c2.early = cl.early
      /\ c2.ticket = cl.ticket
  BY DEF ClientLocal, ClientShape, ClientFields, WithFinished
<1>2. ~ Done(cl) /\ IsSeq(cl.tr) /\ cl.ticket = Plain /\ KeyOf(cl.hsKey, "handshake")
  BY DEF ClientLocal, ClientShape, EndShape
<1>3. ClientShape(c2)
  BY <1>1, <1>2, SeqAppend, DerivedKeys
     DEF ClientLocal, ClientShape, EndShape, ClientSteps, ClientSendSteps
<1>4. /\ ShowsPsk(c2.tr, c2.psk) /\ PskValid(c2.psk) /\ ShowsEarly(c2.tr, c2.earlyAccepted)
      /\ ShowsAppKey(c2.tr, c2.hsKey, c2.appKey)
  BY <1>1, <1>2, ShowsPskAppend, ShowsEarlyAppend, ShowsAppKeyAppend
     DEF ClientLocal, ClientBeforeSh, ClientBeforeEe, ClientBeforeFin, ClientReadSteps
<1>5. ClientLocal(c2)
  BY <1>1, <1>2, <1>3, <1>4
     DEF ClientLocal, ClientBeforeSh, ClientBeforeEe, ClientBeforeFin, ClientReadSteps,
         ClientAuthed, Done
<1> QED
  BY <1>1, <1>5

WithOwnFinished(cl, t) ==
    [cl EXCEPT !.step = "CONNECTED", !.tr = t,
         !.resumption = ResumptionSecret(cl.hsKey, t)]

LEMMA SaysFinished ==
    ASSUME NEW cl, NEW c2, NEW m, ClientLocal(cl), cl.step = "SEND_FINISHED",
           m.type = "Finished", c2 = WithOwnFinished(cl, Append(cl.tr, m))
    PROVE  /\ ClientLocal(c2) /\ c2.ticket = cl.ticket /\ c2.early = cl.early
           /\ c2.tr = Append(cl.tr, m) /\ c2.hsKey = cl.hsKey /\ Done(c2)
<1>1. /\ DOMAIN c2 = ClientFields /\ c2.step = "CONNECTED" /\ c2.tr = Append(cl.tr, m)
      /\ c2.resumption = ResumptionSecret(cl.hsKey, c2.tr) /\ c2.appKey = cl.appKey
      /\ c2.earlyAccepted = cl.earlyAccepted /\ c2.psk = cl.psk /\ c2.earlyKey = cl.earlyKey
      /\ c2.hsKey = cl.hsKey /\ c2.peerCert = cl.peerCert
      /\ c2.why = cl.why /\ c2.ccsSeen = cl.ccsSeen /\ c2.early = cl.early
      /\ c2.ticket = cl.ticket
  BY DEF ClientLocal, ClientShape, ClientFields, WithOwnFinished
<1>2. ~ Done(cl) /\ IsSeq(cl.tr) /\ cl.ticket = Plain /\ KeyOf(cl.hsKey, "handshake")
  BY DEF ClientLocal, ClientShape, EndShape
<1>3. ClientShape(c2) /\ Done(c2)
  BY <1>1, <1>2, SeqAppend, DerivedKeys
     DEF ClientLocal, ClientShape, EndShape, ClientSteps, ClientSendSteps, Done
<1>4. /\ ShowsPsk(c2.tr, c2.psk) /\ PskValid(c2.psk) /\ ShowsEarly(c2.tr, c2.earlyAccepted)
      /\ ShowsAppKey(c2.tr, c2.hsKey, c2.appKey)
  BY <1>1, <1>2, ShowsPskAppend, ShowsEarlyAppend, ShowsAppKeyAppend
     DEF ClientLocal, ClientBeforeSh, ClientBeforeEe, ClientBeforeFin, ClientReadSteps
<1>5. ClientLocal(c2)
  BY <1>1, <1>2, <1>3, <1>4
     DEF ClientLocal, ClientBeforeSh, ClientBeforeEe, ClientBeforeFin, ClientReadSteps,
         ClientAuthed
<1> QED
  BY <1>1, <1>3, <1>5

(* A compatibility record or an early record is only counted. *)
LEMMA ClientCounts ==
    ASSUME NEW cl, NEW c2, ClientLocal(cl), DOMAIN c2 = ClientFields,
           c2.step = cl.step, c2.why = cl.why, c2.peerCert = cl.peerCert,
           c2.earlyKey = cl.earlyKey, c2.tr = cl.tr, c2.hsKey = cl.hsKey, c2.psk = cl.psk,
           c2.appKey = cl.appKey, c2.resumption = cl.resumption, c2.ticket = cl.ticket,
           c2.earlyAccepted = cl.earlyAccepted,
           c2.early \in 0 .. MaxEarly, c2.ccsSeen \in 0 .. 2
    PROVE  ClientLocal(c2)
<1>1. ClientShape(c2)
  BY DEF ClientLocal, ClientShape, EndShape
<1> QED
  BY <1>1 DEF ClientLocal, Done

-----------------------------------------------------------------------------
(* The client's actions *)

(* The compatibility record *)
LEMMA CcsRecord == /\ CCS.key = Plain /\ CCS.msg.type = "change_cipher_spec" /\ ~ Early(CCS)
                   /\ \A cl : FromClient(CCS, cl)
                   /\ \A sv : FromServer(CCS, sv)
<1>1. CCS.key = Plain /\ CCS.msg.type = "change_cipher_spec"
  BY DEF CCS, Sealed, Msg
<1> QED
  BY <1>1, PlainKey DEF Early, FromClient, FromServer, Secrets

(* What the client sends, as the invariant sees it *)
LEMMA ClientSendsOne ==
    ASSUME Inv, NEW rec, NEW c2, ~ Done(client), FromClient(rec, c2),
           rec.msg.type # "Finished", ~ Early(rec)
    PROVE  /\ C2sOK(c2s \o <<rec>>, c2)
           /\ EarlyOK(c2s \o <<rec>>, server, client.early)
<1> DEFINE r == <<rec>>
<1>1. IsSeq(r) /\ DOMAIN r = 1 .. 1 /\ r[1] = rec
  BY SeqShort, SeqAppend
<1> HIDE DEF r
<1>2. \A i \in DOMAIN r : FromClient(r[i], c2) /\ r[i].msg.type # "Finished" /\ ~ Early(r[i])
  BY <1>1
<1>3. C2sOK(c2s \o r, c2) /\ EarlyOK(c2s \o r, server, client.early)
  BY <1>1, <1>2, C2sSend, EarlySend DEF Inv, C2sOK
<1> QED
  BY <1>3 DEF r

LEMMA ClientSendsTwo ==
    ASSUME Inv, NEW rec, NEW rec2, NEW c2, ~ Done(client),
           FromClient(rec, c2), rec.msg.type # "Finished", ~ Early(rec),
           FromClient(rec2, c2), rec2.msg.type # "Finished", ~ Early(rec2)
    PROVE  /\ C2sOK(c2s \o <<rec, rec2>>, c2)
           /\ EarlyOK(c2s \o <<rec, rec2>>, server, client.early)
<1> DEFINE r == <<rec, rec2>>
<1>1. IsSeq(r) /\ DOMAIN r = 1 .. 2 /\ r[1] = rec /\ r[2] = rec2
  BY SeqShort, SeqAppend
<1> HIDE DEF r
<1>2. \A i \in DOMAIN r : FromClient(r[i], c2) /\ r[i].msg.type # "Finished" /\ ~ Early(r[i])
  BY <1>1
<1>3. C2sOK(c2s \o r, c2) /\ EarlyOK(c2s \o r, server, client.early)
  BY <1>1, <1>2, C2sSend, EarlySend DEF Inv, C2sOK
<1> QED
  BY <1>3 DEF r

LEMMA SendClientHelloInv == Inv /\ SendClientHello => Inv'
<1> SUFFICES ASSUME Inv, SendClientHello PROVE Inv'
  OBVIOUS
<1> DEFINE ch == Hello(client)
<1>1. PICK derived \in BOOLEAN :
        client' = [client EXCEPT !.step = "RECV_SH", !.tr = Append(@, ch),
                     !.offeredEarly = ch.early,
                     !.earlyKey = IF derived THEN EarlySecret("ticket", ch) ELSE Plain]
  BY DEF SendClientHello
<1>2. /\ client.step = "SEND_CH" /\ c2s' = c2s \o <<Sealed(Plain, ch)>>
      /\ UNCHANGED <<setting, server, s2c>>
  BY DEF SendClientHello, ClientIn, ClientSends
<1>3. ch.type = "ClientHello" /\ ch.psks = OfferedPsks
  BY DEF Hello
<1> HIDE DEF ch
<1> DEFINE key == IF derived THEN EarlySecret("ticket", ch) ELSE Plain
           rec == Sealed(Plain, ch)
<1>4. KeyOf(key, "early")
  BY PlainKey DEF EarlySecret, Secret, KeyOf
<1>5. ~ Done(client)
  BY <1>2, ClientOpen DEF Inv
<1>6. ClientLocal(client') /\ client'.ticket = client.ticket /\ client'.early = client.early
  <2>1. client' = WithHello(client, ch, ch.early, key)
    BY <1>1 DEF WithHello
  <2> HIDE DEF key
  <2> QED
    BY <1>2, <1>3, <1>4, <2>1, SaysHello DEF Inv
<1>7. /\ FromClient(rec, client') /\ rec.msg.type # "Finished" /\ ~ Early(rec)
  BY <1>3, PlainKey DEF FromClient, Sealed, Secrets, Early
<1>8. C2sOK(c2s', client') /\ EarlyOK(c2s', server, client'.early)
  BY <1>2, <1>5, <1>6, <1>7, ClientSendsOne
<1> QED
  BY <1>2, <1>5, <1>6, <1>8, ClientUndone DEF Inv

LEMMA ClientCompatCcsInv == Inv /\ ClientCompatCcs => Inv'
<1> SUFFICES ASSUME Inv, ClientCompatCcs PROVE Inv'
  OBVIOUS
<1>1. /\ client.step \in ClientReadSteps /\ s2c # << >> /\ client' = CompatCcs(client)
      /\ s2c' = Tail(s2c) /\ UNCHANGED <<setting, server, c2s>>
  BY DEF ClientCompatCcs, ClientIn, ClientTakes
<1>2. ~ Done(client) /\ DOMAIN client = ClientFields
  BY <1>1, ClientOpen DEF Inv, ClientReadSteps
<1>3. ClientLocal(client') /\ client'.ticket = client.ticket /\ client'.early = client.early
  <2>1. CASE client.ccsSeen >= 2
    <3>1. client' = Closed(client, "protocol")
      BY <1>1, <2>1 DEF CompatCcs
    <3> QED
      BY <3>1, ClientCloses DEF Inv, Causes, ClientKeeps
  <2>2. CASE ~ (client.ccsSeen >= 2)
    <3>1. client' = [client EXCEPT !.ccsSeen = @ + 1]
      BY <1>1, <2>2 DEF CompatCcs
    <3>2. client.ccsSeen \in 0 .. 2 /\ client.early \in 0 .. MaxEarly /\ ClientLocal(client)
      BY DEF Inv, ClientLocal, ClientShape, EndShape
    <3>3. client.ccsSeen + 1 \in 0 .. 2
      BY <2>2, <3>2
    <3>4. /\ DOMAIN client' = ClientFields /\ client'.ccsSeen = client.ccsSeen + 1
          /\ client'.step = client.step /\ client'.why = client.why
          /\ client'.peerCert = client.peerCert
          /\ client'.earlyKey = client.earlyKey /\ client'.tr = client.tr
          /\ client'.hsKey = client.hsKey /\ client'.psk = client.psk
          /\ client'.appKey = client.appKey /\ client'.resumption = client.resumption
          /\ client'.ticket = client.ticket /\ client'.earlyAccepted = client.earlyAccepted
          /\ client'.early = client.early
      BY <1>2, <3>1 DEF ClientFields
    <3> QED
      BY <3>2, <3>3, <3>4, ClientCounts
  <2> QED
    BY <2>1, <2>2
<1>4. C2sOK(c2s', client') /\ S2cOK(s2c', server) /\ EarlyOK(c2s', server, client'.early)
  BY <1>1, <1>2, <1>3, C2sFrame, S2cTail DEF Inv
<1> QED
  BY <1>1, <1>2, <1>3, <1>4, ClientUndone

LEMMA ReceiveServerHelloInv == Inv /\ ReceiveServerHello => Inv'
<1> SUFFICES ASSUME Inv, ReceiveServerHello PROVE Inv'
  OBVIOUS
<1> DEFINE m == Head(s2c).msg
<1>1. /\ client.step = "RECV_SH" /\ s2c # << >> /\ s2c' = Tail(s2c)
      /\ UNCHANGED <<setting, server>>
  BY DEF ReceiveServerHello, ClientIn, ClientTakes
<1>2. \/ m.type = "HelloRetryRequest" /\ RetryHello(m)
      \/ m.type = "ServerHello" /\ TakeServerHello(m)
      \/ client' = Closed(client, "protocol") /\ UNCHANGED c2s
  BY DEF ReceiveServerHello
<1>3. ~ Done(client)
  BY <1>1, ClientOpen DEF Inv
<1>4. S2cOK(s2c', server) /\ FromServer(Head(s2c), server)
  BY <1>1, S2cTail DEF Inv
<1> HIDE DEF m
<1>5. CASE client' = Closed(client, "protocol") /\ UNCHANGED c2s
  <2>1. ClientLocal(client') /\ client'.ticket = client.ticket /\ client'.early = client.early
    BY <1>5, ClientCloses DEF Inv, Causes, ClientKeeps
  <2>2. C2sOK(c2s', client') /\ EarlyOK(c2s', server, client'.early)
    BY <1>3, <1>5, <2>1, C2sFrame DEF Inv
  <2> QED
    BY <1>1, <1>3, <1>4, <2>1, <2>2, ClientUndone
<1>6. CASE /\ m.type = "HelloRetryRequest" /\ RetryHello(m)
           /\ ~ (client' = Closed(client, "protocol") /\ UNCHANGED c2s)
  <2> DEFINE cl == [client EXCEPT !.hrr = TRUE, !.earlyKey = Plain, !.shares = {m.group},
                                  !.tr = AfterRetryRequest(@, m)]
             ch == Hello(cl)
             rec == Sealed(Plain, ch)
  <2>1. /\ client' = [cl EXCEPT !.tr = Append(@, ch), !.offeredEarly = FALSE]
        /\ c2s' = c2s \o <<CCS, rec>>
    BY <1>6 DEF RetryHello, ClientSends
  <2>2. ch.type = "ClientHello" /\ ch.psks = OfferedPsks
    BY DEF Hello
  <2>3. ClientLocal(client') /\ client'.ticket = client.ticket /\ client'.early = client.early
    <3>1. cl = Retried(client, m, {m.group}) /\ client' = WithHelloAgain(cl, ch)
      BY <2>1 DEF Retried, WithHelloAgain
    <3> HIDE DEF ch, cl
    <3> QED
      BY <1>1, <1>6, <2>2, <3>1, SaysHelloAgain DEF Inv
  <2> HIDE DEF ch, cl
  <2>4. FromClient(rec, client') /\ rec.msg.type # "Finished" /\ ~ Early(rec)
    BY <2>2, PlainKey DEF FromClient, Sealed, Secrets, Early
  <2>5. C2sOK(c2s', client') /\ EarlyOK(c2s', server, client'.early)
    <3> HIDE DEF rec
    <3> QED
      BY <1>3, <2>1, <2>3, <2>4, CcsRecord, ClientSendsTwo
  <2> QED
    BY <1>1, <1>3, <1>4, <2>3, <2>5, ClientUndone
<1>7. CASE /\ m.type = "ServerHello" /\ TakeServerHello(m)
           /\ ~ (client' = Closed(client, "protocol") /\ UNCHANGED c2s)
  <2> DEFINE key == HandshakeSecret(m.psk, m.group, Append(client.tr, m))
  <2>1. /\ client' = [client EXCEPT !.step = "RECV_ENC_EXT", !.psk = m.psk,
                                    !.tr = Append(@, m), !.hsKey = key]
        /\ c2s' = c2s \o <<CCS>>
    BY <1>7 DEF TakeServerHello, ClientSends
  <2>2. PskValid(m.psk) /\ KeyOf(key, "handshake")
    BY <1>4, <1>7 DEF FromServer, HandshakeSecret, Secret, KeyOf, m
  <2> HIDE DEF key
  <2>3. ClientLocal(client') /\ client'.ticket = client.ticket /\ client'.early = client.early
    <3>1. client' = WithServerHello(client, m, key)
      BY <2>1 DEF WithServerHello
    <3> QED
      BY <1>1, <1>7, <2>2, <3>1, HearsServerHello DEF Inv
  <2>4. C2sOK(c2s', client') /\ EarlyOK(c2s', server, client'.early)
    BY <1>3, <2>1, <2>3, CcsRecord, ClientSendsOne
  <2> QED
    BY <1>1, <1>3, <1>4, <2>3, <2>4, ClientUndone
<1> QED
  BY <1>2, <1>5, <1>6, <1>7

(* The server's flight, message by message *)
LEMMA ClientReceivesLocal ==
    ASSUME Inv, ClientReceives
    PROVE  ClientLocal(client') /\ client'.ticket = client.ticket /\ client'.early = client.early
<1> DEFINE rec == Head(s2c)
           m == rec.msg
           K == /\ ClientLocal(client') /\ client'.ticket = client.ticket
                /\ client'.early = client.early
<1>1. client.step \in ClientReadSteps \ {"RECV_SH"} /\ ClientLocal(client)
  BY DEF ClientReceives, ClientIn, Inv
<1>2. DOMAIN client = ClientFields /\ IsSeq(client.tr)
  BY <1>1, ClientOpen
<1>3. ASSUME client' = Closed(client, "protocol") \/ client' = Closed(client, "server_cert")
      PROVE  K
  BY <1>1, <1>3, ClientCloses DEF Causes, ClientKeeps
<1>4. CASE /\ client.step = "RECV_CERT_REQ"
           /\ client' = [client EXCEPT !.step = AfterCertRequest(client)]
  <2>1. /\ DOMAIN client' = ClientFields /\ client'.step = AfterCertRequest(client)
        /\ client'.tr = client.tr /\ client'.psk = client.psk
        /\ client'.earlyAccepted = client.earlyAccepted /\ client'.earlyKey = client.earlyKey
        /\ client'.hsKey = client.hsKey /\ client'.appKey = client.appKey
        /\ client'.resumption = client.resumption /\ client'.why = client.why
        /\ client'.ccsSeen = client.ccsSeen /\ client'.early = client.early
        /\ client'.ticket = client.ticket
    BY <1>2, <1>4 DEF ClientFields
  <2>2. /\ client'.step \in {"RECV_CERT", "RECV_FINISHED"}
        /\ client'.step = "RECV_FINISHED" => client.psk # "none"
    BY <2>1 DEF AfterCertRequest
  <2>3. Continues(client.tr, client'.tr)
    BY <1>2, <2>1 DEF Continues
  <2> QED
    BY <1>1, <1>4, <2>1, <2>2, <2>3, ClientGoesOn
<1>5. CASE client.step = "RECV_ENC_EXT" /\ client' = TakeEncryptedExtensions(client, rec)
  <2>1. CASE client' = Closed(client, "protocol")
    BY <1>3, <2>1
  <2>2. CASE client' # Closed(client, "protocol")
    <3>1. client' = WithExtensions(client, m) /\ m.type = "EncryptedExtensions"
      BY <1>5, <2>2 DEF TakeEncryptedExtensions, Expected, WithExtensions
    <3> HIDE DEF m
    <3> QED
      BY <1>1, <1>5, <3>1, HearsExtensions
  <2> QED
    BY <2>1, <2>2
<1>6. CASE client.step = "RECV_CERT_REQ" /\ client' = TakeCertificateRequest(client, rec)
  <2>1. CASE client' = Closed(client, "protocol")
    BY <1>3, <2>1
  <2>2. CASE client' # Closed(client, "protocol")
    <3>1. /\ client' = [client EXCEPT !.step = AfterCertRequest(client), !.tr = Append(@, m),
                                      !.authRequested = TRUE]
          /\ m.type = "CertificateRequest"
      BY <1>6, <2>2 DEF TakeCertificateRequest, Expected
    <3> HIDE DEF m
    <3>2. /\ DOMAIN client' = ClientFields /\ client'.step = AfterCertRequest(client)
          /\ client'.tr = Append(client.tr, m) /\ client'.psk = client.psk
          /\ client'.earlyAccepted = client.earlyAccepted /\ client'.earlyKey = client.earlyKey
          /\ client'.hsKey = client.hsKey /\ client'.appKey = client.appKey
          /\ client'.resumption = client.resumption /\ client'.why = client.why
          /\ client'.ccsSeen = client.ccsSeen /\ client'.early = client.early
          /\ client'.ticket = client.ticket
      BY <1>2, <3>1 DEF ClientFields
    <3>3. /\ client'.step \in {"RECV_CERT", "RECV_FINISHED"}
          /\ client'.step = "RECV_FINISHED" => client.psk # "none"
      BY <3>2 DEF AfterCertRequest
    <3>4. Continues(client.tr, client'.tr)
      BY <1>2, <3>1, <3>2, ContinuesAppend
    <3> QED
      BY <1>1, <1>6, <3>2, <3>3, <3>4, ClientGoesOn
  <2> QED
    BY <2>1, <2>2
<1>7. CASE client.step = "RECV_CERT" /\ client' = TakeCertificate(client, rec)
  <2>1. CASE client' = Closed(client, "protocol") \/ client' = Closed(client, "server_cert")
    BY <1>3, <2>1
  <2>2. CASE ~ (client' = Closed(client, "protocol") \/ client' = Closed(client, "server_cert"))
    <3>1. /\ client' = [client EXCEPT !.step = "RECV_CERT_VERIFY", !.tr = Append(@, m)]
          /\ m.type = "Certificate" /\ setting.serverCert = "good"
      BY <1>7, <2>2 DEF TakeCertificate, Expected
    <3> HIDE DEF m
    <3>2. /\ DOMAIN client' = ClientFields /\ client'.step = "RECV_CERT_VERIFY"
          /\ client'.tr = Append(client.tr, m) /\ client'.psk = client.psk
          /\ client'.earlyAccepted = client.earlyAccepted /\ client'.earlyKey = client.earlyKey
          /\ client'.hsKey = client.hsKey /\ client'.appKey = client.appKey
          /\ client'.resumption = client.resumption /\ client'.why = client.why
          /\ client'.ccsSeen = client.ccsSeen /\ client'.early = client.early
          /\ client'.ticket = client.ticket
      BY <1>2, <3>1 DEF ClientFields
    <3>3. Continues(client.tr, client'.tr)
      BY <1>2, <3>1, <3>2, ContinuesAppend
    <3> QED
      BY <1>1, <1>7, <3>1, <3>2, <3>3, ClientGoesOn
  <2> QED
    BY <2>1, <2>2
<1>8. CASE client.step = "RECV_CERT_VERIFY" /\ client' = TakeCertificateVerify(client, rec)
  <2>1. CASE client' = Closed(client, "protocol")
    BY <1>3, <2>1
  <2>2. CASE client' # Closed(client, "protocol")
    <3>1. /\ client' = [client EXCEPT !.step = "RECV_FINISHED", !.tr = Append(@, m),
                                      !.peerCert = TRUE]
          /\ m.type = "CertificateVerify" /\ setting.serverCert = "good"
      BY <1>1, <1>8, <2>2 DEF TakeCertificateVerify, Expected, ClientLocal
    <3> HIDE DEF m
    <3>2. /\ DOMAIN client' = ClientFields /\ client'.step = "RECV_FINISHED" /\ client'.peerCert
          /\ client'.tr = Append(client.tr, m) /\ client'.psk = client.psk
          /\ client'.earlyAccepted = client.earlyAccepted /\ client'.earlyKey = client.earlyKey
          /\ client'.hsKey = client.hsKey /\ client'.appKey = client.appKey
          /\ client'.resumption = client.resumption /\ client'.why = client.why
          /\ client'.ccsSeen = client.ccsSeen /\ client'.early = client.early
          /\ client'.ticket = client.ticket
      BY <1>2, <3>1 DEF ClientFields
    <3>3. Continues(client.tr, client'.tr)
      BY <1>2, <3>1, <3>2, ContinuesAppend
    <3> QED
      BY <1>1, <1>8, <3>1, <3>2, <3>3, ClientGoesOn
  <2> QED
    BY <2>1, <2>2
<1>9. CASE client.step = "RECV_FINISHED" /\ client' = TakeServerFinished(client, rec)
  <2>1. CASE client' = Closed(client, "protocol")
    BY <1>3, <2>1
  <2>2. CASE client' # Closed(client, "protocol")
    <3>1. client' = WithFinished(client, m) /\ m.type = "Finished"
      BY <1>9, <2>2 DEF TakeServerFinished, Expected, WithFinished
    <3> HIDE DEF m
    <3> QED
      BY <1>1, <1>9, <3>1, HearsFinished
  <2> QED
    BY <2>1, <2>2
<1> QED
  BY <1>1, <1>4, <1>5, <1>6, <1>7, <1>8, <1>9 DEF ClientReceives, ClientIn, ClientReadSteps

LEMMA ClientReceivesInv == Inv /\ ClientReceives => Inv'
<1> SUFFICES ASSUME Inv, ClientReceives PROVE Inv'
  OBVIOUS
<1>1. /\ client.step \in ClientReadSteps /\ s2c # << >>
      /\ s2c' = Tail(s2c) \/ s2c' = s2c
      /\ UNCHANGED <<setting, server, c2s>>
  BY DEF ClientReceives, ClientIn, ClientTakes
<1>2. ~ Done(client)
  BY <1>1, ClientOpen DEF Inv, ClientReadSteps
<1>3. ClientLocal(client') /\ client'.ticket = client.ticket /\ client'.early = client.early
  BY ClientReceivesLocal
<1>4. C2sOK(c2s', client') /\ S2cOK(s2c', server) /\ EarlyOK(c2s', server, client'.early)
  BY <1>1, <1>2, <1>3, C2sFrame, S2cTail DEF Inv
<1> QED
  BY <1>1, <1>2, <1>3, <1>4, ClientUndone

LEMMA SendClientAuthInv == Inv /\ SendClientAuth => Inv'
<1> SUFFICES ASSUME Inv, SendClientAuth PROVE Inv'
  OBVIOUS
<1> DEFINE cert == [type |-> "Certificate", cert |-> setting.clientCert]
           proof == Msg("CertificateVerify")
           tr == Append(client.tr, cert)
           proves == setting.clientCert # "none"
           rec == Sealed(client.hsKey, cert)
           rec2 == Proving(client.hsKey, proof, tr)
           t2 == IF proves THEN Append(tr, proof) ELSE tr
<1>1. client.step = "SEND_CLIENT_AUTH" /\ UNCHANGED <<setting, server, s2c>>
  BY DEF SendClientAuth, ClientIn
<1>2. \/ /\ client' = [client EXCEPT !.step = "SEND_EOED", !.tr = t2]
         /\ c2s' = c2s \o (<<rec>> \o IF proves THEN <<rec2>> ELSE << >>)
      \/ client' = [client EXCEPT !.step = "SEND_EOED"] /\ c2s' = c2s
  BY DEF SendClientAuth, ClientSends
<1>3. /\ ~ Done(client) /\ DOMAIN client = ClientFields /\ IsSeq(client.tr)
      /\ KeyOf(client.hsKey, "handshake") /\ ClientLocal(client)
  BY <1>1, ClientOpen DEF Inv, ClientLocal, ClientShape, EndShape
<1>4. /\ cert.type = "Certificate" /\ cert.cert = setting.clientCert
      /\ proof.type = "CertificateVerify"
      /\ rec.key = client.hsKey /\ rec.msg = cert /\ rec2.key = client.hsKey /\ rec2.msg = proof
  BY DEF Msg, Sealed, Proving
<1> HIDE DEF cert, proof, rec, rec2
<1>5. client.hsKey.level \in Secrets /\ client.hsKey.level # "early"
  BY <1>3, KeyLevels DEF KeyOf
<1>6. \A c2 : /\ FromClient(rec, c2) /\ rec.msg.type # "Finished" /\ ~ Early(rec)
              /\ FromClient(rec2, c2) /\ rec2.msg.type # "Finished" /\ ~ Early(rec2)
  BY <1>4, <1>5 DEF FromClient, Early
<1>7. Continues(client.tr, t2) /\ Continues(client.tr, client.tr)
  <2>1. Continues(client.tr, tr) /\ Continues(client.tr, client.tr) /\ IsSeq(tr)
    BY <1>3, <1>4, ContinuesAppend, SeqAppend
  <2>2. Continues(tr, Append(tr, proof))
    BY <1>4, <2>1, ContinuesAppend
  <2> HIDE DEF tr
  <2>3. Continues(client.tr, Append(tr, proof))
    BY <2>1, <2>2 DEF Continues
  <2> QED
    BY <2>1, <2>3
<1> HIDE DEF t2
<1>8. /\ DOMAIN client' = ClientFields /\ client'.step = "SEND_EOED"
      /\ client'.tr = t2 \/ client'.tr = client.tr
      /\ client'.psk = client.psk /\ client'.peerCert = client.peerCert
      /\ client'.earlyAccepted = client.earlyAccepted /\ client'.earlyKey = client.earlyKey
      /\ client'.hsKey = client.hsKey /\ client'.appKey = client.appKey
      /\ client'.resumption = client.resumption /\ client'.why = client.why
      /\ client'.ccsSeen = client.ccsSeen /\ client'.early = client.early
      /\ client'.ticket = client.ticket
  BY <1>2, <1>3 DEF ClientFields
<1>9. ClientLocal(client')
  BY <1>1, <1>3, <1>7, <1>8, ClientGoesOn
<1>10. C2sOK(c2s', client') /\ EarlyOK(c2s', server, client'.early)
  <2>1. CASE c2s' = c2s
    BY <1>3, <1>8, <2>1, C2sFrame DEF Inv
  <2>2. CASE c2s' = c2s \o (<<rec>> \o IF proves THEN <<rec2>> ELSE << >>)
    <3> DEFINE more == IF proves THEN <<rec2>> ELSE << >>
               r == <<rec>> \o more
    <3>1. IsSeq(more) /\ \A j \in DOMAIN more : more[j] = rec2
      BY SeqShort, SeqAppend
    <3> HIDE DEF more
    <3>2. IsSeq(r) /\ \A i \in DOMAIN r : r[i] = rec \/ r[i] = rec2
      BY <3>1, SeqBehind
    <3>3. c2s' = c2s \o r
      BY <2>2 DEF more
    <3> HIDE DEF r
    <3>4. \A i \in DOMAIN r : /\ FromClient(r[i], client') /\ r[i].msg.type # "Finished"
                               /\ ~ Early(r[i])
      BY <1>6, <3>2
    <3>5. C2sOK(c2s \o r, client')
      BY <1>3, <3>2, <3>4, C2sSend DEF Inv
    <3>6. EarlyOK(c2s \o r, server, client.early)
      BY <3>2, <3>4, EarlySend DEF Inv, C2sOK
    <3> QED
      BY <1>8, <3>3, <3>5, <3>6
  <2> QED
    BY <1>2, <2>1, <2>2
<1> QED
  BY <1>1, <1>3, <1>8, <1>9, <1>10, ClientUndone DEF Inv

LEMMA SendEndOfEarlyDataInv == Inv /\ SendEndOfEarlyData => Inv'
<1> SUFFICES ASSUME Inv, SendEndOfEarlyData PROVE Inv'
  OBVIOUS
<1> DEFINE m == Msg("EndOfEarlyData")
           rec == Sealed(client.hsKey, m)
<1>1. client.step = "SEND_EOED" /\ UNCHANGED <<setting, server, s2c>>
  BY DEF SendEndOfEarlyData, ClientIn
<1>2. \/ /\ client' = [client EXCEPT !.step = "SEND_FINISHED", !.eoedSent = TRUE,
                                     !.tr = Append(@, m)]
         /\ c2s' = c2s \o <<rec>>
      \/ client' = [client EXCEPT !.step = "SEND_FINISHED"] /\ c2s' = c2s
  BY DEF SendEndOfEarlyData, ClientSends
<1>3. /\ ~ Done(client) /\ DOMAIN client = ClientFields /\ IsSeq(client.tr)
      /\ KeyOf(client.hsKey, "handshake") /\ ClientLocal(client)
  BY <1>1, ClientOpen DEF Inv, ClientLocal, ClientShape, EndShape
<1>4. m.type = "EndOfEarlyData" /\ rec.key = client.hsKey /\ rec.msg = m
  BY DEF Msg, Sealed
<1> HIDE DEF m, rec
<1>5. client.hsKey.level \in Secrets /\ client.hsKey.level # "early"
  BY <1>3, KeyLevels DEF KeyOf
<1>6. \A c2 : FromClient(rec, c2) /\ rec.msg.type # "Finished" /\ ~ Early(rec)
  BY <1>4, <1>5 DEF FromClient, Early
<1>7. Continues(client.tr, Append(client.tr, m)) /\ Continues(client.tr, client.tr)
  BY <1>3, <1>4, ContinuesAppend
<1>8. /\ DOMAIN client' = ClientFields /\ client'.step = "SEND_FINISHED"
      /\ client'.tr = Append(client.tr, m) \/ client'.tr = client.tr
      /\ client'.psk = client.psk /\ client'.peerCert = client.peerCert
      /\ client'.earlyAccepted = client.earlyAccepted /\ client'.earlyKey = client.earlyKey
      /\ client'.hsKey = client.hsKey /\ client'.appKey = client.appKey
      /\ client'.resumption = client.resumption /\ client'.why = client.why
      /\ client'.ccsSeen = client.ccsSeen /\ client'.early = client.early
      /\ client'.ticket = client.ticket
  BY <1>2, <1>3 DEF ClientFields
<1>9. ClientLocal(client')
  BY <1>1, <1>3, <1>7, <1>8, ClientGoesOn
<1>10. C2sOK(c2s', client') /\ EarlyOK(c2s', server, client'.early)
  <2>1. CASE c2s' = c2s
    BY <1>3, <1>8, <2>1, C2sFrame DEF Inv
  <2>2. CASE c2s' = c2s \o <<rec>>
    BY <1>3, <1>6, <1>8, <2>2, ClientSendsOne
  <2> QED
    BY <1>2, <2>1, <2>2
<1> QED
  BY <1>1, <1>3, <1>8, <1>9, <1>10, ClientUndone DEF Inv

LEMMA SendClientFinishedInv == Inv /\ SendClientFinished => Inv'
<1> SUFFICES ASSUME Inv, SendClientFinished PROVE Inv'
  OBVIOUS
<1> DEFINE m == Msg("Finished")
           t == Append(client.tr, m)
           rec == Proving(client.hsKey, m, client.tr)
<1>1. /\ client.step = "SEND_FINISHED" /\ UNCHANGED <<setting, server, s2c>>
      /\ client' = WithOwnFinished(client, t) /\ c2s' = c2s \o <<rec>>
  BY DEF SendClientFinished, ClientIn, ClientSends, WithOwnFinished
<1>2. /\ ~ Done(client) /\ KeyOf(client.hsKey, "handshake") /\ ClientLocal(client)
  BY <1>1, ClientOpen DEF Inv, ClientLocal, ClientShape, EndShape
<1>3. /\ m.type = "Finished" /\ rec.key = client.hsKey /\ rec.msg = m
      /\ rec.verify = client.tr
  BY DEF Msg, Proving
<1> HIDE DEF m, rec
<1>4. /\ ClientLocal(client') /\ client'.ticket = client.ticket /\ client'.early = client.early
      /\ client'.tr = t /\ client'.hsKey = client.hsKey /\ Done(client')
  <2>1. ClientLocal(client) /\ client.step = "SEND_FINISHED" /\ m.type = "Finished"
    BY <1>1, <1>2, <1>3
  <2>2. client' = WithOwnFinished(client, t)
    BY <1>1
  <2> QED
    BY <2>1, <2>2, SaysFinished
<1>5. client.hsKey.level \in Secrets /\ client.hsKey.level # "early"
  BY <1>2, KeyLevels DEF KeyOf
<1>6. FromClient(rec, client') /\ ~ Early(rec)
  BY <1>3, <1>4, <1>5 DEF FromClient, Early
<1>7. C2sOK(c2s', client')
  BY <1>1, <1>2, <1>6, C2sFinish DEF Inv
<1>8. EarlyOK(c2s', server, client'.early)
  <2>1. IsSeq(<<rec>>) /\ \A i \in DOMAIN <<rec>> : ~ Early(<<rec>>[i])
    BY <1>6, SeqShort, SeqAppend
  <2> QED
    BY <1>1, <1>4, <2>1, EarlySend DEF Inv, C2sOK
<1> QED
  BY <1>1, <1>2, <1>4, <1>7, <1>8, ClientUndone DEF Inv

LEMMA SendEarlyDataInv == Inv /\ SendEarlyData => Inv'
<1> SUFFICES ASSUME Inv, SendEarlyData PROVE Inv'
  OBVIOUS
<1> DEFINE m == [type |-> "data", unit |-> client.early + 1]
           rec == Sealed(client.earlyKey, m)
<1>1. /\ client.step \in ClientReadSteps /\ client.earlyKey # Plain /\ client.early < MaxEarly
      /\ client' = [client EXCEPT !.early = @ + 1] /\ c2s' = c2s \o <<rec>>
      /\ UNCHANGED <<setting, server, s2c>>
  BY DEF SendEarlyData, ClientIn, ClientSends
<1>2. /\ ~ Done(client) /\ DOMAIN client = ClientFields /\ ClientLocal(client)
      /\ client.early \in 0 .. MaxEarly /\ client.ccsSeen \in 0 .. 2
      /\ KeyOf(client.earlyKey, "early")
  BY <1>1, ClientOpen DEF Inv, ClientLocal, ClientShape, EndShape, ClientReadSteps
<1>3. rec.key = client.earlyKey /\ rec.msg.type = "data" /\ rec.msg.unit = client.early + 1
  BY DEF Sealed
<1> HIDE DEF m, rec
<1>4. client.early + 1 \in 0 .. MaxEarly /\ MaxEarly \in Nat
  BY <1>1, <1>2, ScenarioAssumption
<1>5. /\ DOMAIN client' = ClientFields /\ client'.early = client.early + 1
      /\ client'.ccsSeen = client.ccsSeen
      /\ client'.step = client.step /\ client'.why = client.why
      /\ client'.peerCert = client.peerCert
      /\ client'.earlyKey = client.earlyKey /\ client'.tr = client.tr
      /\ client'.hsKey = client.hsKey /\ client'.psk = client.psk
      /\ client'.appKey = client.appKey /\ client'.resumption = client.resumption
      /\ client'.ticket = client.ticket /\ client'.earlyAccepted = client.earlyAccepted
  BY <1>1, <1>2 DEF ClientFields
<1>6. ClientLocal(client')
  BY <1>2, <1>4, <1>5, ClientCounts
<1>7. FromClient(rec, client') /\ rec.msg.type # "Finished"
  BY <1>2, <1>3, KeyLevels DEF FromClient
<1>8. C2sOK(c2s', client')
  BY <1>1, <1>2, <1>7, C2sFinish DEF Inv
<1>9. EarlyOK(c2s', server, client'.early)
  <2>0. EarlyOK(c2s, server, client.early) /\ IsSeq(c2s) /\ Len(server.early) \in Nat
    BY DEF Inv, C2sOK, ServerLocal, ServerShape
  <2>1. CASE Early(rec)
    <3>1. Tracks(server) => EarlyRun(c2s \o <<rec>>, Len(server.early), client.early + 1)
      BY <1>3, <2>0, <2>1, RunExtend DEF EarlyOK
    <3> QED
      BY <1>1, <1>2, <1>5, <2>0, <3>1 DEF EarlyOK
  <2>2. CASE ~ Early(rec)
    <3>1. client.earlyKey.level = "plain"
      BY <1>2, <1>3, <2>2 DEF KeyOf, Early
    <3> QED
      BY <1>1, <1>2, <3>1 DEF KeyOf
  <2> QED
    BY <2>1, <2>2
<1> QED
  BY <1>1, <1>2, <1>5, <1>6, <1>8, <1>9, ClientUndone DEF Inv

(* The client closes, whatever it has done before. *)
LEMMA ClientClosesInv ==
    ASSUME Inv, NEW why \in Causes \ {"none"}, client' = Closed(client, why),
           setting' = setting, server' = server, c2s' = c2s, S2cOK(s2c', server)
    PROVE  Inv'
<1>1. ClientLocal(client') /\ ClientKeeps(client, client')
  BY ClientCloses DEF Inv
<1>2. C2sOK(c2s', client')
  BY <1>1, C2sFrame DEF Inv, ClientKeeps
<1>3. DoneOK(client', server') /\ TicketOK(client', server')
  BY <1>1 DEF Inv, DoneOK, TicketOK, ClientKeeps, Done
<1>4. ServerLocal(server') /\ S2cOK(s2c', server') /\ EarlyOK(c2s', server', client'.early)
  BY <1>1 DEF Inv, ClientKeeps
<1> QED
  BY <1>1, <1>2, <1>3, <1>4, InvNext DEF Inv

LEMMA ReceiveTicketInv == Inv /\ ReceiveTicket => Inv'
<1> SUFFICES ASSUME Inv, ReceiveTicket PROVE Inv'
  OBVIOUS
<1>1. /\ client.step = "CONNECTED" /\ s2c # << >> /\ s2c' = Tail(s2c)
      /\ UNCHANGED <<setting, server, c2s>>
  BY DEF ReceiveTicket, ClientIn, ClientTakes
<1>2. S2cOK(s2c', server) /\ FromServer(Head(s2c), server)
  BY <1>1, S2cTail DEF Inv
<1>3. CASE client' = Closed(client, "protocol")
  BY <1>1, <1>2, <1>3, ClientClosesInv DEF Causes
<1>4. CASE client' # Closed(client, "protocol")
  <2>1. client' = [client EXCEPT !.ticket = client.resumption] /\ Done(server)
    BY <1>2, <1>4 DEF ReceiveTicket, FromServer
  <2>2. ClientLocal(client) /\ Done(client) /\ DOMAIN client = ClientFields
    BY <1>1 DEF Inv, ClientLocal, ClientShape
  <2>3. /\ DOMAIN client' = ClientFields /\ client'.ticket = client.resumption
        /\ client'.ccsSeen = client.ccsSeen /\ client'.early = client.early
        /\ client'.step = client.step /\ client'.why = client.why
        /\ client'.peerCert = client.peerCert
        /\ client'.earlyKey = client.earlyKey /\ client'.tr = client.tr
        /\ client'.hsKey = client.hsKey /\ client'.psk = client.psk
        /\ client'.appKey = client.appKey /\ client'.resumption = client.resumption
        /\ client'.earlyAccepted = client.earlyAccepted
    BY <2>1, <2>2 DEF ClientFields
  <2>4. ClientShape(client')
    BY <2>2, <2>3 DEF ClientLocal, ClientShape, EndShape
  <2>5. ClientLocal(client')
    BY <2>2, <2>3, <2>4 DEF ClientLocal, Done
  <2>6. C2sOK(c2s', client')
    BY <1>1, <2>3, C2sFrame DEF Inv
  <2>7. DoneOK(client', server') /\ TicketOK(client', server')
    BY <1>1, <2>1, <2>3 DEF Inv, DoneOK, TicketOK, Done
  <2>8. ServerLocal(server') /\ S2cOK(s2c', server') /\ EarlyOK(c2s', server', client'.early)
    BY <1>1, <1>2, <2>3 DEF Inv
  <2> QED
    BY <1>1, <2>5, <2>6, <2>7, <2>8, InvNext DEF Inv
<1> QED
  BY <1>3, <1>4

LEMMA ClientEndsInv == Inv /\ (ClientSeesEnd \/ ClientAborts) => Inv'
  BY ClientClosesInv DEF ClientSeesEnd, ClientAborts, Causes, Inv

-----------------------------------------------------------------------------
(* The server's handlers *)

(* What a server in progress is *)
LEMMA ServerOpen ==
    ASSUME NEW sv, ServerLocal(sv)
    PROVE  /\ sv.step \notin {"SEND_NST", "CONNECTED", "CLOSED"} => ~ Done(sv)
           /\ sv.step # "CLOSED" => sv.why = "none"
           /\ DOMAIN sv = ServerFields /\ IsSeq(sv.tr) /\ Len(sv.early) \in Nat
           /\ KeyOf(sv.hsKey, "handshake") /\ KeyOf(sv.earlyKey, "early")
           /\ KeyOf(sv.appKey, "application") /\ sv.ccsSeen \in 0 .. 2
  BY DEF ServerLocal, ServerShape, EndShape

ServerKeeps(sv, s2) ==
    /\ s2.tr = sv.tr /\ s2.hsKey = sv.hsKey /\ s2.appKey = sv.appKey /\ s2.psk = sv.psk
    /\ s2.resumption = sv.resumption /\ s2.early = sv.early

(* An error leaves everything but the step, from whatever the handler made  *)
(* of its context before.                                                   *)
LEMMA ServerCloses ==
    ASSUME NEW sv, NEW why \in Causes \ {"none"}, ServerShape(sv),
           sv.store => setting.ticket = "known"
    PROVE  ServerLocal(Closed(sv, why)) /\ ServerKeeps(sv, Closed(sv, why))
<1> DEFINE s2 == Closed(sv, why)
<1>1. /\ DOMAIN s2 = ServerFields /\ s2.step = "CLOSED" /\ s2.why = why
      /\ s2.earlyKey = sv.earlyKey /\ s2.ccsSeen = sv.ccsSeen /\ s2.store = sv.store
      /\ ServerKeeps(sv, s2)
  BY DEF Closed, ServerShape, ServerFields, ServerKeeps
<1> HIDE DEF s2
<1>2. ServerShape(s2)
  BY <1>1 DEF ServerShape, EndShape, ServerKeeps, ServerSteps
<1>3. s2.step \notin ServerBeforeFin /\ s2.step \notin ServerBeforeEe /\ s2.step \notin ServerBeforeSh
  BY <1>1 DEF ServerBeforeFin, ServerSendSteps, ServerBeforeSh, ServerBeforeEe
<1>4. ServerLocal(s2)
  BY <1>1, <1>2, <1>3 DEF ServerLocal
<1> QED
  BY <1>1, <1>4 DEF s2

(* A step of a server that was not done, when the client's records and the  *)
(* account of early data are known to be right afterwards.                  *)
LEMMA ServerUndone ==
    ASSUME Inv, ~ Done(server), ~ Done(server'), setting' = setting, client' = client,
           ServerLocal(server'), C2sOK(c2s', client), S2cOK(s2c', server'),
           EarlyOK(c2s', server', client.early)
    PROVE  Inv'
<1>1. DoneOK(client', server') /\ TicketOK(client', server')
  BY DEF Inv, DoneOK, TicketOK
<1>2. ClientLocal(client') /\ C2sOK(c2s', client') /\ EarlyOK(c2s', server', client'.early)
  BY DEF Inv
<1> QED
  BY <1>1, <1>2, InvNext DEF Inv

(* The account of early data when a record that is not early is taken *)
LEMMA EarlyTail ==
    ASSUME NEW q, NEW sv, NEW s2, NEW sent, IsSeq(q), q # << >>, EarlyOK(q, sv, sent),
           s2.early = sv.early, Tracks(s2) => Tracks(sv) /\ ~ Early(Head(q))
    PROVE  EarlyOK(Tail(q), s2, sent)
  BY RunTail DEF EarlyOK

LEMMA EarlyKeep ==
    ASSUME NEW q, NEW sv, NEW s2, NEW sent, EarlyOK(q, sv, sent),
           s2.early = sv.early, Tracks(s2) => Tracks(sv)
    PROVE  EarlyOK(q, s2, sent)
  BY DEF EarlyOK

(* The server closes, with or without the record that made it. *)
LEMMA ServerClosesInv ==
    ASSUME Inv, NEW sv, NEW why \in Causes \ {"none"}, server' = Closed(sv, why),
           ServerShape(sv), sv.store => setting.ticket = "known",
           sv.early = server.early, Done(sv) <=> Done(server),
           Done(server) => ServerKeeps(server, sv),
           setting' = setting, client' = client, s2c' = s2c,
           c2s' = c2s \/ (c2s # << >> /\ c2s' = Tail(c2s))
    PROVE  Inv'
<1>1. ServerLocal(server') /\ ServerKeeps(sv, server') /\ ~ Tracks(server')
  <2>1. ServerLocal(server') /\ ServerKeeps(sv, server')
    BY ServerCloses
  <2>2. server'.step = "CLOSED"
    BY DEF Closed, ServerShape, ServerFields
  <2> QED
    BY <2>1, <2>2 DEF Tracks
<1>2. C2sOK(c2s', client')
  BY C2sTail DEF Inv
<1>3. S2cOK(s2c', server')
  BY <1>1, S2cFrame DEF Inv, ServerKeeps, Done
<1>4. EarlyOK(c2s', server', client'.early)
  BY <1>1 DEF Inv, EarlyOK, ServerKeeps
<1>5. DoneOK(client', server') /\ TicketOK(client', server')
  BY <1>1 DEF Inv, DoneOK, TicketOK, ServerKeeps, Done
<1> QED
  BY <1>1, <1>2, <1>3, <1>4, <1>5, InvNext DEF Inv

LEMMA ServerEndsInv == Inv /\ (ServerSeesEnd \/ ServerAborts) => Inv'
<1>1. Inv => ServerShape(server) /\ (server.store => setting.ticket = "known")
  BY DEF Inv, ServerLocal
<1>2. ServerKeeps(server, server)
  BY DEF ServerKeeps
<1> QED
  BY <1>1, <1>2, ServerClosesInv DEF ServerSeesEnd, ServerAborts, Causes

-----------------------------------------------------------------------------
(* The server's choice of a PSK *)

LEMMA OfferedAtMostTwo == DOMAIN OfferedPsks \subseteq 1 .. 2
<1> DEFINE S == {"ticket", "external"}
           a == IF HasTicket THEN <<"ticket">> ELSE << >>
           b == IF HasExternal THEN <<"external">> ELSE << >>
<1>0. /\ << >> \in Seq(S) /\ Len(<< >>) = 0
      /\ <<"ticket">> \in Seq(S) /\ Len(<<"ticket">>) = 1
      /\ <<"external">> \in Seq(S) /\ Len(<<"external">>) = 1
  OBVIOUS
<1>1. a \in Seq(S) /\ b \in Seq(S) /\ Len(a) \in {0, 1} /\ Len(b) \in {0, 1}
  BY <1>0
<1>2. OfferedPsks = a \o b
  BY DEF OfferedPsks
<1> HIDE DEF a, b
<1>3. OfferedPsks \in Seq(S) /\ Len(OfferedPsks) = Len(a) + Len(b)
  BY <1>1, <1>2
<1>4. DOMAIN OfferedPsks = 1 .. Len(OfferedPsks)
  BY <1>3
<1>5. Len(OfferedPsks) \in {0, 1, 2}
  <2>1. \A x, y \in {0, 1} : x + y \in {0, 1, 2}
    OBVIOUS
  <2> QED
    BY <1>1, <1>3, <2>1, Zenon
<1> QED
  BY <1>4, <1>5

(* What selecting leaves alone, and that it selects only what the server has *)
Selected(sv, s2) ==
    /\ DOMAIN s2 = ServerFields
    /\ s2.step = sv.step /\ s2.tr = sv.tr /\ s2.sentHrr = sv.sentHrr
    /\ s2.earlyKey = sv.earlyKey /\ s2.hsKey = sv.hsKey /\ s2.appKey = sv.appKey
    /\ s2.ccsSeen = sv.ccsSeen /\ s2.early = sv.early /\ s2.peerCert = sv.peerCert
    /\ s2.resumption = sv.resumption /\ s2.why = sv.why
    /\ s2.psk = "bad" \/ PskValid(s2.psk)
    /\ s2.store => setting.ticket = "known"

LEMMA SelectPskSelects ==
    ASSUME NEW sv, NEW ch, NEW prefix, DOMAIN sv = ServerFields,
           sv.store => setting.ticket = "known", ch.psks = OfferedPsks
    PROVE  Selected(sv, SelectPsk(sv, ch, prefix))
<1> DEFINE cleared == [sv EXCEPT !.psk = "none", !.useDhe = FALSE]
           usable == { i \in DOMAIN ch.psks :
                         \/ ch.psks[i] = "ticket" /\ sv.store
                         \/ ch.psks[i] = "external" /\ ServerHasExternal }
           i == CHOOSE k \in usable : \A n \in usable : k <= n
<1>1. SelectPsk(sv, ch, prefix) =
        IF usable = {} THEN cleared
        ELSE IF ch.psks[i] = "ticket" THEN TryTicket(cleared, ch, i, prefix)
                                      ELSE TryExternal(cleared, ch, i, prefix)
  BY DEF SelectPsk
<1>2. Selected(sv, cleared) /\ DOMAIN cleared = ServerFields /\ cleared.store = sv.store
  BY DEF Selected, ServerFields, PskValid
<1>3. usable # {} => i \in usable
  <2>1. usable \subseteq 1 .. 2
    BY OfferedAtMostTwo
  <2> HIDE DEF usable
  <2>2. ASSUME usable # {} PROVE \E k \in usable : \A n \in usable : k <= n
    <3>1. CASE 1 \in usable
      BY <2>1, <3>1
    <3>2. CASE 1 \notin usable
      <4>1. \A n \in usable : n = 2
        BY <2>1, <3>2
      <4> QED
        BY <2>2, <4>1
    <3> QED
      BY <3>1, <3>2
  <2> QED
    BY <2>2
<1>4. /\ usable # {} /\ ch.psks[i] = "ticket" => sv.store
      /\ usable # {} /\ ch.psks[i] # "ticket" => ServerHasExternal
  BY <1>3
<1> HIDE DEF cleared, usable, i
<1>5. usable # {} /\ ch.psks[i] = "ticket" => Selected(sv, TryTicket(cleared, ch, i, prefix))
  BY <1>2, <1>4 DEF TryTicket, Selected, ServerFields, PskValid
<1>6. usable # {} /\ ch.psks[i] # "ticket" => Selected(sv, TryExternal(cleared, ch, i, prefix))
  BY <1>2, <1>4 DEF TryExternal, Selected, ServerFields, PskValid
<1> QED
  BY <1>1, <1>2, <1>5, <1>6

-----------------------------------------------------------------------------
(* The server's actions *)

(* A hello is not early data. *)
LEMMA HeadOfC2s ==
    ASSUME Inv, c2s # << >>
    PROVE  /\ FromClient(Head(c2s), client) /\ C2sOK(Tail(c2s), client) /\ IsSeq(c2s)
           /\ Head(c2s).msg.type = "ClientHello" => ~ Early(Head(c2s))
           /\ Head(c2s).msg.type = "Finished" => Len(c2s) = 1
<1>0. IsSeq(c2s) /\ 1 \in DOMAIN c2s
  BY SeqTail DEF Inv, C2sOK
<1>1. FromClient(c2s[1], client) /\ (c2s[1].msg.type = "Finished" => 1 = Len(c2s))
  BY <1>0 DEF Inv, C2sOK
<1> QED
  BY <1>1, SeqTail, C2sTail DEF Inv, C2sOK, FromClient, Early

(* The hello is accepted: *)
HelloTaken(sv, s2) ==
    /\ DOMAIN s2 = ServerFields /\ s2.step = "SEND_SH" /\ PskValid(s2.psk)
    /\ s2.earlyKey = sv.earlyKey /\ s2.hsKey = sv.hsKey /\ s2.appKey = sv.appKey
    /\ s2.ccsSeen = sv.ccsSeen /\ s2.early = sv.early /\ s2.resumption = sv.resumption
    /\ s2.why = sv.why /\ s2.sentHrr = sv.sentHrr
    /\ s2.store => setting.ticket = "known"
    /\ s2.sentHrr => ~ s2.offeredEarly

LEMMA HelloTakenLocal ==
    ASSUME NEW sv, NEW s2, NEW ch, ServerLocal(sv), sv.step = "RECV_CH", HelloTaken(sv, s2),
           s2.tr = Append(sv.tr, ch), ch.type = "ClientHello"
    PROVE  ServerLocal(s2) /\ ~ Done(s2)
<1>1. ~ Done(sv) /\ ~ Done(s2) /\ IsSeq(sv.tr) /\ sv.early = << >> /\ s2.early = << >>
  BY ServerOpen DEF ServerLocal, HelloTaken, Done
<1>2. IsSeq(s2.tr)
  BY <1>1, SeqAppend
<1>3. ServerShape(s2)
  BY <1>2 DEF ServerLocal, ServerShape, EndShape, HelloTaken, ServerSteps, ServerSendSteps
<1>4. /\ ~ Mentions(s2.tr, "ServerHello") /\ ~ Mentions(s2.tr, "EncryptedExtensions")
      /\ ~ Mentions(s2.tr, "Finished")
  BY <1>1, MentionsAppend DEF ServerLocal, ServerBeforeSh, ServerBeforeEe, ServerBeforeFin
<1> QED
  BY <1>1, <1>3, <1>4
     DEF ServerLocal, HelloTaken, ServerBeforeSh, ServerBeforeEe, ServerBeforeFin,
         ServerSendSteps, AcceptsEarly

(* A retry is asked for: *)
RetryAsked(s1, tr, hrr, group) ==
    [s1 EXCEPT !.tr = AfterRetryRequest(tr, hrr), !.sentHrr = TRUE, !.hrrGroup = group]

LEMMA RetryAskedLocal ==
    ASSUME NEW sv, NEW s1, NEW s2, NEW tr, NEW hrr, NEW group, ServerLocal(sv),
           sv.step = "RECV_CH", Selected(sv, s1), hrr.type = "HelloRetryRequest",
           s2 = RetryAsked(s1, tr, hrr, group)
    PROVE  ServerLocal(s2) /\ ~ Done(s2) /\ ~ Tracks(s2) /\ s2.early = sv.early
<1>1. /\ DOMAIN s2 = ServerFields /\ s2.step = "RECV_CH" /\ s2.sentHrr
      /\ s2.tr = AfterRetryRequest(tr, hrr)
      /\ s2.earlyKey = sv.earlyKey /\ s2.hsKey = sv.hsKey /\ s2.appKey = sv.appKey
      /\ s2.ccsSeen = sv.ccsSeen /\ s2.early = sv.early /\ s2.resumption = sv.resumption
      /\ s2.why = sv.why /\ (s2.store => setting.ticket = "known")
  BY DEF Selected, ServerFields, RetryAsked
<1>2. ~ Done(sv) /\ ~ Done(s2) /\ sv.early = << >>
  BY <1>1 DEF ServerLocal, Done
<1>3. IsSeq(s2.tr) /\ \A type \in {"ServerHello", "EncryptedExtensions", "Finished"} :
                         ~ Mentions(s2.tr, type)
  BY <1>1, RetryTranscript
<1>4. ServerShape(s2)
  BY <1>1, <1>3 DEF ServerLocal, ServerShape, EndShape, ServerSteps, ServerReadSteps
<1>5. ServerLocal(s2)
  BY <1>1, <1>2, <1>3, <1>4
     DEF ServerLocal, ServerBeforeSh, ServerBeforeEe, ServerBeforeFin, ServerSendSteps
<1> QED
  BY <1>1, <1>2, <1>5 DEF Tracks

LEMMA ProcessClientHelloInv ==
    ASSUME Inv, server.step = "RECV_CH", c2s # << >>, c2s' = Tail(c2s),
           UNCHANGED <<setting, client>>, NEW ch, ch = Head(c2s).msg,
           ch.type = "ClientHello", ProcessClientHello(ch)
    PROVE  Inv'
<1> DEFINE prefix == IF server.sentHrr THEN server.tr ELSE << >>
           tr == IF server.sentHrr THEN server.tr ELSE Append(server.tr, ch)
           s0 == SelectPsk(server, ch, prefix)
           sv == [s0 EXCEPT !.offeredEarly = ch.early]
           needsShare == sv.psk = "none" \/ sv.useDhe
           group == First(setting.serverGroups, ch.shares)
<1>1. /\ ServerLocal(server) /\ ServerShape(server) /\ ~ Done(server)
      /\ server.store => setting.ticket = "known"
  BY ServerOpen DEF Inv, ServerLocal
<1>2. ch.psks = OfferedPsks /\ ~ Early(Head(c2s)) /\ C2sOK(c2s', client) /\ IsSeq(c2s)
  BY HeadOfC2s DEF FromClient
<1>3. Selected(server, s0)
  BY <1>1, <1>2, SelectPskSelects DEF ServerShape
<1>4. Selected(server, sv) /\ sv.offeredEarly = ch.early
  <2> HIDE DEF s0
  <2> QED
    BY <1>3 DEF Selected, ServerFields
<1>5. \/ server' = Closed(server, "protocol") /\ s2c' = s2c
      \/ server' = Closed(sv, "no_share") /\ s2c' = s2c
      \/ SendRetryRequest(sv, tr)
      \/ /\ server' = [sv EXCEPT !.step = "SEND_SH",
                                 !.group = IF needsShare THEN group ELSE "none",
                                 !.tr = IF server.sentHrr THEN Append(tr, ch) ELSE tr]
         /\ s2c' = s2c
         /\ sv.psk # "bad" /\ (server.sentHrr => ~ ch.early)
  BY DEF ProcessClientHello
<1> HIDE DEF sv, needsShare, group, s0
<1>6. ServerShape(sv) /\ ~ Done(sv) /\ sv.early = server.early
  BY <1>1, <1>4 DEF ServerShape, EndShape, Selected, Done
<1>7. ASSUME NEW why \in {"no_share", "no_group"}, server' = Closed(sv, why), s2c' = s2c
      PROVE  Inv'
  BY <1>1, <1>4, <1>6, <1>7, ServerClosesInv DEF Causes, Selected
<1>8. CASE server' = Closed(server, "protocol") /\ s2c' = s2c
  BY <1>1, <1>8, ServerClosesInv DEF Causes
<1>9. CASE SendRetryRequest(sv, tr)
  <2> DEFINE g == First(setting.groups, ElementsOf(setting.serverGroups))
             hrr == [type |-> "HelloRetryRequest", group |-> g]
             rec == Sealed(Plain, hrr)
  <2>1. CASE server' = Closed(sv, "no_group") /\ s2c' = s2c
    BY <1>7, <2>1
  <2>2. CASE ~ (server' = Closed(sv, "no_group") /\ s2c' = s2c)
    <3>1. server' = RetryAsked(sv, tr, hrr, g) /\ s2c' = s2c \o <<rec, CCS>>
      BY <1>9, <2>2 DEF SendRetryRequest, ServerSends, RetryAsked
    <3>2. hrr.type = "HelloRetryRequest" /\ rec.key = Plain /\ rec.msg = hrr
      BY DEF Sealed
    <3> HIDE DEF hrr, g, rec, tr
    <3>3. ServerLocal(server') /\ ~ Done(server') /\ ~ Tracks(server')
          /\ server'.early = server.early
      BY <1>1, <1>4, <3>1, <3>2, RetryAskedLocal
    <3>4. S2cOK(s2c', server')
      <4> DEFINE r == <<rec, CCS>>
      <4>1. IsSeq(r) /\ DOMAIN r = 1 .. 2 /\ r[1] = rec /\ r[2] = CCS
        BY SeqShort, SeqAppend
      <4>2. FromServer(rec, server')
        BY <3>2, PlainKey DEF FromServer, Secrets
      <4>3. s2c' = s2c \o r
        BY <3>1
      <4> HIDE DEF r
      <4>4. \A i \in DOMAIN r : FromServer(r[i], server')
        BY <4>1, <4>2, CcsRecord
      <4> QED
        BY <1>1, <4>1, <4>3, <4>4, S2cSend DEF Inv
    <3>5. EarlyOK(c2s', server', client.early)
      BY <3>3 DEF Inv, EarlyOK
    <3> QED
      BY <1>1, <1>2, <3>3, <3>4, <3>5, ServerUndone
  <2> QED
    BY <2>1, <2>2
<1>10. CASE /\ server' = [sv EXCEPT !.step = "SEND_SH",
                                    !.group = IF needsShare THEN group ELSE "none",
                                    !.tr = IF server.sentHrr THEN Append(tr, ch) ELSE tr]
            /\ s2c' = s2c
            /\ sv.psk # "bad" /\ (server.sentHrr => ~ ch.early)
  <2>1. (IF server.sentHrr THEN Append(tr, ch) ELSE tr) = Append(server.tr, ch)
    OBVIOUS
  <2>2. HelloTaken(server, server') /\ server'.tr = Append(server.tr, ch)
    BY <1>4, <1>10, <2>1 DEF Selected, HelloTaken, ServerFields
  <2>3. ServerLocal(server') /\ ~ Done(server')
    BY <1>1, <2>2, HelloTakenLocal
  <2>4. S2cOK(s2c', server')
    BY <1>1, <1>10, S2cFrame DEF Inv
  <2>5. Tracks(server') => Tracks(server)
    BY <1>1, <2>2 DEF Tracks, HelloTaken, AcceptsEarly
  <2>6. EarlyOK(c2s', server', client.early)
    BY <1>2, <2>2, <2>5, EarlyTail DEF Inv, HelloTaken
  <2> QED
    BY <1>1, <1>2, <2>3, <2>4, <2>6, ServerUndone
<1> QED
  BY <1>5, <1>7, <1>8, <1>9, <1>10

LEMMA ReceiveClientHelloInv == Inv /\ ReceiveClientHello => Inv'
<1> SUFFICES ASSUME Inv, ReceiveClientHello PROVE Inv'
  OBVIOUS
<1> DEFINE rec == Head(c2s)
<1>1. /\ server.step = "RECV_CH" /\ c2s # << >> /\ c2s' = Tail(c2s)
      /\ UNCHANGED <<setting, client>>
  BY DEF ReceiveClientHello, ServerIn, ServerTakes
<1>2. \/ rec.msg.type = "ClientHello" /\ ProcessClientHello(rec.msg)
      \/ server.sentHrr /\ UNCHANGED <<server, s2c>>
      \/ server' = Closed(server, "protocol") /\ UNCHANGED s2c
  BY DEF ReceiveClientHello
<1>3. /\ ServerLocal(server) /\ ServerShape(server) /\ ~ Done(server)
      /\ server.store => setting.ticket = "known"
  BY <1>1, ServerOpen DEF Inv, ServerLocal
<1>4. CASE rec.msg.type = "ClientHello" /\ ProcessClientHello(rec.msg)
  BY <1>1, <1>4, ProcessClientHelloInv
<1>5. CASE server.sentHrr /\ UNCHANGED <<server, s2c>>
  <2>1. C2sOK(c2s', client) /\ IsSeq(c2s)
    BY <1>1, HeadOfC2s
  <2>2. EarlyOK(c2s', server', client.early)
    BY <1>1, <1>5, <2>1, EarlyTail DEF Inv, Tracks
  <2> QED
    BY <1>1, <1>3, <1>5, <2>1, <2>2, ServerUndone DEF Inv
<1>6. CASE server' = Closed(server, "protocol") /\ UNCHANGED s2c
  BY <1>1, <1>3, <1>6, ServerClosesInv DEF Causes
<1> QED
  BY <1>2, <1>4, <1>5, <1>6

(* What every step after the hello keeps *)
ServerHolds(sv, s2) ==
    /\ DOMAIN s2 = ServerFields /\ s2.psk = sv.psk /\ s2.offeredEarly = sv.offeredEarly
    /\ s2.sentHrr = sv.sentHrr /\ s2.store = sv.store /\ s2.why = sv.why

LEMMA SendServerHelloInv == Inv /\ SendServerHello => Inv'
<1> SUFFICES ASSUME Inv, SendServerHello PROVE Inv'
  OBVIOUS
<1> DEFINE sh == [type |-> "ServerHello", psk |-> server.psk, group |-> server.group]
           tr == Append(server.tr, sh)
           ekey == IF server.psk # "none" /\ server.offeredEarly
                   THEN EarlySecret(server.pskKey, Head(tr)) ELSE Plain
           hkey == HandshakeSecret(IF server.psk = "none" THEN "none" ELSE server.pskKey,
                                   server.group, tr)
           rec == Sealed(Plain, sh)
           more == IF server.sentHrr THEN << >> ELSE <<CCS>>
<1>1. /\ server.step = "SEND_SH" /\ UNCHANGED <<setting, client, c2s>>
      /\ server' = [server EXCEPT !.step = "SEND_EE", !.tr = tr, !.earlyKey = ekey,
                                  !.hsKey = hkey]
      /\ s2c' = s2c \o (<<rec>> \o more)
  BY DEF SendServerHello, ServerIn, ServerSends
<1>2. /\ ServerLocal(server) /\ ~ Done(server) /\ DOMAIN server = ServerFields
      /\ server.why = "none" /\ server.step # "RECV_CH" /\ server.step # "CLOSED"
      /\ IsSeq(server.tr)
  BY <1>1, ServerOpen DEF Inv
<1>3. /\ sh.type = "ServerHello" /\ sh.psk = server.psk /\ rec.key = Plain /\ rec.msg = sh
      /\ KeyOf(ekey, "early") /\ KeyOf(hkey, "handshake")
      /\ AcceptsEarly(server) => ekey.level = "early"
  BY PlainKey DEF Sealed, EarlySecret, HandshakeSecret, Secret, KeyOf, AcceptsEarly
<1> HIDE DEF sh, ekey, hkey, rec
<1>4. /\ ServerHolds(server, server') /\ server'.step = "SEND_EE" /\ server'.tr = tr
      /\ server'.earlyKey = ekey /\ server'.hsKey = hkey /\ server'.appKey = server.appKey
      /\ server'.ccsSeen = server.ccsSeen /\ server'.early = server.early
      /\ server'.resumption = server.resumption
  BY <1>1, <1>2 DEF ServerFields, ServerHolds
<1>5. ServerShape(server') /\ ~ Done(server')
  BY <1>2, <1>3, <1>4, SeqAppend
     DEF ServerLocal, ServerShape, EndShape, ServerHolds, ServerSteps, ServerSendSteps, Done
<1>6. /\ ~ Mentions(server'.tr, "EncryptedExtensions") /\ ~ Mentions(server'.tr, "Finished")
      /\ ShowsPsk(server'.tr, server'.psk) /\ PskValid(server'.psk)
  BY <1>1, <1>2, <1>3, <1>4, MentionsAppend, ShowsPskAppend
     DEF ServerLocal, ServerBeforeSh, ServerBeforeEe, ServerBeforeFin, ServerSendSteps,
         ServerHolds
<1>7. ServerLocal(server')
  BY <1>1, <1>2, <1>3, <1>4, <1>5, <1>6
     DEF ServerLocal, ServerHolds, ServerBeforeSh, ServerBeforeEe, ServerBeforeFin,
         ServerSendSteps, AcceptsEarly
<1>8. S2cOK(s2c', server')
  <2>1. FromServer(rec, server')
    BY <1>3, <1>4, <1>6, PlainKey DEF FromServer, Secrets, ServerHolds
  <2>2. IsSeq(more) /\ \A j \in DOMAIN more : more[j] = CCS
    BY SeqShort, SeqAppend
  <2> DEFINE r == <<rec>> \o more
  <2> HIDE DEF more
  <2>3. IsSeq(r) /\ \A i \in DOMAIN r : r[i] = rec \/ r[i] = CCS
    BY <2>2, SeqBehind
  <2> HIDE DEF r
  <2>4. \A i \in DOMAIN r : FromServer(r[i], server')
    BY <2>1, <2>3, CcsRecord
  <2>5. S2cOK(s2c \o r, server')
    BY <1>2, <2>3, <2>4, S2cSend DEF Inv
  <2> QED
    BY <1>1, <2>5 DEF r, more
<1>9. EarlyOK(c2s', server', client.early)
  <2>1. Tracks(server') => Tracks(server)
    BY <1>2, <1>4 DEF Tracks, ServerHolds, AcceptsEarly
  <2> QED
    BY <1>1, <1>4, <2>1, EarlyKeep DEF Inv
<1> QED
  BY <1>1, <1>2, <1>5, <1>7, <1>8, <1>9, ServerUndone DEF Inv

(* The steps between EncryptedExtensions and Finished, and those between    *)
(* the server's Finished and the client's                                   *)
LEMMA ServerGoesOn ==
    ASSUME NEW sv, NEW s2, ServerLocal(sv), ServerHolds(sv, s2), Continues(sv.tr, s2.tr),
           s2.earlyKey = sv.earlyKey, s2.hsKey = sv.hsKey, s2.appKey = sv.appKey,
           s2.resumption = sv.resumption, s2.ccsSeen \in 0 .. 2,
           s2.early \in Seq(Nat), Len(s2.early) <= EarlyLimit,
           ~ AcceptsEarly(sv) => s2.early = sv.early,
           \/ /\ sv.step \in {"SEND_CERT_REQ", "SEND_CERT", "SEND_CERT_VERIFY"}
              /\ s2.step \in {"SEND_CERT", "SEND_CERT_VERIFY", "SEND_FINISHED"}
           \/ /\ sv.step \in {"RECV_CLIENT_CERT", "RECV_CLIENT_CERT_VERIFY", "RECV_FINISHED"}
              /\ s2.step \in {"RECV_CLIENT_CERT", "RECV_CLIENT_CERT_VERIFY", "RECV_FINISHED"},
           s2.step = "RECV_CLIENT_CERT_VERIFY" => setting.clientCert = "good",
           s2.step = "RECV_FINISHED" /\ setting.auth = "require" =>
               s2.peerCert = "proved" /\ setting.clientCert = "good"
    PROVE  ServerLocal(s2) /\ ~ Done(s2)
<1>1. ~ Done(sv) /\ ~ Done(s2) /\ IsSeq(s2.tr) /\ (AcceptsEarly(s2) <=> AcceptsEarly(sv))
  BY DEF ServerLocal, Continues, Done, ServerHolds, AcceptsEarly
<1>2. ServerShape(s2)
  BY <1>1
     DEF ServerLocal, ServerShape, EndShape, ServerHolds, ServerSteps, ServerSendSteps,
         ServerReadSteps
<1>3. /\ ShowsPsk(s2.tr, s2.psk) /\ PskValid(s2.psk)
      /\ s2.step \in {"SEND_CERT", "SEND_CERT_VERIFY", "SEND_FINISHED"} =>
           ~ Mentions(s2.tr, "Finished")
      /\ s2.step \in {"RECV_CLIENT_CERT", "RECV_CLIENT_CERT_VERIFY", "RECV_FINISHED"} =>
           ShowsAppKey(s2.tr, s2.hsKey, s2.appKey)
  BY DEF ServerLocal, ServerBeforeSh, ServerBeforeEe, ServerBeforeFin, ServerSendSteps,
         Continues, ServerHolds
<1>4. ShowsEarly(s2.tr, AcceptsEarly(s2))
  <2>1. ShowsEarly(sv.tr, AcceptsEarly(sv))
    BY DEF ServerLocal, ServerBeforeSh, ServerBeforeEe
  <2>2. AcceptsEarly(sv) = AcceptsEarly(s2)
    BY DEF ServerHolds, AcceptsEarly
  <2> QED
    BY <2>1, <2>2 DEF Continues
<1>5. ~ AcceptsEarly(s2) => s2.early = << >>
  BY <1>1 DEF ServerLocal
<1>6. AcceptsEarly(s2) => ~ s2.sentHrr /\ s2.earlyKey.level = "early"
  BY <1>1 DEF ServerLocal, ServerHolds, ServerBeforeSh
<1>7. s2.step \notin ServerBeforeSh /\ s2.step \notin ServerBeforeEe
      /\ (s2.step \in ServerBeforeFin => s2.step \in {"SEND_CERT", "SEND_CERT_VERIFY", "SEND_FINISHED"})
      /\ (s2.step \notin ServerBeforeFin =>
            s2.step \in {"RECV_CLIENT_CERT", "RECV_CLIENT_CERT_VERIFY", "RECV_FINISHED"})
  BY DEF ServerBeforeSh, ServerBeforeEe, ServerBeforeFin, ServerSendSteps
<1> QED
  BY <1>1, <1>2, <1>3, <1>4, <1>5, <1>6, <1>7 DEF ServerLocal, ServerHolds

(* One message of the server's flight *)
LEMMA FlightRecord ==
    ASSUME Inv, NEW m, m.type \notin {"ServerHello", "NewSessionTicket"}, ~ Done(server),
           s2c' = s2c \o <<Proving(server.hsKey, m, server.tr)>>
    PROVE  S2cOK(s2c', server')
<1> DEFINE rec == Proving(server.hsKey, m, server.tr)
           r == <<rec>>
<1>1. rec.key = server.hsKey /\ rec.msg = m
  BY DEF Proving
<1>2. server.hsKey.level \in Secrets
  BY KeyLevels, ServerOpen DEF Inv
<1> HIDE DEF rec
<1>3. FromServer(rec, server')
  BY <1>1, <1>2 DEF FromServer
<1>4. IsSeq(r) /\ DOMAIN r = 1 .. 1 /\ r[1] = rec
  BY SeqShort, SeqAppend
<1> HIDE DEF r
<1>5. S2cOK(s2c \o r, server')
  BY <1>3, <1>4, S2cSend DEF Inv
<1> QED
  BY <1>5 DEF r, rec

LEMMA SendEncryptedExtensionsInv == Inv /\ SendEncryptedExtensions => Inv'
<1> SUFFICES ASSUME Inv, SendEncryptedExtensions PROVE Inv'
  OBVIOUS
<1> DEFINE m == [type |-> "EncryptedExtensions", early |-> AcceptsEarly(server)]
           next == IF setting.auth # "none" THEN "SEND_CERT_REQ" ELSE AfterAuthRequest(server)
<1>1. /\ server.step = "SEND_EE" /\ UNCHANGED <<setting, client, c2s>>
      /\ server' = [server EXCEPT !.step = next, !.tr = Append(@, m)]
      /\ s2c' = s2c \o <<Proving(server.hsKey, m, server.tr)>>
  BY DEF SendEncryptedExtensions, SendsFlight, ServerIn, ServerSends
<1>2. /\ ServerLocal(server) /\ ~ Done(server) /\ DOMAIN server = ServerFields
      /\ server.why = "none" /\ server.step # "RECV_CH" /\ server.step # "CLOSED"
      /\ IsSeq(server.tr)
  BY <1>1, ServerOpen DEF Inv
<1>3. /\ m.type = "EncryptedExtensions" /\ m.early = AcceptsEarly(server)
      /\ next \in {"SEND_CERT_REQ", "SEND_CERT", "SEND_FINISHED"}
  BY DEF AfterAuthRequest
<1> HIDE DEF m, next
<1>4. /\ ServerHolds(server, server') /\ server'.step = next
      /\ server'.tr = Append(server.tr, m)
      /\ server'.earlyKey = server.earlyKey /\ server'.hsKey = server.hsKey
      /\ server'.appKey = server.appKey /\ server'.ccsSeen = server.ccsSeen
      /\ server'.early = server.early /\ server'.resumption = server.resumption
  BY <1>1, <1>2 DEF ServerFields, ServerHolds
<1>5. ServerShape(server') /\ ~ Done(server')
  BY <1>2, <1>3, <1>4, SeqAppend
     DEF ServerLocal, ServerShape, EndShape, ServerHolds, ServerSteps, ServerSendSteps, Done
<1>6. /\ ~ Mentions(server'.tr, "Finished")
      /\ ShowsPsk(server'.tr, server'.psk) /\ PskValid(server'.psk)
  BY <1>1, <1>2, <1>3, <1>4, MentionsAppend, ShowsPskAppend
     DEF ServerLocal, ServerBeforeSh, ServerBeforeEe, ServerBeforeFin, ServerSendSteps,
         ServerHolds
<1>7. AcceptsEarly(server') = AcceptsEarly(server)
  BY <1>4 DEF ServerHolds, AcceptsEarly
<1>8. ShowsEarly(server'.tr, AcceptsEarly(server'))
  <2>1. ~ Mentions(server.tr, "EncryptedExtensions")
    BY <1>1, <1>2 DEF ServerLocal, ServerBeforeEe
  <2> QED
    BY <1>2, <1>3, <1>4, <1>7, <2>1, ShowsEarlyAppend
<1>9. ServerLocal(server')
  BY <1>1, <1>2, <1>3, <1>4, <1>5, <1>6, <1>7, <1>8
     DEF ServerLocal, ServerHolds, ServerBeforeSh, ServerBeforeEe, ServerBeforeFin,
         ServerSendSteps
<1>10. S2cOK(s2c', server')
  BY <1>1, <1>2, <1>3, FlightRecord
<1>11. EarlyOK(c2s', server', client.early)
  <2>1. Tracks(server') => Tracks(server)
    BY <1>2, <1>3, <1>4 DEF Tracks, ServerHolds, AcceptsEarly
  <2> QED
    BY <1>1, <1>4, <2>1, EarlyKeep DEF Inv
<1> QED
  BY <1>1, <1>2, <1>5, <1>9, <1>10, <1>11, ServerUndone DEF Inv

LEMMA SendsFlightInv ==
    ASSUME Inv, NEW step, NEW next, NEW m, SendsFlight(step, next, m),
           step \in {"SEND_CERT_REQ", "SEND_CERT", "SEND_CERT_VERIFY"},
           next \in {"SEND_CERT", "SEND_CERT_VERIFY", "SEND_FINISHED"},
           m.type \in {"CertificateRequest", "Certificate", "CertificateVerify"}
    PROVE  Inv'
<1>1. /\ server.step = step /\ UNCHANGED <<setting, client, c2s>>
      /\ server' = [server EXCEPT !.step = next, !.tr = Append(@, m)]
      /\ s2c' = s2c \o <<Proving(server.hsKey, m, server.tr)>>
  BY DEF SendsFlight, ServerIn, ServerSends
<1>2. /\ ServerLocal(server) /\ ~ Done(server) /\ DOMAIN server = ServerFields
      /\ server.why = "none" /\ server.step # "RECV_CH" /\ server.step # "CLOSED"
      /\ IsSeq(server.tr) /\ server.ccsSeen \in 0 .. 2
      /\ server.early \in Seq(Nat) /\ Len(server.early) <= EarlyLimit
  BY <1>1, ServerOpen DEF Inv, ServerLocal, ServerShape
<1>4. /\ ServerHolds(server, server') /\ server'.step = next
      /\ server'.tr = Append(server.tr, m)
      /\ server'.earlyKey = server.earlyKey /\ server'.hsKey = server.hsKey
      /\ server'.appKey = server.appKey /\ server'.ccsSeen = server.ccsSeen
      /\ server'.early = server.early /\ server'.resumption = server.resumption
  BY <1>1, <1>2 DEF ServerFields, ServerHolds
<1>5. Continues(server.tr, server'.tr)
  BY <1>2, <1>4, ContinuesAppend
<1>6. ServerLocal(server') /\ ~ Done(server')
  BY <1>1, <1>2, <1>4, <1>5, ServerGoesOn, ZenonT(40)
<1>7. S2cOK(s2c', server')
  BY <1>1, <1>2, FlightRecord
<1>8. EarlyOK(c2s', server', client.early)
  <2>1. Tracks(server') => Tracks(server)
    BY <1>2, <1>4 DEF Tracks, ServerHolds, AcceptsEarly
  <2> QED
    BY <1>1, <1>4, <2>1, EarlyKeep DEF Inv
<1> QED
  BY <1>1, <1>2, <1>6, <1>7, <1>8, ServerUndone DEF Inv

LEMMA FlightInv ==
    Inv /\ (SendCertificateRequest \/ SendCertificate \/ SendCertificateVerify) => Inv'
<1>1. /\ Msg("CertificateRequest").type = "CertificateRequest"
      /\ Msg("Certificate").type = "Certificate"
      /\ Msg("CertificateVerify").type = "CertificateVerify"
      /\ AfterAuthRequest(server) \in {"SEND_CERT", "SEND_FINISHED"}
  BY DEF Msg, AfterAuthRequest
<1> QED
  BY <1>1, SendsFlightInv DEF SendCertificateRequest, SendCertificate, SendCertificateVerify

LEMMA SendServerFinishedInv == Inv /\ SendServerFinished => Inv'
<1> SUFFICES ASSUME Inv, SendServerFinished PROVE Inv'
  OBVIOUS
<1> DEFINE m == Msg("Finished")
           tr == Append(server.tr, m)
           next == IF setting.auth # "none" THEN "RECV_CLIENT_CERT" ELSE "RECV_FINISHED"
<1>1. /\ server.step = "SEND_FINISHED" /\ UNCHANGED <<setting, client, c2s>>
      /\ server' = [server EXCEPT !.step = next, !.tr = tr,
                                  !.appKey = ApplicationSecret(server.hsKey, tr)]
      /\ s2c' = s2c \o <<Proving(server.hsKey, m, server.tr)>>
  BY DEF SendServerFinished, ServerIn, ServerSends
<1>2. /\ ServerLocal(server) /\ ~ Done(server) /\ DOMAIN server = ServerFields
      /\ server.why = "none" /\ server.step # "RECV_CH" /\ server.step # "CLOSED"
      /\ IsSeq(server.tr) /\ KeyOf(server.hsKey, "handshake")
  BY <1>1, ServerOpen DEF Inv
<1>3. /\ m.type = "Finished" /\ next \in {"RECV_CLIENT_CERT", "RECV_FINISHED"}
      /\ next = "RECV_FINISHED" => setting.auth # "require"
  BY DEF Msg
<1> HIDE DEF m, next
<1>4. /\ ServerHolds(server, server') /\ server'.step = next
      /\ server'.tr = Append(server.tr, m)
      /\ server'.earlyKey = server.earlyKey /\ server'.hsKey = server.hsKey
      /\ server'.appKey = ApplicationSecret(server.hsKey, Append(server.tr, m))
      /\ server'.ccsSeen = server.ccsSeen
      /\ server'.early = server.early /\ server'.resumption = server.resumption
  BY <1>1, <1>2 DEF ServerFields, ServerHolds
<1>5. ServerShape(server') /\ ~ Done(server')
  BY <1>2, <1>3, <1>4, SeqAppend, DerivedKeys, SMTT(40)
     DEF ServerLocal, ServerShape, EndShape, ServerHolds, ServerSteps, ServerReadSteps, Done
<1>6. /\ ShowsPsk(server'.tr, server'.psk) /\ PskValid(server'.psk)
      /\ ShowsAppKey(server'.tr, server'.hsKey, server'.appKey)
  <2>1. /\ ShowsPsk(server.tr, server.psk) /\ PskValid(server.psk)
        /\ ~ Mentions(server.tr, "Finished")
    BY <1>1, <1>2 DEF ServerLocal, ServerBeforeSh, ServerBeforeFin, ServerSendSteps
  <2> QED
    BY <1>2, <1>3, <1>4, <2>1, ShowsPskAppend, ShowsAppKeyAppend DEF ServerHolds
<1>7. AcceptsEarly(server') = AcceptsEarly(server)
  BY <1>4 DEF ServerHolds, AcceptsEarly
<1>8. ShowsEarly(server'.tr, AcceptsEarly(server'))
  <2>1. ShowsEarly(server.tr, AcceptsEarly(server))
    BY <1>1, <1>2 DEF ServerLocal, ServerBeforeEe, ServerBeforeSh
  <2> QED
    BY <1>2, <1>3, <1>4, <1>7, <2>1, ShowsEarlyAppend
<1>9. ServerLocal(server')
  BY <1>1, <1>2, <1>3, <1>4, <1>5, <1>6, <1>7, <1>8
     DEF ServerLocal, ServerHolds, ServerBeforeSh, ServerBeforeEe, ServerBeforeFin,
         ServerSendSteps
<1>10. S2cOK(s2c', server')
  BY <1>1, <1>2, <1>3, FlightRecord
<1>11. EarlyOK(c2s', server', client.early)
  <2>1. Tracks(server') => Tracks(server)
    BY <1>2, <1>3, <1>4 DEF Tracks, ServerHolds, AcceptsEarly
  <2> QED
    BY <1>1, <1>4, <2>1, EarlyKeep DEF Inv
<1> QED
  BY <1>1, <1>2, <1>5, <1>9, <1>10, <1>11, ServerUndone DEF Inv

LEMMA SendNewSessionTicketInv == Inv /\ SendNewSessionTicket => Inv'
<1> SUFFICES ASSUME Inv, SendNewSessionTicket PROVE Inv'
  OBVIOUS
<1> DEFINE rec == Sealed(server.appKey, Msg("NewSessionTicket"))
           r == <<rec>>
<1>1. /\ server.step = "SEND_NST" /\ UNCHANGED <<setting, client, c2s>>
      /\ server' = [server EXCEPT !.step = "CONNECTED"]
      /\ s2c' = s2c \o r \/ s2c' = s2c
  BY DEF SendNewSessionTicket, ServerIn, ServerSends
<1>2. /\ ServerLocal(server) /\ Done(server) /\ DOMAIN server = ServerFields
      /\ server.why = "none" /\ KeyOf(server.appKey, "application")
  BY <1>1, ServerOpen DEF Inv, ServerLocal
<1>3. /\ DOMAIN server' = ServerFields /\ server'.step = "CONNECTED"
      /\ server'.earlyKey = server.earlyKey /\ server'.ccsSeen = server.ccsSeen
      /\ server'.store = server.store /\ server'.why = server.why
      /\ server'.offeredEarly = server.offeredEarly /\ server'.sentHrr = server.sentHrr
      /\ server'.peerCert = server.peerCert /\ ServerKeeps(server, server')
  BY <1>1, <1>2 DEF ServerFields, ServerKeeps
<1>4. ServerShape(server') /\ Done(server')
  BY <1>2, <1>3 DEF ServerLocal, ServerShape, EndShape, ServerKeeps, ServerSteps, Done
<1>5. AcceptsEarly(server') = AcceptsEarly(server)
  BY <1>3 DEF ServerKeeps, AcceptsEarly
<1>6. ServerLocal(server')
  BY <1>1, <1>2, <1>3, <1>4, <1>5
     DEF ServerLocal, ServerKeeps, ServerBeforeSh, ServerBeforeEe, ServerBeforeFin,
         ServerSendSteps
<1>7. S2cOK(s2c', server')
  <2>1. rec.key = server.appKey /\ rec.msg.type = "NewSessionTicket"
    BY DEF Sealed, Msg
  <2>2. IsSeq(r) /\ DOMAIN r = 1 .. 1 /\ r[1] = rec
    BY SeqShort, SeqAppend
  <2> HIDE DEF rec, r
  <2>3. FromServer(rec, server')
    BY <1>2, <1>4, <2>1, KeyLevels DEF FromServer
  <2>4. S2cOK(s2c \o r, server') /\ S2cOK(s2c, server')
    BY <1>4, <2>2, <2>3, S2cSend, S2cFrame DEF Inv
  <2> QED
    BY <1>1, <2>4
<1>8. EarlyOK(c2s', server', client'.early)
  BY <1>1, <1>3, <1>4 DEF Inv, EarlyOK, ServerKeeps, Tracks
<1>9. DoneOK(client', server') /\ TicketOK(client', server')
  BY <1>1, <1>2, <1>3, <1>4 DEF Inv, DoneOK, TicketOK, ServerKeeps
<1> QED
  BY <1>1, <1>6, <1>7, <1>8, <1>9, InvNext DEF Inv

(* A compatibility record is counted; nothing else of the server moves. *)
LEMMA ServerCounts ==
    ASSUME NEW sv, NEW s2, ServerLocal(sv), ServerHolds(sv, s2), ServerKeeps(sv, s2),
           s2.step = sv.step, s2.earlyKey = sv.earlyKey, s2.peerCert = sv.peerCert,
           s2.ccsSeen \in 0 .. 2
    PROVE  ServerLocal(s2) /\ (Done(s2) <=> Done(sv)) /\ (Tracks(s2) <=> Tracks(sv))
<1>1. ServerShape(s2) /\ (Done(s2) <=> Done(sv))
  BY DEF ServerLocal, ServerShape, EndShape, ServerHolds, ServerKeeps, Done
<1>2. AcceptsEarly(s2) = AcceptsEarly(sv)
  BY DEF ServerHolds, AcceptsEarly
<1>3. ServerLocal(s2)
  BY <1>1, <1>2 DEF ServerLocal, ServerHolds, ServerKeeps
<1> QED
  BY <1>1, <1>2, <1>3 DEF Tracks, ServerHolds

LEMMA ServerCompatCcsInv == Inv /\ ServerCompatCcs => Inv'
<1> SUFFICES ASSUME Inv, ServerCompatCcs PROVE Inv'
  OBVIOUS
<1>1. /\ server.step \in ServerReadSteps /\ c2s # << >> /\ Head(c2s) = CCS
      /\ server' = CompatCcs(server) /\ c2s' = Tail(c2s)
      /\ UNCHANGED <<setting, client, s2c>>
  BY DEF ServerCompatCcs, ServerIn, ServerTakes
<1>2. /\ ServerLocal(server) /\ DOMAIN server = ServerFields /\ server.ccsSeen \in 0 .. 2
      /\ ServerShape(server) /\ (server.store => setting.ticket = "known")
      /\ ServerKeeps(server, server) /\ ~ Done(server)
  BY <1>1, ServerOpen DEF Inv, ServerLocal, ServerKeeps, ServerReadSteps
<1>3. CASE server.ccsSeen >= 2
  BY <1>1, <1>2, <1>3, ServerClosesInv DEF CompatCcs, Causes
<1>4. CASE ~ (server.ccsSeen >= 2)
  <2>1. server' = [server EXCEPT !.ccsSeen = @ + 1] /\ server.ccsSeen + 1 \in 0 .. 2
    BY <1>1, <1>2, <1>4 DEF CompatCcs
  <2>2. /\ ServerHolds(server, server') /\ ServerKeeps(server, server')
        /\ server'.step = server.step /\ server'.earlyKey = server.earlyKey
        /\ server'.peerCert = server.peerCert /\ server'.ccsSeen = server.ccsSeen + 1
    BY <1>2, <2>1 DEF ServerFields, ServerHolds, ServerKeeps
  <2>3. ServerLocal(server') /\ ~ Done(server') /\ (Tracks(server') => Tracks(server))
    BY <1>2, <2>1, <2>2, ServerCounts
  <2>4. C2sOK(c2s', client) /\ S2cOK(s2c', server')
    BY <1>1, <1>2, C2sTail, S2cFrame DEF Inv
  <2>5. EarlyOK(c2s', server', client.early)
    BY <1>1, <2>2, <2>3, EarlyTail, CcsRecord DEF Inv, C2sOK, ServerKeeps
  <2> QED
    BY <1>1, <1>2, <2>3, <2>4, <2>5, ServerUndone
<1> QED
  BY <1>3, <1>4

(* A record that opens with the handshake keys: the server closes, goes on  *)
(* to the next message it waits for, or has verified the client's Finished. *)
HeardFinished(sv, s2, rec) ==
    /\ ServerHolds(sv, s2) /\ sv.step = "RECV_FINISHED" /\ s2.step = "SEND_NST"
    /\ rec.msg.type = "Finished" /\ rec.verify = sv.tr /\ s2.tr = Append(sv.tr, rec.msg)
    /\ s2.resumption = ResumptionSecret(sv.hsKey, s2.tr)
    /\ s2.early = sv.early /\ s2.peerCert = sv.peerCert
    /\ s2.earlyKey = sv.earlyKey /\ s2.hsKey = sv.hsKey /\ s2.appKey = sv.appKey
    /\ s2.ccsSeen = sv.ccsSeen

ServerMarks(sv, seen) == [sv EXCEPT !.eoedSeen = seen]

LEMMA MarksShape ==
    ASSUME NEW sv, NEW seen, ServerLocal(sv)
    PROVE  LET s2 == ServerMarks(sv, seen)
           IN  /\ ServerShape(s2) /\ ServerLocal(s2) /\ ServerHolds(sv, s2)
               /\ ServerKeeps(sv, s2) /\ (Done(s2) <=> Done(sv))
               /\ s2.step = sv.step /\ s2.earlyKey = sv.earlyKey
               /\ s2.peerCert = sv.peerCert /\ s2.ccsSeen = sv.ccsSeen
               /\ s2.eoedAppended = sv.eoedAppended
<1> DEFINE s2 == ServerMarks(sv, seen)
<1>0. DOMAIN sv = ServerFields /\ sv.ccsSeen \in 0 .. 2
  BY ServerOpen
<1>1. /\ ServerHolds(sv, s2) /\ ServerKeeps(sv, s2) /\ s2.step = sv.step
      /\ s2.earlyKey = sv.earlyKey /\ s2.peerCert = sv.peerCert /\ s2.ccsSeen = sv.ccsSeen
      /\ s2.eoedAppended = sv.eoedAppended
  BY <1>0 DEF ServerMarks, ServerFields, ServerHolds, ServerKeeps
<1> HIDE DEF s2
<1>2. ServerLocal(s2) /\ (Done(s2) <=> Done(sv))
  BY <1>0, <1>1, ServerCounts
<1>3. ServerShape(s2)
  BY <1>2 DEF ServerLocal
<1> QED
  BY <1>1, <1>2, <1>3 DEF s2

(* The server goes on to the next message of the client's flight: *)
GoesOn(sv, s2) ==
    /\ ServerLocal(s2) /\ ~ Done(s2) /\ s2.early = sv.early
    /\ Tracks(s2) => Tracks(sv)

LEMMA ServerHearsNext ==
    ASSUME NEW sv, NEW s2, NEW m, ServerLocal(sv), ServerHolds(sv, s2),
           s2.tr = Append(sv.tr, m),
           m.type \in {"Certificate", "CertificateVerify", "EndOfEarlyData"},
           s2.earlyKey = sv.earlyKey, s2.hsKey = sv.hsKey, s2.appKey = sv.appKey,
           s2.resumption = sv.resumption, s2.ccsSeen = sv.ccsSeen, s2.early = sv.early,
           sv.step \in {"RECV_CLIENT_CERT", "RECV_CLIENT_CERT_VERIFY", "RECV_FINISHED"},
           s2.step \in {"RECV_CLIENT_CERT_VERIFY", "RECV_FINISHED"},
           s2.step = "RECV_CLIENT_CERT_VERIFY" => setting.clientCert = "good",
           s2.step = "RECV_FINISHED" /\ setting.auth = "require" =>
               s2.peerCert = "proved" /\ setting.clientCert = "good"
    PROVE  GoesOn(sv, s2)
<1>1. Continues(sv.tr, s2.tr)
  BY ServerOpen, ContinuesAppend
<1>2. sv.ccsSeen \in 0 .. 2 /\ sv.early \in Seq(Nat) /\ Len(sv.early) <= EarlyLimit
  BY DEF ServerLocal, ServerShape, EndShape
<1>3. ServerLocal(s2) /\ ~ Done(s2)
  BY <1>1, <1>2, ServerGoesOn
<1>4. ~ Done(sv)
  BY ServerOpen
<1> QED
  BY <1>3, <1>4 DEF GoesOn, Tracks, ServerHolds, AcceptsEarly

LEMMA TakesCertificate ==
    ASSUME NEW sv, NEW rec, ServerLocal(sv), setting \in Scenarios,
           rec.msg.type = "Certificate" => rec.msg.cert = setting.clientCert,
           sv.step = "RECV_CLIENT_CERT"
    PROVE  LET s2 == TakeClientCertificate(sv, rec)
           IN  GoesOn(sv, s2) \/ \E why \in Causes \ {"none"} : s2 = Closed(sv, why)
<1> DEFINE cert == rec.msg.cert
           s2 == TakeClientCertificate(sv, rec)
<1>1. CASE \/ rec.msg.type # "Certificate" \/ cert = "bad"
           \/ cert = "none" /\ setting.auth = "require"
  BY <1>1 DEF TakeClientCertificate, Causes
<1>2. CASE ~ (\/ rec.msg.type # "Certificate" \/ cert = "bad"
              \/ cert = "none" /\ setting.auth = "require")
  <2>1. s2 = [sv EXCEPT !.tr = Append(@, rec.msg),
                        !.peerCert = IF cert = "none" THEN "none" ELSE "offered",
                        !.step = IF cert = "none" THEN "RECV_FINISHED"
                                                  ELSE "RECV_CLIENT_CERT_VERIFY"]
    BY <1>2 DEF TakeClientCertificate
  <2>2. DOMAIN sv = ServerFields
    BY ServerOpen
  <2>3. /\ ServerHolds(sv, s2) /\ s2.tr = Append(sv.tr, rec.msg)
        /\ s2.earlyKey = sv.earlyKey /\ s2.hsKey = sv.hsKey /\ s2.appKey = sv.appKey
        /\ s2.resumption = sv.resumption /\ s2.ccsSeen = sv.ccsSeen /\ s2.early = sv.early
        /\ s2.step = IF cert = "none" THEN "RECV_FINISHED" ELSE "RECV_CLIENT_CERT_VERIFY"
    BY <2>1, <2>2 DEF ServerFields, ServerHolds
  <2> HIDE DEF s2
  <2>4. cert \in {"none", "good"} /\ cert = setting.clientCert
    BY <1>2, ScenarioAssumption
  <2>5. GoesOn(sv, s2)
    BY <1>2, <2>3, <2>4, ServerHearsNext
  <2> QED
    BY <2>5 DEF s2
<1> QED
  BY <1>1, <1>2

LEMMA TakesCertificateVerify ==
    ASSUME NEW sv, NEW rec, ServerLocal(sv), sv.step = "RECV_CLIENT_CERT_VERIFY"
    PROVE  LET s2 == TakeClientCertificateVerify(sv, rec)
           IN  GoesOn(sv, s2) \/ \E why \in Causes \ {"none"} : s2 = Closed(sv, why)
<1> DEFINE s2 == TakeClientCertificateVerify(sv, rec)
<1>1. CASE rec.msg.type # "CertificateVerify" \/ rec.verify # sv.tr
  BY <1>1 DEF TakeClientCertificateVerify, Causes
<1>2. CASE ~ (rec.msg.type # "CertificateVerify" \/ rec.verify # sv.tr)
  <2>1. s2 = [sv EXCEPT !.tr = Append(@, rec.msg), !.peerCert = "proved",
                        !.step = "RECV_FINISHED"]
    BY <1>2 DEF TakeClientCertificateVerify
  <2>2. DOMAIN sv = ServerFields /\ setting.clientCert = "good"
    BY ServerOpen DEF ServerLocal
  <2>3. /\ ServerHolds(sv, s2) /\ s2.tr = Append(sv.tr, rec.msg)
        /\ s2.earlyKey = sv.earlyKey /\ s2.hsKey = sv.hsKey /\ s2.appKey = sv.appKey
        /\ s2.resumption = sv.resumption /\ s2.ccsSeen = sv.ccsSeen /\ s2.early = sv.early
        /\ s2.step = "RECV_FINISHED" /\ s2.peerCert = "proved"
    BY <2>1, <2>2 DEF ServerFields, ServerHolds
  <2> HIDE DEF s2
  <2>5. GoesOn(sv, s2)
    BY <1>2, <2>2, <2>3, ServerHearsNext
  <2> QED
    BY <2>5 DEF s2
<1> QED
  BY <1>1, <1>2

LEMMA TakesFinished ==
    ASSUME NEW sv, NEW rec, ServerLocal(sv), sv.step = "RECV_FINISHED"
    PROVE  LET s2 == TakeClientFinished(sv, rec)
           IN  \/ GoesOn(sv, s2) \/ HeardFinished(sv, s2, rec)
               \/ \E why \in Causes \ {"none"} : s2 = Closed(sv, why)
<1> DEFINE s2 == TakeClientFinished(sv, rec)
           eoed == rec.msg.type = "EndOfEarlyData" /\ AcceptsEarly(sv) /\ ~ sv.eoedAppended
           fin == rec.msg.type = "Finished" /\ rec.verify = sv.tr
<1>0. DOMAIN sv = ServerFields
  BY ServerOpen
<1>1. CASE eoed
  <2>1. s2 = [sv EXCEPT !.tr = Append(@, rec.msg), !.eoedAppended = TRUE]
    BY <1>1 DEF TakeClientFinished
  <2>2. setting.auth = "require" => sv.peerCert = "proved" /\ setting.clientCert = "good"
    BY DEF ServerLocal
  <2>3. /\ ServerHolds(sv, s2) /\ s2.tr = Append(sv.tr, rec.msg)
        /\ s2.earlyKey = sv.earlyKey /\ s2.hsKey = sv.hsKey /\ s2.appKey = sv.appKey
        /\ s2.resumption = sv.resumption /\ s2.ccsSeen = sv.ccsSeen /\ s2.early = sv.early
        /\ s2.step = "RECV_FINISHED" /\ s2.peerCert = sv.peerCert
    BY <1>0, <2>1 DEF ServerFields, ServerHolds
  <2> HIDE DEF s2
  <2>5. GoesOn(sv, s2)
    BY <1>1, <2>2, <2>3, ServerHearsNext
  <2> QED
    BY <2>5 DEF s2
<1>2. CASE ~ eoed /\ ~ fin
  BY <1>2 DEF TakeClientFinished, Causes
<1>3. CASE ~ eoed /\ fin
  <2>1. s2 = [sv EXCEPT !.tr = Append(@, rec.msg), !.step = "SEND_NST",
                        !.resumption = ResumptionSecret(sv.hsKey, Append(sv.tr, rec.msg))]
    BY <1>3 DEF TakeClientFinished
  <2>2. HeardFinished(sv, s2, rec)
    BY <1>0, <1>3, <2>1 DEF ServerFields, ServerHolds, HeardFinished
  <2> QED
    BY <2>2
<1> QED
  BY <1>1, <1>2, <1>3

(* The client's Finished is the last record; all early records were taken   *)
(* before it.                                                               *)
LEMMA NothingEarlyLeft ==
    ASSUME NEW q, NEW n, NEW m, IsSeq(q), Len(q) = 1, ~ Early(q[1]), EarlyRun(q, n, m)
    PROVE  n = m
<1>1. DOMAIN q = 1 .. 1 /\ n \in Nat /\ m \in Nat /\ n <= m
  BY SeqAppend DEF EarlyRun
<1>2. \A u \in (n + 1) .. m : FALSE
  BY <1>1 DEF EarlyRun
<1>3. CASE n < m
  <2>1. m \in (n + 1) .. m
    BY <1>1, <1>3
  <2> QED
    BY <1>2, <2>1
<1> QED
  BY <1>1, <1>3

(* The server verifies the client's Finished. *)
LEMMA HeardFinishedInv ==
    ASSUME Inv, NEW sv, ServerLocal(sv), ServerKeeps(server, sv), ServerHolds(server, sv),
           sv.step = server.step, c2s # << >>, HeardFinished(sv, server', Head(c2s)),
           Head(c2s).key = server.hsKey,
           c2s' = Tail(c2s), UNCHANGED <<setting, client, s2c>>
    PROVE  Inv'
<1> DEFINE rec == Head(c2s)
           s2 == server'
<1>1. /\ FromClient(rec, client) /\ C2sOK(Tail(c2s), client) /\ IsSeq(c2s) /\ Len(c2s) = 1
      /\ rec.msg.type = "Finished" /\ rec = c2s[1]
  BY HeadOfC2s, SeqTail DEF HeardFinished
<1>2. /\ Done(client) /\ rec.key = client.hsKey /\ client.hsKey = server.hsKey
      /\ client.tr = Append(rec.verify, rec.msg) /\ client.tr = s2.tr
  BY <1>1 DEF FromClient, HeardFinished
<1>3. /\ ~ Done(server) /\ ~ Done(sv) /\ DOMAIN s2 = ServerFields /\ IsSeq(sv.tr)
      /\ sv.why = "none" /\ KeyOf(sv.hsKey, "handshake") /\ ServerLocal(server)
      /\ server.step = "RECV_FINISHED" /\ sv.hsKey = server.hsKey
  BY ServerOpen DEF Inv, HeardFinished, ServerHolds, ServerKeeps
<1>4. ~ Early(rec)
  BY <1>1 DEF FromClient, Early
<1>5. /\ IsSeq(s2.tr) /\ KeyOf(s2.resumption, "resumption") /\ Done(s2)
  BY <1>3, SeqAppend, DerivedKeys DEF HeardFinished, Done
<1>6. ServerShape(s2)
  BY <1>3, <1>5
     DEF ServerLocal, ServerShape, EndShape, HeardFinished, ServerHolds, ServerSteps,
         ServerSendSteps
<1>7. /\ ShowsPsk(sv.tr, sv.psk) /\ PskValid(sv.psk) /\ ShowsEarly(sv.tr, AcceptsEarly(sv))
      /\ ShowsAppKey(sv.tr, sv.hsKey, sv.appKey)
  BY DEF ServerLocal, HeardFinished, ServerBeforeSh, ServerBeforeEe, ServerBeforeFin,
         ServerSendSteps
<1>8. AcceptsEarly(s2) = AcceptsEarly(sv) /\ AcceptsEarly(sv) = AcceptsEarly(server)
  BY DEF HeardFinished, ServerHolds, AcceptsEarly
<1>9. /\ ShowsPsk(s2.tr, s2.psk) /\ PskValid(s2.psk) /\ ShowsEarly(s2.tr, AcceptsEarly(s2))
      /\ ShowsAppKey(s2.tr, s2.hsKey, s2.appKey)
  BY <1>1, <1>3, <1>7, <1>8, ShowsPskAppend, ShowsEarlyAppend, ShowsAppKeyAppend
     DEF HeardFinished, ServerHolds
<1>10. ServerLocal(s2)
  <2>1. /\ s2.step = "SEND_NST" /\ s2.step \notin ServerBeforeSh
        /\ s2.step \notin ServerBeforeEe /\ s2.step \notin ServerBeforeFin
    BY DEF HeardFinished, ServerBeforeSh, ServerBeforeEe, ServerBeforeFin, ServerSendSteps
  <2>2. /\ AcceptsEarly(s2) => ~ s2.sentHrr /\ s2.earlyKey.level = "early"
        /\ ~ AcceptsEarly(s2) => s2.early = << >>
        /\ s2.store => setting.ticket = "known"
        /\ setting.auth = "require" => s2.peerCert = "proved" /\ setting.clientCert = "good"
    BY <1>8 DEF ServerLocal, HeardFinished, ServerHolds, ServerBeforeSh
  <2> QED
    BY <1>5, <1>6, <1>9, <2>1, <2>2 DEF ServerLocal
<1>11. Len(s2.early) = IF client.earlyAccepted THEN client.early ELSE 0
  <2>1. ShowsEarly(client.tr, client.earlyAccepted)
    BY <1>2 DEF Inv, ClientLocal
  <2>2. client.earlyAccepted = AcceptsEarly(server)
    BY <1>2, <1>5, <1>8, <1>9, <2>1, ShownOnce
  <2>3. s2.early = server.early
    BY DEF HeardFinished, ServerKeeps
  <2>4. CASE AcceptsEarly(server)
    <3>1. Tracks(server)
      BY <1>3, <2>4 DEF Tracks, ServerLocal
    <3>2. EarlyRun(c2s, Len(server.early), client.early)
      BY <3>1 DEF Inv, EarlyOK
    <3>3. Len(server.early) = client.early
      BY <1>1, <1>4, <3>2, NothingEarlyLeft
    <3> QED
      BY <2>2, <2>3, <2>4, <3>3
  <2>5. CASE ~ AcceptsEarly(server)
    <3>1. server.early = << >>
      BY <1>3, <2>5 DEF ServerLocal
    <3> QED
      BY <2>2, <2>3, <2>5, <3>1
  <2> QED
    BY <2>4, <2>5
<1>12. DoneOK(client', server') /\ TicketOK(client', server')
  <2>1. /\ ShowsPsk(client.tr, client.psk) /\ ShowsAppKey(client.tr, client.hsKey, client.appKey)
        /\ client.resumption = ResumptionSecret(client.hsKey, client.tr)
    BY <1>2 DEF Inv, ClientLocal
  <2>2. client.hsKey = s2.hsKey /\ s2.resumption = ResumptionSecret(s2.hsKey, s2.tr)
    BY <1>2, <1>3 DEF HeardFinished
  <2>3. client.psk = s2.psk /\ client.appKey = s2.appKey
    BY <1>2, <1>5, <1>9, <2>1, <2>2, ShownOnce
  <2>4. client.resumption = s2.resumption
    BY <1>2, <2>1, <2>2
  <2> QED
    BY <1>2, <1>5, <1>11, <2>2, <2>3, <2>4 DEF DoneOK, TicketOK
<1>13. EarlyOK(c2s', server', client'.early)
  BY <1>5 DEF Inv, EarlyOK, Tracks, HeardFinished, ServerKeeps
<1>14. S2cOK(s2c', server')
  BY <1>5, S2cFrame DEF Inv
<1> QED
  BY <1>1, <1>10, <1>12, <1>13, <1>14, InvNext DEF Inv

(* What is kept stays numbered in the order it was sent. *)
LEMMA KeptInOrder ==
    ASSUME NEW e \in Seq(Nat), \A i \in DOMAIN e : e[i] = i
    PROVE  LET f == Append(e, Len(e) + 1)
           IN  f \in Seq(Nat) /\ Len(f) = Len(e) + 1 /\ \A i \in DOMAIN f : f[i] = i
<1> DEFINE f == Append(e, Len(e) + 1)
<1>1. Len(e) \in Nat /\ Len(e) + 1 \in Nat /\ DOMAIN e = 1 .. Len(e)
  OBVIOUS
<1>2. /\ f \in Seq(Nat) /\ Len(f) = Len(e) + 1 /\ f[Len(e) + 1] = Len(e) + 1
      /\ \A i \in 1 .. Len(e) : f[i] = e[i]
  BY <1>1
<1>3. DOMAIN f = 1 .. (Len(e) + 1)
  BY <1>2
<1>4. \A i \in 1 .. (Len(e) + 1) : i = Len(e) + 1 \/ i \in 1 .. Len(e)
  BY <1>1
<1> HIDE DEF f
<1> QED
  BY <1>1, <1>2, <1>3, <1>4 DEF f

(* 0-RTT data is kept for the application. *)
LEMMA KeepEarlyDataInv ==
    ASSUME Inv, c2s # << >>, server.step \in ServerReadSteps \ {"RECV_CH"},
           MayBeEarly(server), Head(c2s).key = server.earlyKey,
           server' = KeepEarlyData(server, Head(c2s).msg.unit),
           c2s' = Tail(c2s), UNCHANGED <<setting, client, s2c>>
    PROVE  Inv'
<1> DEFINE rec == Head(c2s)
           n == Len(server.early)
<1>1. /\ ServerLocal(server) /\ ServerShape(server) /\ DOMAIN server = ServerFields
      /\ (server.store => setting.ticket = "known") /\ ~ Done(server)
      /\ ServerKeeps(server, server) /\ server.ccsSeen \in 0 .. 2 /\ IsSeq(server.tr)
      /\ server.early \in Seq(Nat)
  BY ServerOpen DEF Inv, ServerLocal, ServerShape, ServerKeeps, ServerReadSteps
<1>2. CASE n >= EarlyLimit
  BY <1>1, <1>2, ServerClosesInv DEF KeepEarlyData, Causes
<1>3. CASE ~ (n >= EarlyLimit)
  <2>1. server' = [server EXCEPT !.early = Append(@, rec.msg.unit)]
    BY <1>3 DEF KeepEarlyData
  <2>2. AcceptsEarly(server) /\ server.earlyKey.level = "early" /\ ~ server.sentHrr
    BY <1>1 DEF MayBeEarly, ServerLocal, ServerReadSteps, ServerBeforeSh
  <2>3. Tracks(server) /\ Early(rec)
    BY <1>1, <2>2 DEF Tracks, Early, ServerReadSteps
  <2>4. /\ EarlyRun(c2s, n, client.early) /\ \A i \in DOMAIN server.early : server.early[i] = i
    BY <2>3 DEF Inv, EarlyOK
  <2>5. rec.msg.unit = n + 1 /\ n + 1 <= client.early /\ EarlyRun(Tail(c2s), n + 1, client.early)
    BY <2>3, <2>4, RunTail DEF Inv, C2sOK
  <2>6. /\ ServerHolds(server, server') /\ server'.tr = server.tr
        /\ server'.earlyKey = server.earlyKey /\ server'.hsKey = server.hsKey
        /\ server'.appKey = server.appKey /\ server'.resumption = server.resumption
        /\ server'.ccsSeen = server.ccsSeen /\ server'.peerCert = server.peerCert
        /\ server'.early = Append(server.early, n + 1) /\ server'.step = server.step
    BY <1>1, <2>1, <2>5 DEF ServerFields, ServerHolds
  <2>7. /\ server'.early \in Seq(Nat) /\ Len(server'.early) = n + 1 /\ n + 1 <= EarlyLimit
        /\ \A i \in DOMAIN server'.early : server'.early[i] = i
    <3>1. n \in Nat /\ EarlyLimit \in Nat
      BY <1>1, ScenarioAssumption
    <3>2. n + 1 <= EarlyLimit /\ n + 1 \in Nat
      BY <1>3, <3>1
    <3> QED
      BY <1>1, <2>4, <2>6, <3>2, KeptInOrder
  <2>8. Continues(server.tr, server'.tr)
    BY <1>1, <2>6 DEF Continues
  <2>9. ServerLocal(server') /\ ~ Done(server')
    <3>1. /\ server'.ccsSeen \in 0 .. 2 /\ Len(server'.early) <= EarlyLimit
          /\ server.step \in {"RECV_CLIENT_CERT", "RECV_CLIENT_CERT_VERIFY", "RECV_FINISHED"}
      BY <1>1, <2>6, <2>7 DEF ServerReadSteps
    <3>2. /\ server.step = "RECV_CLIENT_CERT_VERIFY" => setting.clientCert = "good"
          /\ server.step = "RECV_FINISHED" /\ setting.auth = "require" =>
               server.peerCert = "proved" /\ setting.clientCert = "good"
      BY <1>1 DEF ServerLocal
    <3> QED
      BY <1>1, <2>2, <2>6, <2>7, <2>8, <3>1, <3>2, ServerGoesOn, ZenonT(40)
  <2>10. EarlyOK(c2s', server', client.early)
    BY <2>5, <2>7 DEF EarlyOK
  <2>11. C2sOK(c2s', client) /\ S2cOK(s2c', server')
    BY <1>1, HeadOfC2s, S2cFrame DEF Inv
  <2> QED
    BY <1>1, <2>9, <2>10, <2>11, ServerUndone
<1> QED
  BY <1>2, <1>3

LEMMA ServerReceivesInv == Inv /\ ServerReceives => Inv'
<1> SUFFICES ASSUME Inv, ServerReceives PROVE Inv'
  OBVIOUS
<1> DEFINE rec == Head(c2s)
           sv == ServerMarks(server, server.eoedSeen \/ rec.msg.type = "EndOfEarlyData")
<1>1. /\ server.step \in ServerReadSteps \ {"RECV_CH"} /\ c2s # << >>
      /\ c2s' = Tail(c2s) /\ UNCHANGED <<setting, client, s2c>>
  BY DEF ServerReceives, ServerIn, ServerTakes
<1>2. /\ ServerLocal(server) /\ ServerShape(server) /\ ~ Done(server)
      /\ (server.store => setting.ticket = "known") /\ ServerKeeps(server, server)
      /\ KeyOf(server.hsKey, "handshake") /\ setting \in Scenarios
  BY <1>1, ServerOpen DEF Inv, ServerLocal, ServerKeeps, ServerReadSteps
<1>3. FromClient(rec, client) /\ C2sOK(c2s', client) /\ IsSeq(c2s)
  BY <1>1, HeadOfC2s
<1>4. CASE rec.key = server.hsKey
  <2>1. server' = TakeHandshakeMessage(rec)
    BY <1>4 DEF ServerReceives
  <2>2. /\ ServerShape(sv) /\ ServerLocal(sv) /\ ServerHolds(server, sv)
        /\ ServerKeeps(server, sv) /\ ~ Done(sv) /\ sv.step = server.step
    BY <1>2, MarksShape
  <2>3. server' = CASE server.step = "RECV_CLIENT_CERT" -> TakeClientCertificate(sv, rec)
                    [] server.step = "RECV_CLIENT_CERT_VERIFY" ->
                         TakeClientCertificateVerify(sv, rec)
                    [] OTHER -> TakeClientFinished(sv, rec)
    BY <2>1 DEF TakeHandshakeMessage, ServerIn, ServerMarks
  <2> HIDE DEF sv
  <2>4. \/ GoesOn(sv, server') \/ HeardFinished(sv, server', rec)
        \/ \E why \in Causes \ {"none"} : server' = Closed(sv, why)
    <3>1. CASE server.step = "RECV_CLIENT_CERT"
      <4>1. server' = TakeClientCertificate(sv, rec)
        BY <2>3, <3>1
      <4>2. rec.msg.type = "Certificate" => rec.msg.cert = setting.clientCert
        BY <1>3 DEF FromClient
      <4> QED
        BY <1>2, <2>2, <3>1, <4>1, <4>2, TakesCertificate
    <3>2. CASE server.step = "RECV_CLIENT_CERT_VERIFY"
      <4>1. server' = TakeClientCertificateVerify(sv, rec)
        BY <2>3, <3>2
      <4> QED
        BY <2>2, <3>2, <4>1, TakesCertificateVerify
    <3>3. CASE server.step = "RECV_FINISHED"
      <4>1. server' = TakeClientFinished(sv, rec)
        BY <2>3, <3>3
      <4> QED
        BY <2>2, <3>3, <4>1, TakesFinished
    <3> QED
      BY <1>1, <3>1, <3>2, <3>3 DEF ServerReadSteps
  <2>5. CASE GoesOn(sv, server')
    <3>1. ServerLocal(server') /\ ~ Done(server') /\ server'.early = server.early
      BY <2>2, <2>5 DEF GoesOn, ServerKeeps
    <3>2. Tracks(server') => Tracks(server)
      BY <1>2, <2>2, <2>5 DEF GoesOn, Tracks, ServerHolds, AcceptsEarly
    <3>3. ~ Early(rec)
      BY <1>2, <1>4 DEF Early, KeyOf
    <3>4. EarlyOK(c2s', server', client.early)
      BY <1>1, <1>3, <3>1, <3>2, <3>3, EarlyTail DEF Inv
    <3>5. S2cOK(s2c', server')
      BY <1>1, <1>2, S2cFrame DEF Inv
    <3> QED
      BY <1>1, <1>2, <1>3, <3>1, <3>4, <3>5, ServerUndone
  <2>6. CASE HeardFinished(sv, server', rec)
    BY <1>1, <1>4, <2>2, <2>6, HeardFinishedInv
  <2>7. CASE \E why \in Causes \ {"none"} : server' = Closed(sv, why)
    <3>1. PICK why \in Causes \ {"none"} : server' = Closed(sv, why)
      BY <2>7
    <3>2. /\ sv.store => setting.ticket = "known"
          /\ sv.early = server.early
      BY <1>2, <2>2 DEF ServerHolds, ServerKeeps
    <3> QED
      BY <1>1, <1>2, <2>2, <3>1, <3>2, ServerClosesInv
  <2> QED
    BY <2>4, <2>5, <2>6, <2>7
<1>5. CASE rec.key # server.hsKey /\ MayBeEarly(server) /\ rec.key = server.earlyKey
  <2>1. server' = KeepEarlyData(server, rec.msg.unit)
    BY <1>5 DEF ServerReceives
  <2> QED
    BY <1>1, <1>5, <2>1, KeepEarlyDataInv
<1>6. CASE server' = Closed(server, "protocol")
  BY <1>1, <1>2, <1>6, ServerClosesInv DEF Causes
<1>7. CASE server' = server /\ SkipsUnreadable(server)
  <2>1. ~ Tracks(server')
    BY <1>1, <1>7 DEF SkipsUnreadable, Tracks, AcceptsEarly
  <2>2. EarlyOK(c2s', server', client.early)
    BY <1>7, <2>1 DEF Inv, EarlyOK
  <2>3. S2cOK(s2c', server')
    BY <1>1, <1>7 DEF Inv
  <2> QED
    BY <1>1, <1>2, <1>3, <1>7, <2>2, <2>3, ServerUndone
<1>8. \/ rec.key = server.hsKey
      \/ rec.key # server.hsKey /\ MayBeEarly(server) /\ rec.key = server.earlyKey
      \/ server' = Closed(server, "protocol")
      \/ server' = server /\ SkipsUnreadable(server)
  BY DEF ServerReceives
<1> QED
  BY <1>4, <1>5, <1>6, <1>7, <1>8

-----------------------------------------------------------------------------
(* The invariant *)

LEMMA InitInv == Init => Inv
<1> SUFFICES ASSUME Init PROVE Inv
  OBVIOUS
<1>0. /\ IsSeq(<< >>) /\ Len(<< >>) = 0 /\ DOMAIN << >> = {} /\ << >> \in Seq(Nat)
      /\ EarlyLimit \in Nat /\ MaxEarly \in Nat
  BY SeqShort, SeqAppend, ScenarioAssumption
<1>1. /\ setting \in Scenarios /\ c2s = << >> /\ s2c = << >>
      /\ DOMAIN client = ClientFields /\ client.step = "SEND_CH" /\ client.tr = << >>
      /\ client.earlyKey = Plain /\ client.hsKey = Plain /\ client.appKey = Plain
      /\ client.resumption = Plain /\ client.ticket = Plain /\ client.why = "none"
      /\ client.ccsSeen = 0 /\ client.early = 0
  BY DEF Init, ClientFields
<1>2. /\ DOMAIN server = ServerFields /\ server.step = "RECV_CH" /\ server.tr = << >>
      /\ server.earlyKey = Plain /\ server.hsKey = Plain /\ server.appKey = Plain
      /\ server.resumption = Plain /\ server.why = "none" /\ server.ccsSeen = 0
      /\ server.early = << >> /\ server.store = (setting.ticket = "known")
  BY DEF Init, ServerFields
<1>3. ~ Done(client) /\ ~ Done(server) /\ \A type : ~ Mentions(<< >>, type)
  BY <1>0, <1>1, <1>2 DEF Done, Mentions
<1>4. ClientShape(client)
  BY <1>0, <1>1, PlainKey DEF ClientShape, EndShape, Causes, ClientSteps, ClientSendSteps
<1>5. ClientLocal(client)
  BY <1>1, <1>3, <1>4
     DEF ClientLocal, ClientBeforeSh, ClientBeforeEe, ClientBeforeFin, ClientAuthed
<1>6. ServerShape(server)
  BY <1>0, <1>2, PlainKey DEF ServerShape, EndShape, Causes, ServerSteps, ServerReadSteps
<1>7. ServerLocal(server)
  BY <1>2, <1>3, <1>6 DEF ServerLocal, ServerBeforeSh, ServerBeforeEe, ServerBeforeFin
<1>8. C2sOK(c2s, client) /\ S2cOK(s2c, server)
  BY <1>0, <1>1 DEF C2sOK, S2cOK
<1>9. EarlyOK(c2s, server, client.early)
  BY <1>0, <1>1, <1>2 DEF EarlyOK, EarlyRun
<1>10. DoneOK(client, server) /\ TicketOK(client, server)
  BY <1>1, <1>3 DEF DoneOK, TicketOK
<1> QED
  BY <1>1, <1>5, <1>7, <1>8, <1>9, <1>10 DEF Inv

LEMMA NextInv == Inv /\ [Next]_vars => Inv'
<1>1. Inv /\ ClientStep => Inv'
  BY SendClientHelloInv, ClientCompatCcsInv, ReceiveServerHelloInv, ClientReceivesInv,
     SendClientAuthInv, SendEndOfEarlyDataInv, SendClientFinishedInv, ReceiveTicketInv,
     ClientEndsInv DEF ClientStep
<1>2. Inv /\ ServerStep => Inv'
  BY ReceiveClientHelloInv, SendServerHelloInv, SendEncryptedExtensionsInv, FlightInv,
     SendServerFinishedInv, ServerCompatCcsInv, ServerReceivesInv, SendNewSessionTicketInv,
     ServerEndsInv DEF ServerStep
<1>3. Inv /\ Next => Inv'
  BY <1>1, <1>2, SendEarlyDataInv, ClientEndsInv, ServerEndsInv DEF Next
<1>4. ASSUME Inv, UNCHANGED vars PROVE Inv'
  <2>1. /\ setting' = setting /\ client' = client /\ server' = server
        /\ c2s' = c2s /\ s2c' = s2c
    BY <1>4 DEF vars
  <2>2. /\ ClientLocal(client') /\ ServerLocal(server') /\ C2sOK(c2s', client')
        /\ S2cOK(s2c', server') /\ EarlyOK(c2s', server', client'.early)
        /\ DoneOK(client', server') /\ TicketOK(client', server')
    BY <1>4, <2>1 DEF Inv
  <2> QED
    BY <1>4, <2>1, <2>2, InvNext DEF Inv
<1> QED
  BY <1>3, <1>4

(* The invariant holds throughout every handshake of noxtls_tls13_connect   *)
(* with noxtls_tls13_accept, in every configuration of the two ends.        *)
THEOREM HandshakeInvariant == Spec => []Inv
<1> QED
  BY InitInv, NextInv, PTL DEF Spec

-----------------------------------------------------------------------------
(* What follows from it *)

(* Steps, causes of failure, the counts of early and compatibility records  *)
(* and the keys on the wire stay within what the two step machines know: no *)
(* end keeps more early data than NOXTLS_TLS13_SERVER_MAX_EARLY_DATA.       *)
THEOREM HandshakeTypeCorrect == Spec => []TypeOK
<1>1. ASSUME Inv PROVE TypeOK
  <2>1. /\ client.step \in ClientSteps /\ client.why \in Causes
        /\ (client.step = "CLOSED" <=> client.why # "none")
        /\ client.early \in 0 .. MaxEarly /\ client.ccsSeen \in 0 .. 2
    BY <1>1 DEF Inv, ClientLocal, ClientShape, EndShape
  <2>2. /\ server.step \in ServerSteps /\ server.why \in Causes
        /\ (server.step = "CLOSED" <=> server.why # "none")
        /\ server.early \in Seq(Nat) /\ Len(server.early) <= EarlyLimit
        /\ server.ccsSeen \in 0 .. 2
    BY <1>1 DEF Inv, ServerLocal, ServerShape, EndShape
  <2>3. Len(server.early) \in 0 .. EarlyLimit
    BY <2>2, ScenarioAssumption
  <2>4. \A i \in DOMAIN c2s : c2s[i].key.level \in Secrets
    BY <1>1 DEF Inv, C2sOK, FromClient
  <2>5. \A i \in DOMAIN s2c : s2c[i].key.level \in Secrets
    BY <1>1 DEF Inv, S2cOK, FromServer
  <2> QED
    BY <2>1, <2>2, <2>3, <2>4, <2>5 DEF TypeOK, ClientSteps, ServerSteps
<1> QED
  BY <1>1, HandshakeInvariant, PTL

(* A server that is connected, and a client that holds its ticket, agree on *)
(* transcript, PSK, application keys and resumption secret: the Finished    *)
(* that noxtls_tls13_recv_finished_client verified covers all of them, also *)
(* after a retry, a resumption or early data.                               *)
THEOREM EndsAgree == Spec => []Agreement
<1>1. ASSUME Inv PROVE Agreement
  <2>1. server.step = "CONNECTED" => Done(server)
    BY <1>1 DEF Inv, ServerLocal
  <2>2. client.ticket # Plain => Done(server) /\ client.ticket = client.resumption
    BY <1>1 DEF Inv, ClientLocal, TicketOK
  <2> QED
    BY <1>1, <2>1, <2>2 DEF Inv, DoneOK, Agreement
<1> QED
  BY <1>1, HandshakeInvariant, PTL

(* No path through the two step machines ends connected without the peer's  *)
(* certificate and proof, or a PSK the server really has; a required client *)
(* certificate is proved on every path, resumption included.                *)
THEOREM PeersProved == Spec => []PeersAuthenticated
<1>1. ASSUME Inv PROVE PeersAuthenticated
  <2>1. client.step = "CONNECTED" =>
          /\ PskValid(client.psk)
          /\ client.psk # "none" \/ (client.peerCert /\ setting.serverCert = "good")
    BY <1>1 DEF Inv, ClientLocal, ClientBeforeSh, ClientAuthed
  <2>2. server.step = "CONNECTED" /\ setting.auth = "require" =>
          server.peerCert = "proved" /\ setting.clientCert = "good"
    BY <1>1 DEF Inv, ServerLocal
  <2> QED
    BY <2>1, <2>2 DEF PskValid, PeersAuthenticated
<1> QED
  BY <1>1, HandshakeInvariant, PTL

(* The 0-RTT data the server's application gets is a prefix of what         *)
(* noxtls_tls13_send_early_data sent, in order, and once the server is      *)
(* connected all of it, or nothing if the client was told it was refused.   *)
THEOREM EarlyDataIsExact == Spec => []EarlyDataExact
<1>1. ASSUME Inv PROVE EarlyDataExact
  <2>1. server.step = "CONNECTED" => Done(server)
    BY <1>1 DEF Inv, ServerLocal
  <2> QED
    BY <1>1, <2>1 DEF Inv, EarlyOK, DoneOK, EarlyDataExact
<1> QED
  BY <1>1, HandshakeInvariant, PTL

=============================================================================
