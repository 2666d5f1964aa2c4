-------------------------- MODULE MCTls13Handshake --------------------------
(***************************************************************************)
(* Configurations of Tls13Handshake for TLC.                                *)
(***************************************************************************)
EXTENDS Tls13Handshake

Base == [groups |-> <<"x25519", "p256">>, shares |-> {"x25519"},
         serverGroups |-> <<"x25519", "p256">>, ticket |-> "none", single |-> FALSE,
         external |-> "none", clientCert |-> "none", serverCert |-> "good",
         auth |-> "none"]

(* Group negotiation: the share fits, needs a retry, or nothing fits. *)
GroupChoices ==
    { [Base EXCEPT !.serverGroups = g] : g \in {<<"x25519", "p256">>, <<"p256">>, <<"x448">>} }

PskChoices(base) ==
    { [base EXCEPT !.ticket = t, !.single = u] :
        t \in {"none", "known", "unknown"}, u \in BOOLEAN }
    \cup { [base EXCEPT !.external = x] : x \in {"dhe", "ke", "unknown"} }
    \cup { [base EXCEPT !.external = x, !.shares = {}] : x \in {"ke", "unknown"} }

(* A known ticket beside an external PSK, where the ticket stays usable. *)
BothPsks(base) == { [base EXCEPT !.ticket = "known", !.external = x] : x \in {"dhe", "ke"} }

AuthChoices(base) ==
    { [base EXCEPT !.auth = a, !.clientCert = c] :
        a \in {"none", "request", "require"}, c \in {"none", "good", "bad"} }

MCScenarios ==
    UNION { AuthChoices(b) : b \in UNION { PskChoices(g) \cup BothPsks(g) : g \in GroupChoices } }
    \cup { [Base EXCEPT !.serverCert = "bad", !.ticket = t] : t \in {"none", "known", "unknown"} }

SplitScenarios == { Base }

(* The ticket is gone from the server, which accepts the external PSK. *)
EarlyExternalScenarios == { [Base EXCEPT !.ticket = "unknown", !.external = "dhe"] }
=============================================================================
