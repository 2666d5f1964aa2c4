--------------------------- MODULE MCTls12Sessions ---------------------------
(***************************************************************************)
(* Configurations of Tls12Sessions for TLC: a plain connection beside one   *)
(* that differs from it in one respect, with and without a stored session.  *)
(***************************************************************************)
EXTENDS Tls12Sessions, TLC

Plain == [name |-> "a", room |-> 2, ems |-> TRUE, allowlist |-> ClientSuites,
          serverSuites |-> <<"dhe", "rsa">>, ownCert |-> FALSE, auth |-> "none",
          identity |-> "k1", trusted |-> TRUE, alpn |-> "h1", expect |-> "any", fatal |-> FALSE]

Variants ==
    { Plain, [Plain EXCEPT !.name = "b"], [Plain EXCEPT !.ems = FALSE],
      [Plain EXCEPT !.room = 1], [Plain EXCEPT !.room = 0],
      [Plain EXCEPT !.allowlist = {"rsa"}],
      [Plain EXCEPT !.allowlist = {"rsa"}, !.serverSuites = <<"rsa", "dhe">>],
      [Plain EXCEPT !.serverSuites = <<"other">>],
      [Plain EXCEPT !.auth = "request"],
      [Plain EXCEPT !.auth = "require", !.ownCert = TRUE],
      [Plain EXCEPT !.auth = "require"],
      [Plain EXCEPT !.identity = "k2"], [Plain EXCEPT !.trusted = FALSE],
      [Plain EXCEPT !.alpn = "h2"],
      [Plain EXCEPT !.expect = "other"], [Plain EXCEPT !.expect = "other", !.fatal = TRUE] }

NoPrior == [name |-> "none", ems |-> FALSE, suite |-> "none", alpn |-> "h1", identity |-> "k1"]
Priors == { NoPrior, [NoPrior EXCEPT !.name = "a", !.suite = "dhe", !.ems = TRUE],
            [NoPrior EXCEPT !.name = "a", !.suite = "rsa"] }

MCSettings ==
    { [conn |-> ("c1" :> Plain @@ "c2" :> v), prior |-> p] : v \in Variants, p \in Priors }
=============================================================================
