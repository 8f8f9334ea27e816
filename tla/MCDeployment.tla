---------------------------- MODULE MCDeployment ----------------------------
(***************************************************************************)
(* Settings and requests for TLC: each setting at its edges, the others    *)
(* as they should be.                                                      *)
(***************************************************************************)
EXTENDS Deployment

Padded(text) == <<" ">> \o text \o <<" ", " ">>

Example == <<"example", ".", "com">>

Web(host) == <<"https:", "/", "/">> \o host

\* One pattern of each form, and two in one list; empty items; stars elsewhere;
\* a space inside.
Lists ==
  {<<>>, <<<<>>>>, <<Padded(<<>>)>>} \cup
  {<<pattern>> :
     pattern \in {Web(Example), <<"*", ".">> \o Example, Web(<<"app", "*">>), <<"*">>,
                  Web(<<"*", ".">> \o Example), <<"*", ".">> \o Web(Example),
                  <<"*">> \o Example, <<"*", ".", "com", "*">>, <<"*", "*">>,
                  <<"*", ".">>, <<"*", " ">> \o Example}} \cup
  {<<Padded(Web(Example)), <<>>, Padded(<<"*", ".", "com">>)>>}

MCOrigins ==
  {Web(host) : host \in {Example, <<"app", ".">> \o Example, <<"my">> \o Example,
                         <<"app", "1", ".">> \o Example, Example \o <<".", "org">>}}
  \cup {Absent, <<"null">>, Example}

Hosts ==
  {[kind |-> "domain", name |-> name] :
     name \in {<<"localhost">>, <<"foo", ".", "localhost">>, <<"my", "localhost">>,
               <<"localhost", ".", "example">>, <<"wallet", ".", "example">>}}
  \cup [kind : {"ip"}, loopback : BOOLEAN]

Urls ==
  {url \in [scheme : {"https", "http", "tcp"}, credentials : BOOLEAN,
            host : Hosts \cup {Absent}, path : {<<"/">>, <<"/", "app">>},
            query : {"given"}, fragment : {"given"}] :
     url.host = Absent => url.scheme = "tcp"}

Good ==
  [base_url |-> <<"origin">>, app_url |-> <<>>, allowed_origins |-> <<>>,
   notary_url |-> "tcp", notary_address |-> "notary",
   verifier_contract_address |-> "verifier"]

MCConfigs ==
  {[Good EXCEPT !.allowed_origins = list] : list \in Lists}
  \cup {[Good EXCEPT !.app_url = url] : url \in {<<u>> : u \in Urls \cup {Absent}}}
  \cup {[Good EXCEPT !.base_url = base] :
          base \in {<<>>, <<"/">>, <<"origin", "/">>, <<"origin", "/", "/">>,
                    <<"origin", "/", "app", "/">>}}
  \cup {[Good EXCEPT !.notary_url = Absent], [Good EXCEPT !.notary_address = Absent],
        [Good EXCEPT !.verifier_contract_address = Absent]}

MCPaths ==
  {route.path : route \in Routes}
  \cup {<<"/", "auth", "/", "github", "/", "result", "/", "c1">>, <<"/">>}
=============================================================================
