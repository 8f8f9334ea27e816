------------------------------- MODULE OAuth -------------------------------
(***************************************************************************)
(* The OAuth code flow with PKCE as the server uses it (src/oauth.rs),     *)
(* the opaque state parameter it travels with                              *)
(* (src/routes/challenge.rs), and GitHub's side of it, which is            *)
(* external: the authorization endpoint and the token endpoint.            *)
(*                                                                         *)
(* Bound: an authorization URL yields at most one code, so a code is named *)
(* by the challenge whose URL it was issued for.                           *)
(***************************************************************************)
EXTENDS AppState, Sequences

VARIABLE granted  \* GitHub: the authorization behind each code it has issued

ApiDomain == "api.github.com"

\* The state parameter: challenge, public key and API domain, joined by ':'.
FormatOauthState(c, p) == <<c, p, ApiDomain>>

\* What may come back of a state parameter: all of it, or a truncated copy,
\* down to a missing parameter.
Copies(state) == {<<>>, <<state[1]>>, <<state[1], state[2]>>, state}

\* Two non-empty segments are required, the third is informational.
ParseOauthState(state) ==
  IF Len(state) >= 2 THEN [chal |-> state[1], pubkey |-> state[2]] ELSE Absent

\* Random, so no two challenges have the same one.
GenerateCodeVerifier_Seeded(c) == CHOOSE v \in Challenge : TRUE

GenerateCodeVerifier(c) == c

\* BASE64URL(SHA256(v)): it identifies the verifier and is not the verifier.
CodeChallenge(verifier) == [sha256 |-> verifier]

BuildAuthUrl(c, p) ==
  [state |-> FormatOauthState(c, p),
   code_challenge |-> CodeChallenge(GenerateCodeVerifier(c))]

Grant == [user : User, code_challenge : {CodeChallenge(v) : v \in Challenge}]

OAuthInit == granted = [c \in Challenge |-> Absent]

\* GitHub, for a user who accepts at the authorization URL of challenge c.
IssueCode(c, url, u) ==
  /\ granted[c] = Absent
  /\ granted' = [granted EXCEPT ![c] = [user |-> u,
                                        code_challenge |-> url.code_challenge]]

Codes == {c \in Challenge : granted[c] # Absent}

\* The accounts an access token obtained with (code, verifier) can belong to:
\* GitHub redeems a code only against the verifier its authorization announced.
TokensFor(code, verifier) ==
  IF code \in Codes /\ granted[code].code_challenge = CodeChallenge(verifier)
  THEN {granted[code].user} ELSE {}

\* exchange_code_server_side: an access token, named by its account, or an
\* error (Absent), which refusals, transport failures and unusable answers
\* all come to.
ExchangeCode(code, verifier) == {Absent} \cup TokensFor(code, verifier)

OAuthTypeOK == granted \in [Challenge -> Grant \cup {Absent}]
=============================================================================
