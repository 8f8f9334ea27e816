----------------------------- MODULE Deployment -----------------------------
(***************************************************************************)
(* From the configuration to the first answers (src/config.rs, src/lib.rs, *)
(* src/main.rs, src/routes/mod.rs, src/routes/gmail.rs): the process       *)
(* parses its settings, refuses to start or serves, and what it then       *)
(* answers that depends on settings alone: which handler a path reaches,   *)
(* whether an origin is allowed, and where the Gmail relay sends the       *)
(* browser.  What the handlers of a claim do is in HandleClaim.            *)
(*                                                                         *)
(* A text is a sequence of tokens; "*", ".", "/" and " " are tokens by     *)
(* themselves, and no other token holds one of them.  A URL is taken apart *)
(* as the url crate does.                                                  *)
(***************************************************************************)
EXTENDS Naturals, SequencesExt

CONSTANTS
  Configs,   \* the settings an operator may have made
  Origins,   \* the Origin headers of browsers, as texts; Absent if not ASCII
  Methods, Paths,  \* of requests
  Absent     \* no value, or one that does not parse

IsText(text) == text \in Seq(Range(text))

\* The fields of a URL that are looked at, and of its host, if it has one.
IsUrl(url) ==
  /\ url = [scheme |-> url.scheme, credentials |-> url.credentials, host |-> url.host,
            path |-> url.path, query |-> url.query, fragment |-> url.fragment]
  /\ url.host # Absent /\ url.host.kind # "ip" => IsText(url.host.name)

\* Settings are texts, an app_url at most one URL (clap, Config).
ASSUME ConfigAssumption ==
  \A cfg \in Configs :
    /\ IsText(cfg.base_url)
    /\ \A item \in Range(cfg.allowed_origins) : IsText(item)
    /\ \/ cfg.app_url = <<>>
       \/ \E url \in Range(cfg.app_url) :
            cfg.app_url = <<url>> /\ (url = Absent \/ IsUrl(url))

ASSUME OriginAssumption == \A origin \in Origins : origin = Absent \/ IsText(origin)

VARIABLES
  config,   \* the settings of this process
  phase,    \* how far it has got
  runtime,  \* Runtime, and the rest of what main takes from the settings
  answer    \* to the last request

vars == <<config, phase, runtime, answer>>

-----------------------------------------------------------------------------
\* CORS: the allow-list.

\* trim and trim_end_matches: without the tokens t at both ends, or at the end.
TrimEnd(text, t) ==
  SubSeq(text, 1, Max({0} \cup {i \in DOMAIN text : text[i] # t}))

Trim(text, t) == Reverse(TrimEnd(Reverse(TrimEnd(text, t)), t))

\* allowed_origin_patterns, of the items between the commas.
AllowedOriginPatterns(items) == {Trim(item, " ") : item \in Range(items)} \ {<<>>}

\* The closure in cors_layer.
Starred(pattern) == \E i \in DOMAIN pattern : pattern[i] = "*"

AfterStarDot(pattern) == SubSeq(pattern, 3, Len(pattern))

PatternMatches_NoDot(pattern, origin) ==
  \/ ~Starred(pattern) /\ origin = pattern
  \/ IsPrefix(<<"*", ".">>, pattern) /\ IsSuffix(AfterStarDot(pattern), origin)
  \/ /\ ~IsPrefix(<<"*", ".">>, pattern)
     /\ Last(pattern) = "*"
     /\ IsPrefix(Front(pattern), origin)

PatternMatches(pattern, origin) ==
  \/ ~Starred(pattern) /\ origin = pattern
  \/ /\ IsPrefix(<<"*", ".">>, pattern)
     /\ \/ IsSuffix(<<".">> \o AfterStarDot(pattern), origin)
        \/ origin = AfterStarDot(pattern)
  \/ /\ ~IsPrefix(<<"*", ".">>, pattern)
     /\ Last(pattern) = "*"
     /\ IsPrefix(Front(pattern), origin)

OriginAllowed(patterns, origin) ==
  origin # Absent /\ \E pattern \in patterns : PatternMatches(pattern, origin)

-----------------------------------------------------------------------------
\* build_state.

CallbackPath == <<"/", "auth", "/", "github", "/", "callback">>

RedirectUri_OneSlash(base_url) ==
  (IF Last(base_url) = "/" THEN Front(base_url) ELSE base_url) \o CallbackPath

RedirectUri(base_url) == TrimEnd(base_url, "/") \o CallbackPath

\* hex_to_address of both addresses, and the one setting checked for being empty.
Acceptable(cfg) ==
  /\ cfg.notary_address # Absent
  /\ cfg.verifier_contract_address # Absent
  /\ cfg.base_url # <<>>

\* An empty APP_URL is none; any other is taken as it is.
Runtime(cfg) ==
  [app_url         |-> cfg.app_url,
   redirect_uri    |-> RedirectUri(cfg.base_url),
   allowed_origins |-> AllowedOriginPatterns(cfg.allowed_origins)]

-----------------------------------------------------------------------------
\* build_router: the method and the handler of a path.

Routes ==
  {[path |-> <<"/", "health">>, method |-> "GET", handler |-> "health"],
   [path |-> <<"/", "auth", "/", "github", "/", "challenge">>,
    method |-> "POST", handler |-> "challenge_github"],
   [path |-> <<"/", "auth", "/", "github", "/", "callback">>,
    method |-> "GET", handler |-> "callback_github"],
   [path |-> <<"/", "auth", "/", "github", "/", "result", "/", "{challenge}">>,
    method |-> "GET", handler |-> "result_github"],
   [path |-> <<"/", "auth", "/", "gmail", "/", "callback">>,
    method |-> "GET", handler |-> "gmail_callback"]}

\* A segment in braces stands for any one segment.
PathMatches(route, path) ==
  /\ Len(route) = Len(path)
  /\ \A i \in DOMAIN path : path[i] = route[i] \/ (route[i] = "{challenge}" /\ path[i] # "/")

\* The CORS layer answers OPTIONS itself; it lies around the router.
HandlerOf(method, path) ==
  IF method = "OPTIONS" THEN "preflight"
  ELSE LET matching == {route \in Routes : PathMatches(route.path, path)} IN
       IF matching = {} THEN "not_found"
       ELSE LET route == CHOOSE route \in matching : TRUE IN
            IF route.method = method THEN route.handler ELSE "method_not_allowed"

-----------------------------------------------------------------------------
\* The Gmail relay.

\* is_loopback_host
IsLoopbackHost_AnySuffix(host) ==
  host # Absent /\ IF host.kind = "ip" THEN host.loopback
                   ELSE IsSuffix(<<"localhost">>, host.name)

IsLoopbackHost(host) ==
  host # Absent /\ IF host.kind = "ip" THEN host.loopback
                   ELSE \/ host.name = <<"localhost">>
                        \/ IsSuffix(<<".", "localhost">>, host.name)

\* gmail_callback_target: the URL to go to, or Absent for its errors.
GmailCallbackTarget(url) ==
  IF /\ url # Absent
     /\ url.scheme = "https" \/ (url.scheme = "http" /\ IsLoopbackHost(url.host))
     /\ ~url.credentials
  THEN [url EXCEPT !.path = <<"/", "auth", "/", "gmail", "/", "callback">>,
                   !.query = Absent, !.fragment = Absent]
  ELSE Absent

\* gmail_callback: the page's target; Absent is a 500.
GmailCallback == IF runtime.app_url = <<>> THEN Absent
                 ELSE GmailCallbackTarget(runtime.app_url[1])

-----------------------------------------------------------------------------
\* main.

ASSUME AbsentAssumption == Absent # "gmail_callback"

NoAnswer == [method |-> Absent, path |-> <<>>, origin |-> Absent,
             handler |-> Absent, allow_origin |-> FALSE, target |-> Absent]

Init ==
  /\ config \in Configs
  /\ phase = "parsing"
  /\ runtime = Absent
  /\ answer = NoAnswer

\* Config::parse: clap exits if a setting is missing or has no value of its type.
Parse ==
  /\ phase = "parsing"
  /\ phase' = IF config.notary_url = Absent THEN "refused" ELSE "building"
  /\ UNCHANGED <<config, runtime, answer>>

BuildState ==
  /\ phase = "building"
  /\ IF Acceptable(config)
     THEN phase' = "binding" /\ runtime' = Runtime(config)
     ELSE phase' = "refused" /\ UNCHANGED runtime
  /\ UNCHANGED <<config, answer>>

\* TcpListener::bind: the port may be taken.
Bind ==
  /\ phase = "binding"
  /\ phase' \in {"refused", "serving"}
  /\ UNCHANGED <<config, runtime, answer>>

Serve ==
  /\ phase = "serving"
  /\ \E method \in Methods, path \in Paths, origin \in Origins :
       LET handler == HandlerOf(method, path) IN
       answer' = [method |-> method, path |-> path, origin |-> origin,
                  handler |-> handler,
                  allow_origin |-> OriginAllowed(runtime.allowed_origins, origin),
                  target |-> IF handler = "gmail_callback" THEN GmailCallback ELSE Absent]
  /\ UNCHANGED <<config, phase, runtime>>

Next == Parse \/ BuildState \/ Bind \/ Serve

Spec == Init /\ [][Next]_vars

-----------------------------------------------------------------------------
\* Properties.

Stars(pattern) == {i \in DOMAIN pattern : pattern[i] = "*"}

\* A pattern of at most one star read as a glob: the star stands for any text.
GlobMatches(pattern, text) ==
  \/ Stars(pattern) = {} /\ text = pattern
  \/ \E star \in Stars(pattern), from \in 1..(Len(text) + 1), to \in 0..Len(text) :
       text = SubSeq(pattern, 1, star - 1) \o SubSeq(text, from, to)
                \o SubSeq(pattern, star + 1, Len(pattern))

\* The forms config.rs:42 names: *.suffix, prefix*, or no star at all.
Supported(pattern) ==
  \/ Stars(pattern) = {}
  \/ Stars(pattern) = {1} /\ IsPrefix(<<"*", ".">>, pattern)
  \/ Stars(pattern) = {Len(pattern)}

\* The text of an item is at these positions, with only spaces around it.
TextAt(item, from, to) ==
  /\ from <= to /\ item[from] # " " /\ item[to] # " "
  /\ \A i \in DOMAIN item : i < from \/ i > to => item[i] = " "

\* An origin, which holds no star, is allowed exactly if an item of the list as the
\* operator wrote it, of a supported form, matches it as a glob, or names it in full
\* after its "*.": a star elsewhere matches nothing, an empty item allows nobody, and
\* a pattern never allows more than it says (cors_layer).
OriginsAsListed ==
  /\ phase = "serving" /\ answer.handler # Absent
  /\ answer.origin # Absent => Stars(answer.origin) = {}
  => (answer.allow_origin <=>
       /\ answer.origin # Absent
       /\ \E item \in Range(config.allowed_origins) :
          \E from \in DOMAIN item, to \in DOMAIN item :
            LET text == SubSeq(item, from, to) IN
            /\ TextAt(item, from, to)
            /\ Supported(text)
            /\ \/ GlobMatches(text, answer.origin)
               \/ text = <<"*", ".">> \o answer.origin)

\* GitHub sends the browser to the route of the callback, however many slashes
\* BASE_URL, an origin, ends in (build_state, build_router).
RedirectReachesCallback ==
  /\ phase = "serving"
  /\ \A i \in DOMAIN config.base_url : i = 1 <=> config.base_url[i] # "/"
  => HandlerOf("GET", Tail(runtime.redirect_uri)) = "callback_github"

\* The relay forwards exactly if that is over TLS or stays on this machine, the
\* host's last label or its address saying so; and it forwards to the host of
\* APP_URL, at the fixed path.  The path that APP_URL itself has plays no part, see
\* RelayKeepsAppPath (gmail_callback_target).
LastLabel(name) ==
  SubSeq(name, 1 + Max({0} \cup {i \in DOMAIN name : name[i] = "."}), Len(name))

RelayGoesToAppHost ==
  answer.handler = "gmail_callback" =>
    LET url == IF config.app_url = <<>> THEN Absent ELSE config.app_url[1]
        Local == /\ url.scheme = "http" /\ url.host # Absent
                 /\ IF url.host.kind = "ip" THEN url.host.loopback
                    ELSE LastLabel(url.host.name) = <<"localhost">>
    IN IF url # Absent /\ (url.scheme = "https" \/ Local) /\ ~url.credentials
       THEN /\ answer.target.host = url.host /\ answer.target.scheme = url.scheme
            /\ HandlerOf("GET", answer.target.path) = "gmail_callback"
            /\ answer.target.query = Absent /\ answer.target.fragment = Absent
       ELSE answer.target = Absent

-----------------------------------------------------------------------------
\* What the documents say and the code does not do.

\* README.md:80 and config.rs:36-37: the relay forwards to
\* {APP_URL}/auth/gmail/callback, so below the path that APP_URL has.
RelayKeepsAppPath ==
  answer.handler = "gmail_callback" /\ answer.target # Absent =>
    answer.target.path = TrimEnd(config.app_url[1].path, "/")
                           \o <<"/", "auth", "/", "gmail", "/", "callback">>
=============================================================================
