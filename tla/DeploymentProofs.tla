------------------------- MODULE DeploymentProofs -------------------------
(***************************************************************************)
(* Theorems about Deployment, for any settings and any requests.           *)
(*                                                                         *)
(* The argument: whatever the process answers, it answers from the         *)
(* settings it was started with (Settled); what is left is about texts:    *)
(* what the largest position with a property is, what TrimEnd, Trim,       *)
(* prefixes and suffixes are token by token, and which routes match.       *)
(***************************************************************************)
EXTENDS Deployment, SequenceTheorems, WellFoundedInduction, TLAPS

\* The largest number of a set of positions.
LEMMA MaxOfPositions ==
  ASSUME NEW n \in Nat, NEW S \in SUBSET (0..n), S # {}
  PROVE  Max(S) \in S /\ \A i \in S : i <= Max(S)
<1>. DEFINE T == {n - i : i \in S}
<1>1. \A i \in S : i \in Nat /\ n - i \in Nat
  OBVIOUS
<1>2. T \subseteq Nat /\ T # {}
  BY <1>1
<1>3. PICK least \in T : \A d \in T : <<d, least>> \notin OpToRel(<, Nat)
  BY <1>2, NatLessThanWellFounded, WFMin
<1>4. \A d \in T : ~(d < least)
  BY <1>2, <1>3 DEF OpToRel
<1>5. PICK i \in S : least = n - i
  BY <1>3
<1>6. \A j \in S : i >= j
  BY <1>1, <1>4, <1>5
<1>. QED  BY <1>1, <1>5, <1>6 DEF Max

\* The last position of a text that holds no t, or zero: where TrimEnd ends.
LEMMA LastOther ==
  ASSUME NEW text, IsText(text), NEW t
  PROVE  LET last == Max({0} \cup {i \in DOMAIN text : text[i] # t}) IN
         /\ last \in 0..Len(text)
         /\ last # 0 => text[last] # t
         /\ \A i \in 1..Len(text) : text[i] # t => i <= last
<1>1. Len(text) \in Nat /\ DOMAIN text = 1..Len(text)
  BY LenProperties DEF IsText
<1>. DEFINE S == {0} \cup {i \in DOMAIN text : text[i] # t}
<1>2. S \in SUBSET (0..Len(text)) /\ S # {}
  BY <1>1
<1>3. Max(S) \in S /\ \A i \in S : i <= Max(S)
  BY <1>1, <1>2, MaxOfPositions
<1>. QED  BY <1>1, <1>2, <1>3

\* The path of the Gmail relay, as it stands in Routes and in GmailCallbackTarget.
GmailPath == <<"/", "auth", "/", "gmail", "/", "callback">>

\* Two routes of the table have a path of six segments that ends in "callback",
\* and they differ in the fourth.
LEMMA RouteTable ==
  ASSUME NEW route \in Routes
  PROVE  \/ Len(route.path) \in {2, 8}
         \/ Len(route.path) = 6 /\ route.path[4] = "github" /\ route.path[6] = "challenge"
         \/ route = [path |-> CallbackPath, method |-> "GET", handler |-> "callback_github"]
         \/ route = [path |-> GmailPath, method |-> "GET", handler |-> "gmail_callback"]
<1>1. CASE route = [path |-> <<"/", "health">>, method |-> "GET", handler |-> "health"]
  BY <1>1
<1>2. CASE route = [path |-> <<"/", "auth", "/", "github", "/", "challenge">>,
                    method |-> "POST", handler |-> "challenge_github"]
  BY <1>2
<1>3. CASE route = [path |-> <<"/", "auth", "/", "github", "/", "result", "/", "{challenge}">>,
                    method |-> "GET", handler |-> "result_github"]
  BY <1>3
<1>. QED  BY <1>1, <1>2, <1>3, Zenon DEF Routes, CallbackPath, GmailPath

\* The path of GitHub's redirect reaches the callback's handler and no other.
LEMMA CallbackPathRouted == HandlerOf("GET", CallbackPath) = "callback_github"
<1>. DEFINE matching == {route \in Routes : PathMatches(route.path, CallbackPath)}
            callback == [path |-> CallbackPath, method |-> "GET", handler |-> "callback_github"]
<1>1. /\ Len(CallbackPath) = 6 /\ DOMAIN CallbackPath = 1..6
      /\ CallbackPath[4] = "github" /\ CallbackPath[6] = "callback" /\ GmailPath[4] = "gmail"
  BY DEF CallbackPath, GmailPath
<1>2. callback \in Routes
  BY Zenon DEF Routes, CallbackPath
<1>3. PathMatches(callback.path, CallbackPath)
  BY DEF PathMatches
<1>4. ASSUME NEW route \in Routes, PathMatches(route.path, CallbackPath)
      PROVE  route = callback
  <2>0. \A i \in 1..6 : CallbackPath[i] = route.path[i] \/ route.path[i] = "{challenge}"
    BY <1>1, <1>4, Zenon DEF PathMatches
  <2>1. Len(route.path) = 6
    BY <1>1, <1>4 DEF PathMatches
  <2>2. CallbackPath[4] = route.path[4] \/ route.path[4] = "{challenge}"
    <3>1. 4 \in 1..6
      OBVIOUS
    <3>. QED  BY <2>0, <3>1, Zenon
  <2>3. CallbackPath[6] = route.path[6] \/ route.path[6] = "{challenge}"
    <3>1. 6 \in 1..6
      OBVIOUS
    <3>. QED  BY <2>0, <3>1, Zenon
  <2>4. Len(route.path) \notin {2, 8}
    BY <2>1
  <2>5. ~(route.path[4] = "github" /\ route.path[6] = "challenge")
    <3>1. "challenge" \notin {"callback", "{challenge}"}
      OBVIOUS
    <3>. QED  BY <1>1, <2>3, <3>1, Zenon
  <2>6. route # [path |-> GmailPath, method |-> "GET", handler |-> "gmail_callback"]
    <3>1. ASSUME route = [path |-> GmailPath, method |-> "GET", handler |-> "gmail_callback"]
          PROVE  route.path = GmailPath
      BY <3>1
    <3>2. "gmail" \notin {"github", "{challenge}"}
      OBVIOUS
    <3>. QED  BY <1>1, <2>2, <3>1, <3>2, Zenon
  <2>. QED  BY <2>4, <2>5, <2>6, RouteTable, Zenon
<1>5. matching = {callback}
  BY <1>2, <1>3, <1>4
<1>6. (CHOOSE route \in matching : TRUE) = callback
  BY <1>5
<1>. QED  BY <1>5, <1>6 DEF HandlerOf

\* The path of the Gmail relay reaches the relay's handler and no other.
LEMMA GmailPathRouted == HandlerOf("GET", GmailPath) = "gmail_callback"
<1>. DEFINE matching == {route \in Routes : PathMatches(route.path, GmailPath)}
            callback == [path |-> GmailPath, method |-> "GET", handler |-> "gmail_callback"]
<1>1. /\ Len(GmailPath) = 6 /\ DOMAIN GmailPath = 1..6 /\ GmailPath[4] = "gmail"
      /\ CallbackPath[4] = "github"
  BY DEF GmailPath, CallbackPath
<1>2. callback \in Routes
  BY Zenon DEF Routes, GmailPath
<1>3. PathMatches(callback.path, GmailPath)
  BY DEF PathMatches
<1>4. ASSUME NEW route \in Routes, PathMatches(route.path, GmailPath)
      PROVE  route = callback
  <2>0. \A i \in 1..6 : GmailPath[i] = route.path[i] \/ route.path[i] = "{challenge}"
    BY <1>1, <1>4, Zenon DEF PathMatches
  <2>1. Len(route.path) = 6
    BY <1>1, <1>4 DEF PathMatches
  <2>2. GmailPath[4] = route.path[4] \/ route.path[4] = "{challenge}"
    <3>1. 4 \in 1..6
      OBVIOUS
    <3>. QED  BY <2>0, <3>1, Zenon
  <2>3. Len(route.path) \notin {2, 8}
    BY <2>1
  <2>4. route.path[4] # "github"
    <3>1. "github" \notin {"gmail", "{challenge}"}
      OBVIOUS
    <3>. QED  BY <1>1, <2>2, <3>1, Zenon
  <2>5. route # [path |-> CallbackPath, method |-> "GET", handler |-> "callback_github"]
    <3>1. ASSUME route = [path |-> CallbackPath, method |-> "GET", handler |-> "callback_github"]
          PROVE  route.path = CallbackPath
      BY <3>1
    <3>. QED  BY <1>1, <2>4, <3>1, Zenon
  <2>. QED  BY <2>3, <2>4, <2>5, RouteTable, Zenon
<1>5. matching = {callback}
  BY <1>2, <1>3, <1>4
<1>6. (CHOOSE route \in matching : TRUE) = callback
  BY <1>5
<1>. QED  BY <1>5, <1>6 DEF HandlerOf

\* What the process knows once it serves, and what its last answer was made from.
Settled ==
  /\ config \in Configs
  /\ phase \in {"parsing", "refused", "building", "binding", "serving"}
  /\ phase \in {"binding", "serving"} => Acceptable(config) /\ runtime = Runtime(config)
  /\ phase # "serving" => answer = NoAnswer
  /\ \/ answer = NoAnswer
     \/ /\ answer.handler = HandlerOf(answer.method, answer.path)
        /\ answer.origin \in Origins
        /\ answer.allow_origin = OriginAllowed(runtime.allowed_origins, answer.origin)
        /\ answer.target = IF answer.handler = "gmail_callback" THEN GmailCallback ELSE Absent

\* Every step of main, the answer to a request included, preserves Settled.
LEMMA NextSettled == Settled /\ [Next]_vars => Settled'
<1>. SUFFICES ASSUME Settled, [Next]_vars PROVE Settled'
  OBVIOUS
<1>1. CASE Parse
  BY <1>1 DEF Settled, Parse
<1>2. CASE BuildState
  BY <1>2 DEF Settled, BuildState, Acceptable, Runtime
<1>3. CASE Bind
  BY <1>3 DEF Settled, Bind, Acceptable, Runtime
<1>4. CASE Serve
  <2>1. PICK method \in Methods, path \in Paths, origin \in Origins :
          LET handler == HandlerOf(method, path) IN
          answer' = [method |-> method, path |-> path, origin |-> origin,
                     handler |-> handler,
                     allow_origin |-> OriginAllowed(runtime.allowed_origins, origin),
                     target |-> IF handler = "gmail_callback" THEN GmailCallback ELSE Absent]
    BY <1>4 DEF Serve
  <2>2. UNCHANGED <<config, phase, runtime>> /\ phase = "serving" /\ GmailCallback' = GmailCallback
    BY <1>4 DEF Serve, GmailCallback
  <2>. QED  BY <2>1, <2>2 DEF Settled, Acceptable, Runtime
<1>5. CASE UNCHANGED vars
  BY <1>5 DEF vars, Settled, GmailCallback, Acceptable, Runtime
<1>. QED  BY <1>1, <1>2, <1>3, <1>4, <1>5 DEF Next

\* In every reachable state the process runs on the settings it started with, and its
\* last answer was made from them.
LEMMA SettledInvariance == Spec => []Settled
<1>1. Init => Settled
  BY DEF Init, Settled
<1>. QED  BY <1>1, NextSettled, PTL DEF Spec

\* What follows the first of a text's tokens.
LEMMA TailOfConcat ==
  ASSUME NEW S, NEW s \in Seq(S), Len(s) = 1, NEW t \in Seq(S)
  PROVE  Tail(s \o t) = t
<1>. DEFINE u == s \o t
<1>1. Len(t) \in Nat /\ Len(s) = 1
  BY LenProperties
<1>2. /\ u \in Seq(S) /\ Len(u) = 1 + Len(t)
      /\ \A i \in 1..(1 + Len(t)) : u[i] = IF i <= 1 THEN s[i] ELSE t[i - 1]
  <2>1. /\ s \o t \in Seq(S) /\ Len(s \o t) = Len(s) + Len(t)
        /\ \A i \in 1..(Len(s) + Len(t)) :
             (s \o t)[i] = IF i <= Len(s) THEN s[i] ELSE t[i - Len(s)]
    BY ConcatProperties
  <2>. QED  BY <1>1, <2>1, Zenon
<1>. HIDE DEF u
<1>3. u # <<>>
  BY <1>1, <1>2
<1>4. /\ Tail(u) \in Seq(S) /\ Len(Tail(u)) = Len(t)
      /\ \A i \in 1..Len(t) : Tail(u)[i] = u[i + 1]
  BY <1>1, <1>2, <1>3, HeadTailProperties
<1>5. \A i \in 1..Len(t) : u[i + 1] = t[i]
  BY <1>1, <1>2
<1>6. \A i \in 1..Len(t) : Tail(u)[i] = t[i]
  BY <1>4, <1>5
<1>7. Tail(u) = t
  BY <1>4, <1>6, SeqEqual
<1>. QED  BY <1>7 DEF u

\* An origin of which only the first token is no slash is trimmed to that token.
LEMMA OriginTrimmed ==
  ASSUME NEW base, IsText(base), base # <<>>,
         \A i \in DOMAIN base : i = 1 <=> base[i] # "/"
  PROVE  TrimEnd(base, "/") \in Seq(Range(base)) /\ Len(TrimEnd(base, "/")) = 1
<1>1. /\ Len(base) \in Nat \ {0} /\ DOMAIN base = 1..Len(base)
      /\ \A i \in 1..Len(base) : base[i] \in Range(base)
  BY LenProperties, EmptySeq, ElementOfSeq DEF IsText
<1>. DEFINE last == Max({0} \cup {i \in DOMAIN base : base[i] # "/"})
<1>2. /\ last \in 0..Len(base) /\ (last # 0 => base[last] # "/")
      /\ \A i \in 1..Len(base) : base[i] # "/" => i <= last
  BY LastOther
<1>. HIDE DEF last
<1>3. last = 1
  BY <1>1, <1>2
<1>4. TrimEnd(base, "/") = SubSeq(base, 1, 1)
  BY <1>3 DEF TrimEnd, last
<1>5. \A i \in 1..1 : base[i] \in Range(base)
  BY <1>1
<1>6. SubSeq(base, 1, 1) \in Seq(Range(base)) /\ Len(SubSeq(base, 1, 1)) = 1
  BY <1>5, SubSeqProperties
<1>. QED  BY <1>4, <1>6

\* GitHub's redirect reaches the handler of the callback from any BASE_URL that is
\* an origin, with or without slashes at its end (build_state, build_router).
THEOREM RedirectsReachTheCallback == Spec => []RedirectReachesCallback
<1>. DEFINE base == config.base_url
            S == Range(base) \cup {"/", "auth", "github", "callback"}
            origin == TrimEnd(base, "/")
<1>1. Settled => RedirectReachesCallback
  <2>. SUFFICES ASSUME Settled, phase = "serving",
                       \A i \in DOMAIN base : i = 1 <=> base[i] # "/"
                PROVE  HandlerOf("GET", Tail(runtime.redirect_uri)) = "callback_github"
    BY DEF RedirectReachesCallback
  <2>1. IsText(base) /\ base # <<>>
    BY ConfigAssumption DEF Settled, Acceptable
  <2>2. runtime.redirect_uri = origin \o CallbackPath
    BY DEF Settled, Runtime, RedirectUri
  <2>3. origin \in Seq(Range(base)) /\ Len(origin) = 1
    BY <2>1, OriginTrimmed
  <2>4. origin \in Seq(S)
    BY <2>3, SeqMonotonic
  <2>5. CallbackPath \in Seq(S)
    BY DEF CallbackPath
  <2>6. Tail(origin \o CallbackPath) = CallbackPath
    BY <2>3, <2>4, <2>5, TailOfConcat
  <2>. QED  BY <2>2, <2>6, CallbackPathRouted
<1>. QED  BY <1>1, SettledInvariance, PTL

\* The tokens of a text from the last to the first.
LEMMA ReverseOf ==
  ASSUME NEW S, NEW s \in Seq(S)
  PROVE  /\ Reverse(s) \in Seq(S) /\ Len(Reverse(s)) = Len(s)
         /\ \A i \in 1..Len(s) : Reverse(s)[i] = s[Len(s) - i + 1]
<1>1. Len(s) \in Nat /\ s \in [1..Len(s) -> S]
  BY LenProperties
<1>2. \A i \in 1..Len(s) : Len(s) - i + 1 \in 1..Len(s)
  BY <1>1
<1>3. \A i \in 1..Len(s) : s[Len(s) - i + 1] \in S
  BY <1>1, <1>2
<1>. QED  BY <1>1, <1>3 DEF Reverse

\* IsPrefix, token by token.
LEMMA PrefixTokens ==
  ASSUME NEW S, NEW s \in Seq(S), NEW t \in Seq(S)
  PROVE  IsPrefix(s, t) <=> Len(s) <= Len(t) /\ \A i \in 1..Len(s) : s[i] = t[i]
<1>. DEFINE n == Len(s)
<1>1. n \in Nat /\ Len(t) \in Nat
  BY LenProperties
<1>2. SubSeq(s, 1, n) = s
  BY SubSeqFull
<1>3. ASSUME n <= Len(t)
      PROVE  SubSeq(t, 1, n) = s <=> \A i \in 1..n : s[i] = t[i]
  <2>1. \A i \in 1..n : t[i] \in S
    BY <1>1, <1>3, ElementOfSeq
  <2>2. SubSeq(t, 1, n) \in Seq(S) /\ Len(SubSeq(t, 1, n)) = n
    BY <1>1, <2>1, SubSeqProperties
  <2>3. \A i \in 1..n : SubSeq(t, 1, n)[i] = t[i]
    BY <1>1, <2>1, SubSeqProperties
  <2>4. ASSUME \A i \in 1..n : s[i] = t[i] PROVE SubSeq(t, 1, n) = s
    <3>1. \A i \in 1..n : SubSeq(t, 1, n)[i] = s[i]
      BY <2>3, <2>4
    <3>. QED  BY <2>2, <3>1, SeqEqual
  <2>. QED  BY <2>3, <2>4
<1>4. IsPrefix(s, t) <=> n <= Len(t) /\ SubSeq(s, 1, n) = SubSeq(t, 1, n)
  BY DEF IsPrefix
<1>. QED  BY <1>2, <1>3, <1>4

\* IsSuffix, token by token: both texts counted from their ends.
LEMMA SuffixTokens ==
  ASSUME NEW S, NEW s \in Seq(S), NEW t \in Seq(S)
  PROVE  IsSuffix(s, t)
           <=> Len(s) <= Len(t) /\ \A i \in 1..Len(s) : s[i] = t[Len(t) - Len(s) + i]
<1>. DEFINE n == Len(s)
            r == Reverse(s)
            q == Reverse(t)
<1>1. n \in Nat /\ Len(t) \in Nat
  BY LenProperties
<1>2. r \in Seq(S) /\ Len(r) = n /\ \A i \in 1..n : r[i] = s[n - i + 1]
  BY ReverseOf
<1>3. q \in Seq(S) /\ Len(q) = Len(t) /\ \A i \in 1..Len(t) : q[i] = t[Len(t) - i + 1]
  BY ReverseOf
<1>4. IsSuffix(s, t) <=> IsPrefix(r, q)
  BY DEF IsSuffix
<1>. HIDE DEF r, q, n
<1>5. IsPrefix(r, q) <=> n <= Len(t) /\ \A i \in 1..n : r[i] = q[i]
  <2>1. r \in Seq(S) /\ q \in Seq(S)
    BY <1>2, <1>3
  <2>2. IsPrefix(r, q) <=> Len(r) <= Len(q) /\ \A i \in 1..Len(r) : r[i] = q[i]
    BY <2>1, PrefixTokens
  <2>. QED  BY <1>2, <1>3, <2>2, Zenon
<1>6. ASSUME n <= Len(t)
      PROVE  (\A i \in 1..n : r[i] = q[i]) <=> (\A i \in 1..n : s[i] = t[Len(t) - n + i])
  <2>1. ASSUME \A i \in 1..n : r[i] = q[i], NEW i \in 1..n
        PROVE  s[i] = t[Len(t) - n + i]
    <3>. DEFINE j == n - i + 1
    <3>1. /\ j \in 1..n /\ j \in 1..Len(t)
          /\ n - j + 1 = i /\ Len(t) - j + 1 = Len(t) - n + i
      BY <1>1, <1>6
    <3>. HIDE DEF j
    <3>2. r[j] = q[j] /\ r[j] = s[n - j + 1] /\ q[j] = t[Len(t) - j + 1]
      BY <1>2, <1>3, <2>1, <3>1
    <3>. QED  BY <3>1, <3>2
  <2>2. ASSUME \A i \in 1..n : s[i] = t[Len(t) - n + i], NEW i \in 1..n
        PROVE  r[i] = q[i]
    <3>. DEFINE j == n - i + 1
    <3>1. j \in 1..n /\ i \in 1..Len(t) /\ Len(t) - n + j = Len(t) - i + 1
      BY <1>1, <1>6
    <3>2. r[i] = s[j] /\ s[j] = t[Len(t) - n + j] /\ q[i] = t[Len(t) - i + 1]
      BY <1>2, <1>3, <2>2, <3>1
    <3>. QED  BY <3>1, <3>2
  <2>. QED  BY <2>1, <2>2
<1>. QED  BY <1>4, <1>5, <1>6 DEF n

\* A host name is local for is_loopback_host exactly if its last label says so.
LEMMA LoopbackLabel ==
  ASSUME NEW name, IsText(name)
  PROVE  (name = <<"localhost">> \/ IsSuffix(<<".", "localhost">>, name))
           <=> LastLabel(name) = <<"localhost">>
<1>. DEFINE n == Len(name)
            dots == {0} \cup {i \in DOMAIN name : name[i] = "."}
            dot == Max(dots)
            S == Range(name) \cup {".", "localhost"}
<1>1. n \in Nat /\ DOMAIN name = 1..n /\ name \in Seq(S)
  BY LenProperties, SeqMonotonic DEF IsText
<1>2. \A i \in 1..n : name[i] \in S
  BY <1>1, ElementOfSeq
<1>3. dots \in SUBSET (0..n) /\ dots # {}
  BY <1>1
<1>4. dot \in dots /\ \A i \in dots : i <= dot
  BY <1>1, <1>3, MaxOfPositions
<1>5. /\ dot \in 0..n /\ (dot # 0 => name[dot] = ".")
      /\ \A i \in 1..n : name[i] = "." => i <= dot
  BY <1>1, <1>4
<1>6. LastLabel(name) = SubSeq(name, 1 + dot, n)
  BY DEF LastLabel
<1>. HIDE DEF dots, dot
<1>7. /\ SubSeq(name, 1 + dot, n) \in Seq(S)
      /\ Len(SubSeq(name, 1 + dot, n)) = n - dot
      /\ n - dot = 1 => SubSeq(name, 1 + dot, n)[1] = name[n]
  <2>1. \A i \in (1 + dot)..n : name[i] \in S
    BY <1>1, <1>2, <1>5
  <2>2. /\ SubSeq(name, 1 + dot, n) \in Seq(S)
        /\ Len(SubSeq(name, 1 + dot, n)) = IF 1 + dot <= n THEN n - (1 + dot) + 1 ELSE 0
        /\ \A i \in 1..(n - (1 + dot) + 1) :
             SubSeq(name, 1 + dot, n)[i] = name[(1 + dot) + i - 1]
    BY <1>1, <1>5, <2>1, SubSeqProperties
  <2>. HIDE DEF n
  <2>3. ASSUME n - dot = 1 PROVE SubSeq(name, 1 + dot, n)[1] = name[n]
    <3>1. 1 \in 1..(n - (1 + dot) + 1) /\ (1 + dot) + 1 - 1 = n
      BY <1>1, <1>5, <2>3
    <3>. QED  BY <2>2, <3>1, Zenon
  <2>. QED  BY <1>1, <1>5, <2>2, <2>3
<1>8. <<"localhost">> \in Seq(S) /\ Len(<<"localhost">>) = 1 /\ <<"localhost">>[1] = "localhost"
  OBVIOUS
<1>9. LastLabel(name) = <<"localhost">> <=> n - dot = 1 /\ name[n] = "localhost"
  <2>1. ASSUME n - dot = 1, name[n] = "localhost" PROVE LastLabel(name) = <<"localhost">>
    <3>1. \A i \in 1..1 : SubSeq(name, 1 + dot, n)[i] = <<"localhost">>[i]
      BY <1>7, <2>1
    <3>. QED  BY <1>6, <1>7, <1>8, <2>1, <3>1, SeqEqual
  <2>2. ASSUME LastLabel(name) = <<"localhost">> PROVE n - dot = 1 /\ name[n] = "localhost"
    BY <1>6, <1>7, <1>8, <2>2
  <2>. QED  BY <2>1, <2>2
<1>10. name = <<"localhost">> <=> n = 1 /\ name[1] = "localhost"
  <2>1. ASSUME n = 1, name[1] = "localhost" PROVE name = <<"localhost">>
    <3>1. \A i \in 1..1 : name[i] = <<"localhost">>[i]
      BY <2>1
    <3>. QED  BY <1>1, <1>8, <2>1, <3>1, SeqEqual
  <2>. QED  BY <1>8, <2>1
<1>11. IsSuffix(<<".", "localhost">>, name)
         <=> n >= 2 /\ name[n] = "localhost" /\ name[n - 1] = "."
  <2>1. /\ <<".", "localhost">> \in Seq(S) /\ Len(<<".", "localhost">>) = 2
        /\ <<".", "localhost">>[1] = "." /\ <<".", "localhost">>[2] = "localhost"
    OBVIOUS
  <2>2. IsSuffix(<<".", "localhost">>, name)
          <=> 2 <= n /\ \A i \in 1..2 : <<".", "localhost">>[i] = name[n - 2 + i]
    BY <1>1, <2>1, SuffixTokens
  <2>3. (\A i \in 1..2 : <<".", "localhost">>[i] = name[n - 2 + i])
          <=> name[n - 2 + 1] = "." /\ name[n - 2 + 2] = "localhost"
    BY <2>1
  <2>. HIDE DEF n
  <2>4. n - 2 + 1 = n - 1 /\ n - 2 + 2 = n
    BY <1>1
  <2>. QED  BY <2>2, <2>3, <2>4
<1>. HIDE DEF n
<1>. QED  BY <1>1, <1>5, <1>9, <1>10, <1>11

\* The page forwards to the host of APP_URL, at the fixed path, exactly if that is
\* over TLS or stays on this machine, for whatever was configured and asked for
\* (gmail_callback, gmail_callback_target).
THEOREM RelaysGoToTheAppHost == Spec => []RelayGoesToAppHost
<1>1. Settled => RelayGoesToAppHost
  <2>. DEFINE url == IF config.app_url = <<>> THEN Absent ELSE config.app_url[1]
              Local(to) ==
                /\ to.scheme = "http" /\ to.host # Absent
                /\ IF to.host.kind = "ip" THEN to.host.loopback
                   ELSE LastLabel(to.host.name) = <<"localhost">>
              Good(to) == to # Absent /\ (to.scheme = "https" \/ Local(to)) /\ ~to.credentials
  <2>. SUFFICES ASSUME Settled, answer.handler = "gmail_callback"
                PROVE  IF Good(url)
                       THEN /\ answer.target.host = url.host /\ answer.target.scheme = url.scheme
                            /\ HandlerOf("GET", answer.target.path) = "gmail_callback"
                            /\ answer.target.query = Absent /\ answer.target.fragment = Absent
                       ELSE answer.target = Absent
    BY DEF RelayGoesToAppHost
  <2>1. answer # NoAnswer
    BY AbsentAssumption DEF NoAnswer
  <2>2. phase = "serving" /\ config \in Configs /\ runtime.app_url = config.app_url
    BY <2>1 DEF Settled, Runtime
  <2>3. answer.target = IF config.app_url = <<>> THEN Absent ELSE GmailCallbackTarget(url)
    BY <2>1, <2>2 DEF Settled, GmailCallback
  <2>4. url = Absent \/ IsUrl(url)
    <3>1. CASE config.app_url = <<>>
      BY <3>1
    <3>2. CASE \E to \in Range(config.app_url) :
                 config.app_url = <<to>> /\ (to = Absent \/ IsUrl(to))
      <4>1. PICK to \in Range(config.app_url) :
              config.app_url = <<to>> /\ (to = Absent \/ IsUrl(to))
        BY <3>2
      <4>2. config.app_url # <<>> /\ config.app_url[1] = to
        BY <4>1
      <4>. QED  BY <4>1, <4>2
    <3>. QED  BY <2>2, <3>1, <3>2, ConfigAssumption
  <2>5. answer.target = GmailCallbackTarget(url)
    BY <2>3 DEF GmailCallbackTarget
  <2>. HIDE DEF url
  <2>6. ASSUME IsUrl(url), url # Absent
        PROVE  url.scheme = "http" => (IsLoopbackHost(url.host) <=> Local(url))
    <3>1. CASE url.host = Absent \/ url.host.kind = "ip"
      BY <3>1 DEF IsLoopbackHost
    <3>2. CASE url.host # Absent /\ url.host.kind # "ip"
      <4>1. IsText(url.host.name)
        BY <2>6, <3>2 DEF IsUrl
      <4>. QED  BY <3>2, <4>1, LoopbackLabel DEF IsLoopbackHost
    <3>. QED  BY <3>1, <3>2
  <2>. DEFINE target == [url EXCEPT !.path = GmailPath, !.query = Absent, !.fragment = Absent]
  <2>7. answer.target = IF Good(url) THEN target ELSE Absent
    BY <2>4, <2>5, <2>6, Zenon DEF GmailCallbackTarget, GmailPath
  <2>8. ASSUME Good(url)
        PROVE  /\ target.host = url.host /\ target.scheme = url.scheme
               /\ target.path = GmailPath
               /\ target.query = Absent /\ target.fragment = Absent
    <3>1. url = [scheme |-> url.scheme, credentials |-> url.credentials, host |-> url.host,
                 path |-> url.path, query |-> url.query, fragment |-> url.fragment]
      BY <2>4, <2>8 DEF IsUrl
    <3>. QED  BY <3>1
  <2>. HIDE DEF target, Good
  <2>9. CASE Good(url)
    BY <2>7, <2>8, <2>9, GmailPathRouted
  <2>10. CASE ~Good(url)
    BY <2>7, <2>10
  <2>. QED  BY <2>9, <2>10
<1>. QED  BY <1>1, SettledInvariance, PTL

\* A part of a text, token by token.
LEMMA PartOf ==
  ASSUME NEW S, NEW text \in Seq(S), NEW from \in 1..(Len(text) + 1), NEW to \in 0..Len(text)
  PROVE  /\ SubSeq(text, from, to) \in Seq(S)
         /\ Len(SubSeq(text, from, to)) = IF from <= to THEN to - from + 1 ELSE 0
         /\ \A i \in 1..(to - from + 1) : SubSeq(text, from, to)[i] = text[from + i - 1]
<1>1. Len(text) \in Nat
  BY LenProperties
<1>2. from \in Int /\ to \in Int /\ \A i \in from..to : i \in 1..Len(text)
  BY <1>1
<1>3. \A i \in from..to : text[i] \in S
  BY <1>2, ElementOfSeq
<1>. QED  BY <1>2, <1>3, SubSeqProperties

\* TrimEnd keeps the tokens up to the last that is not t.
LEMMA TrimEndOf ==
  ASSUME NEW S, NEW text \in Seq(S), NEW t
  PROVE  \E n \in 0..Len(text) :
           /\ TrimEnd(text, t) \in Seq(S) /\ Len(TrimEnd(text, t)) = n
           /\ \A i \in 1..n : TrimEnd(text, t)[i] = text[i]
           /\ n # 0 => text[n] # t
           /\ \A i \in 1..Len(text) : text[i] # t => i <= n
<1>1. Len(text) \in Nat /\ IsText(text)
  BY LenProperties, SeqOfRange DEF IsText
<1>. DEFINE last == Max({0} \cup {i \in DOMAIN text : text[i] # t})
<1>2. /\ last \in 0..Len(text) /\ (last # 0 => text[last] # t)
      /\ \A i \in 1..Len(text) : text[i] # t => i <= last
  BY <1>1, LastOther
<1>3. TrimEnd(text, t) = SubSeq(text, 1, last)
  BY DEF TrimEnd
<1>. HIDE DEF last
<1>4. 1 \in 1..(Len(text) + 1)
  BY <1>1
<1>5. /\ SubSeq(text, 1, last) \in Seq(S)
      /\ Len(SubSeq(text, 1, last)) = IF 1 <= last THEN last - 1 + 1 ELSE 0
      /\ \A i \in 1..(last - 1 + 1) : SubSeq(text, 1, last)[i] = text[1 + i - 1]
  BY <1>2, <1>4, PartOf
<1>6. Len(SubSeq(text, 1, last)) = last /\ \A i \in 1..last : SubSeq(text, 1, last)[i] = text[i]
  BY <1>1, <1>2, <1>5
<1>. QED  BY <1>2, <1>3, <1>5, <1>6

\* trim leaves what lies between the spaces around an item's text.
LEMMA TrimmedText ==
  ASSUME NEW item, IsText(item)
  PROVE  \/ Trim(item, " ") = <<>> /\ \A i \in DOMAIN item : item[i] = " "
         \/ \E from \in DOMAIN item, to \in DOMAIN item :
              TextAt(item, from, to) /\ Trim(item, " ") = SubSeq(item, from, to)
<1>1. PICK S : S = Range(item)
  OBVIOUS
<1>2. item \in Seq(S) /\ Len(item) \in Nat /\ DOMAIN item = 1..Len(item)
  BY <1>1, LenProperties DEF IsText
<1>3. PICK head : head = TrimEnd(item, " ")
  OBVIOUS
<1>4. PICK to \in 0..Len(item) :
        /\ head \in Seq(S) /\ Len(head) = to /\ \A i \in 1..to : head[i] = item[i]
        /\ to # 0 => item[to] # " "
        /\ \A i \in 1..Len(item) : item[i] # " " => i <= to
  BY <1>2, <1>3, TrimEndOf
<1>5. PICK turned : turned = Reverse(head)
  OBVIOUS
<1>6. turned \in Seq(S) /\ Len(turned) = to /\ \A i \in 1..to : turned[i] = head[to - i + 1]
  BY <1>4, <1>5, ReverseOf
<1>7. \A i \in 1..to : to - i + 1 \in 1..to
  BY <1>2
<1>8. \A i \in 1..to : turned[i] = item[to - i + 1]
  BY <1>4, <1>6, <1>7
<1>9. PICK rest : rest = TrimEnd(turned, " ")
  OBVIOUS
<1>10. PICK kept \in 0..to :
         /\ rest \in Seq(S) /\ Len(rest) = kept /\ \A i \in 1..kept : rest[i] = turned[i]
         /\ kept # 0 => turned[kept] # " "
         /\ \A i \in 1..to : turned[i] # " " => i <= kept
  <2>1. \E kept \in 0..Len(turned) :
         /\ rest \in Seq(S) /\ Len(rest) = kept /\ \A i \in 1..kept : rest[i] = turned[i]
         /\ kept # 0 => turned[kept] # " "
         /\ \A i \in 1..Len(turned) : turned[i] # " " => i <= kept
    <3>1. turned \in Seq(S)
      BY <1>6
    <3>. QED  BY <1>9, <3>1, TrimEndOf
  <2>. QED  BY <1>6, <2>1, Zenon
<1>11. PICK text : text = Trim(item, " ") /\ text = Reverse(rest)
  BY <1>3, <1>5, <1>9 DEF Trim
<1>12. text \in Seq(S) /\ Len(text) = kept /\ \A i \in 1..kept : text[i] = rest[kept - i + 1]
  <2>1. /\ text \in Seq(S) /\ Len(text) = Len(rest)
        /\ \A i \in 1..Len(rest) : text[i] = rest[Len(rest) - i + 1]
    BY <1>10, <1>11, ReverseOf
  <2>. QED  BY <1>10, <2>1, Zenon
<1>13. CASE to = 0
  <2>1. kept = 0 /\ \A i \in DOMAIN item : item[i] = " "
    <3>1. kept \in 0..0 /\ to = 0
      BY <1>13
    <3>2. ASSUME NEW i \in 1..Len(item) PROVE item[i] = " "
      <4>1. ~(i <= to)
        BY <1>2, <1>13
      <4>. QED  BY <1>4, <4>1, Zenon
    <3>3. kept = 0
      BY <3>1
    <3>. QED  BY <1>2, <3>2, <3>3, Zenon
  <2>2. text = <<>>
    BY <1>12, <2>1, EmptySeq
  <2>. QED  BY <1>11, <2>1, <2>2
<1>14. CASE to # 0
  <2>1. to \in DOMAIN item /\ 1 \in 1..to /\ to \in 1..to /\ to - 1 + 1 = to
    BY <1>2, <1>14
  <2>2. turned[1] # " "
    BY <1>4, <1>8, <1>14, <2>1
  <2>3. kept \in 1..to
    <3>1. 1 <= kept
      BY <1>10, <2>1, <2>2, Zenon
    <3>. QED  BY <1>2, <3>1
  <2>4. PICK from \in 1..to : from = to - kept + 1
    BY <1>2, <2>3
  <2>5. from \in DOMAIN item /\ from <= to
    BY <1>2, <2>1
  <2>6. item[from] # " "
    <3>1. turned[kept] = item[to - kept + 1]
      BY <1>8, <2>3, Zenon
    <3>2. kept # 0
      BY <1>2, <2>3
    <3>. QED  BY <1>10, <2>4, <3>1, <3>2, Zenon
  <2>7. ASSUME NEW i \in DOMAIN item, i < from PROVE item[i] = " "
    <3>1. PICK j \in 1..to : j = to - i + 1 /\ to - j + 1 = i /\ ~(j <= kept)
      BY <1>2, <2>3, <2>4, <2>7
    <3>. QED  BY <1>8, <1>10, <3>1
  <2>8. ASSUME NEW i \in DOMAIN item, i > to PROVE item[i] = " "
    <3>1. i \in 1..Len(item) /\ ~(i <= to)
      BY <1>2, <2>8
    <3>. QED  BY <1>4, <3>1, Zenon
  <2>9. TextAt(item, from, to)
    BY <1>4, <1>14, <2>5, <2>6, <2>7, <2>8 DEF TextAt
  <2>10. /\ SubSeq(item, from, to) \in Seq(S) /\ Len(SubSeq(item, from, to)) = kept
         /\ \A i \in 1..kept : SubSeq(item, from, to)[i] = item[from + i - 1]
    <3>1. from \in 1..(Len(item) + 1) /\ to - from + 1 = kept
      BY <1>2, <2>3, <2>4
    <3>2. /\ SubSeq(item, from, to) \in Seq(S)
          /\ Len(SubSeq(item, from, to)) = IF from <= to THEN to - from + 1 ELSE 0
          /\ \A i \in 1..(to - from + 1) : SubSeq(item, from, to)[i] = item[from + i - 1]
      BY <1>2, <3>1, PartOf
    <3>. QED  BY <2>5, <3>1, <3>2, Zenon
  <2>11. \A i \in 1..kept : text[i] = SubSeq(item, from, to)[i]
    <3>. SUFFICES ASSUME NEW i \in 1..kept PROVE text[i] = SubSeq(item, from, to)[i]
      OBVIOUS
    <3>1. PICK j \in 1..kept : j = kept - i + 1 /\ j \in 1..to /\ to - j + 1 = from + i - 1
      BY <1>2, <2>3, <2>4
    <3>2. text[i] = turned[j]
      BY <1>10, <1>12, <3>1
    <3>3. turned[j] = item[from + i - 1]
      BY <1>8, <3>1
    <3>. QED  BY <2>10, <3>2, <3>3
  <2>12. text = SubSeq(item, from, to)
    BY <1>12, <2>10, <2>11, SeqEqual
  <2>. QED  BY <1>11, <2>1, <2>5, <2>9, <2>12
<1>. QED  BY <1>13, <1>14

\* The text of an item is at no two places.
LEMMA OneText ==
  ASSUME NEW item, IsText(item), NEW from \in DOMAIN item, NEW to \in DOMAIN item,
         TextAt(item, from, to),
         NEW first \in DOMAIN item, NEW last \in DOMAIN item, TextAt(item, first, last)
  PROVE  from = first /\ to = last
<1>1. from \in Nat /\ to \in Nat /\ first \in Nat /\ last \in Nat
  BY LenProperties DEF IsText
<1>2. /\ from <= to /\ item[from] # " " /\ item[to] # " "
      /\ first <= last /\ item[first] # " " /\ item[last] # " "
  BY DEF TextAt
<1>3. ~(first < from) /\ ~(first > to) /\ ~(last < from) /\ ~(last > to)
  BY <1>2 DEF TextAt
<1>4. ~(from < first) /\ ~(to > last)
  BY <1>2 DEF TextAt
<1>. QED  BY <1>1, <1>3, <1>4

\* A text ends in another if some text makes up the rest of it.
LEMMA SuffixStretch ==
  ASSUME NEW S, NEW s \in Seq(S), NEW text \in Seq(S)
  PROVE  IsSuffix(s, text) <=> \E from \in 1..(Len(text) + 1), to \in 0..Len(text) :
                                 text = SubSeq(text, from, to) \o s
<1>1. Len(s) \in Nat /\ Len(text) \in Nat
  BY LenProperties
<1>2. IsSuffix(s, text) <=> /\ Len(s) <= Len(text)
                            /\ \A i \in 1..Len(s) : s[i] = text[Len(text) - Len(s) + i]
  BY SuffixTokens
<1>3. ASSUME IsSuffix(s, text)
      PROVE  \E from \in 1..(Len(text) + 1), to \in 0..Len(text) : text = SubSeq(text, from, to) \o s
  <2>0. Len(s) <= Len(text)
    BY <1>2, <1>3
  <2>1. PICK to \in 0..Len(text) : to = Len(text) - Len(s)
    BY <1>1, <2>0
  <2>2. PICK from \in 1..(Len(text) + 1) : from = 1
    BY <1>1
  <2>3. PICK head : head = SubSeq(text, from, to)
    OBVIOUS
  <2>4. /\ head \in Seq(S) /\ Len(head) = IF from <= to THEN to - from + 1 ELSE 0
        /\ \A i \in 1..(to - from + 1) : head[i] = text[from + i - 1]
    BY <2>3, PartOf
  <2>5. Len(head) = to /\ \A i \in 1..to : head[i] = text[i]
    <3>1. to - from + 1 = to /\ (IF from <= to THEN to - from + 1 ELSE 0) = to
      BY <1>1, <2>2
    <3>2. \A i \in 1..to : from + i - 1 = i
      BY <1>1, <2>2
    <3>. QED  BY <2>4, <3>1, <3>2, Zenon
  <2>6. /\ head \o s \in Seq(S) /\ Len(head \o s) = Len(head) + Len(s)
        /\ \A i \in 1..(Len(head) + Len(s)) :
             (head \o s)[i] = IF i <= Len(head) THEN head[i] ELSE s[i - Len(head)]
    BY <2>4, ConcatProperties
  <2>7. Len(head) + Len(s) = Len(text)
    BY <1>1, <2>1, <2>5
  <2>8. \A i \in 1..Len(text) : text[i] = (head \o s)[i]
    <3>. SUFFICES ASSUME NEW i \in 1..Len(text) PROVE text[i] = (head \o s)[i]
      OBVIOUS
    <3>1. (head \o s)[i] = IF i <= to THEN head[i] ELSE s[i - to]
      BY <2>5, <2>6, <2>7, Zenon
    <3>2. CASE i <= to
      <4>1. i \in 1..to
        BY <1>1, <3>2
      <4>. QED  BY <2>5, <3>1, <3>2, <4>1, Zenon
    <3>3. CASE ~(i <= to)
      <4>1. PICK j \in 1..Len(s) : j = i - to /\ Len(text) - Len(s) + j = i
        BY <1>1, <2>1, <3>3
      <4>. QED  BY <1>2, <1>3, <3>1, <3>3, <4>1, Zenon
    <3>. QED  BY <3>2, <3>3
  <2>9. text = head \o s
    BY <2>6, <2>7, <2>8, SeqEqual
  <2>. QED  BY <2>3, <2>9
<1>4. ASSUME NEW from \in 1..(Len(text) + 1), NEW to \in 0..Len(text),
             text = SubSeq(text, from, to) \o s
      PROVE  IsSuffix(s, text)
  <2>1. PICK head : head = SubSeq(text, from, to)
    OBVIOUS
  <2>2. head \in Seq(S) /\ Len(head) \in Nat
    BY <2>1, PartOf, LenProperties
  <2>3. /\ Len(text) = Len(head) + Len(s)
        /\ \A i \in 1..(Len(head) + Len(s)) :
             text[i] = IF i <= Len(head) THEN head[i] ELSE s[i - Len(head)]
    <3>1. /\ Len(head \o s) = Len(head) + Len(s)
          /\ \A i \in 1..(Len(head) + Len(s)) :
               (head \o s)[i] = IF i <= Len(head) THEN head[i] ELSE s[i - Len(head)]
      BY <2>2, ConcatProperties
    <3>. QED  BY <1>4, <2>1, <3>1, Zenon
  <2>4. ASSUME NEW i \in 1..Len(s) PROVE s[i] = text[Len(text) - Len(s) + i]
    <3>1. PICK j \in 1..(Len(head) + Len(s)) :
            j = Len(text) - Len(s) + i /\ ~(j <= Len(head)) /\ j - Len(head) = i
      <4>1. Len(text) = Len(head) + Len(s)
        BY <2>3
      <4>. QED  BY <1>1, <2>2, <4>1
    <3>. QED  BY <2>3, <3>1, Zenon
  <2>. QED  BY <1>1, <1>2, <2>2, <2>3, <2>4
<1>. QED  BY <1>3, <1>4

\* A text starts with another if some text makes up the rest of it.
LEMMA PrefixStretch ==
  ASSUME NEW S, NEW s \in Seq(S), NEW text \in Seq(S)
  PROVE  IsPrefix(s, text) <=> \E from \in 1..(Len(text) + 1), to \in 0..Len(text) :
                                 text = s \o SubSeq(text, from, to)
<1>1. Len(s) \in Nat /\ Len(text) \in Nat
  BY LenProperties
<1>2. IsPrefix(s, text) <=> Len(s) <= Len(text) /\ \A i \in 1..Len(s) : s[i] = text[i]
  BY PrefixTokens
<1>3. ASSUME IsPrefix(s, text)
      PROVE  \E from \in 1..(Len(text) + 1), to \in 0..Len(text) : text = s \o SubSeq(text, from, to)
  <2>1. PICK from \in 1..(Len(text) + 1) : from = Len(s) + 1
    BY <1>1, <1>2, <1>3
  <2>2. PICK to \in 0..Len(text) : to = Len(text)
    BY <1>1
  <2>3. PICK tail : tail = SubSeq(text, from, to)
    OBVIOUS
  <2>4. /\ tail \in Seq(S) /\ Len(tail) = IF from <= to THEN to - from + 1 ELSE 0
        /\ \A i \in 1..(to - from + 1) : tail[i] = text[from + i - 1]
    BY <2>3, PartOf
  <2>5. to - from + 1 = Len(text) - Len(s) /\ Len(tail) = Len(text) - Len(s)
    BY <1>1, <2>1, <2>2, <2>4
  <2>6. /\ s \o tail \in Seq(S) /\ Len(s \o tail) = Len(s) + Len(tail)
        /\ \A i \in 1..(Len(s) + Len(tail)) :
             (s \o tail)[i] = IF i <= Len(s) THEN s[i] ELSE tail[i - Len(s)]
    BY <2>4, ConcatProperties
  <2>7. Len(s) + Len(tail) = Len(text)
    BY <1>1, <2>5
  <2>8. \A i \in 1..Len(text) : text[i] = (s \o tail)[i]
    <3>. SUFFICES ASSUME NEW i \in 1..Len(text) PROVE text[i] = (s \o tail)[i]
      OBVIOUS
    <3>1. (s \o tail)[i] = IF i <= Len(s) THEN s[i] ELSE tail[i - Len(s)]
      BY <2>6, <2>7, Zenon
    <3>2. CASE i <= Len(s)
      <4>1. i \in 1..Len(s)
        BY <1>1, <3>2
      <4>. QED  BY <1>2, <1>3, <3>1, <3>2, <4>1, Zenon
    <3>3. CASE ~(i <= Len(s))
      <4>1. to - from + 1 = Len(text) - Len(s)
        BY <2>5
      <4>2. PICK j \in 1..(Len(text) - Len(s)) : j = i - Len(s) /\ from + j - 1 = i
        <5>1. from \in Nat /\ from = Len(s) + 1 /\ i \in Nat /\ i <= Len(text)
          BY <1>1, <2>1
        <5>2. i - Len(s) \in 1..(Len(text) - Len(s)) /\ from + (i - Len(s)) - 1 = i
          BY <1>1, <3>3, <5>1
        <5>. QED  BY <5>2, Zenon
      <4>. QED  BY <2>4, <3>1, <3>3, <4>1, <4>2, Zenon
    <3>. QED  BY <3>2, <3>3
  <2>9. text = s \o tail
    BY <2>6, <2>7, <2>8, SeqEqual
  <2>. QED  BY <2>3, <2>9
<1>4. ASSUME NEW from \in 1..(Len(text) + 1), NEW to \in 0..Len(text),
             text = s \o SubSeq(text, from, to)
      PROVE  IsPrefix(s, text)
  <2>1. PICK tail : tail = SubSeq(text, from, to)
    OBVIOUS
  <2>2. tail \in Seq(S) /\ Len(tail) \in Nat
    BY <2>1, PartOf, LenProperties
  <2>3. /\ Len(text) = Len(s) + Len(tail)
        /\ \A i \in 1..(Len(s) + Len(tail)) :
             text[i] = IF i <= Len(s) THEN s[i] ELSE tail[i - Len(s)]
    <3>1. text = s \o tail
      BY <1>4, <2>1, Zenon
    <3>2. /\ Len(s \o tail) = Len(s) + Len(tail)
          /\ \A i \in 1..(Len(s) + Len(tail)) :
               (s \o tail)[i] = IF i <= Len(s) THEN s[i] ELSE tail[i - Len(s)]
      BY <2>2, ConcatProperties
    <3>. QED  BY <3>1, <3>2, Zenon
  <2>4. ASSUME NEW i \in 1..Len(s) PROVE s[i] = text[i]
    <3>1. i \in 1..(Len(s) + Len(tail)) /\ i <= Len(s)
      BY <1>1, <2>2
    <3>. QED  BY <2>3, <3>1, Zenon
  <2>. QED  BY <1>1, <1>2, <2>2, <2>3, <2>4
<1>. QED  BY <1>3, <1>4

\* A pattern whose one star is its first token is read by the code as by a glob.
LEMMA StarFirst ==
  ASSUME NEW S, NEW pattern \in Seq(S), NEW text \in Seq(S), Stars(pattern) = {1}
  PROVE  GlobMatches(pattern, text) <=> IsSuffix(SubSeq(pattern, 2, Len(pattern)), text)
<1>1. Len(pattern) \in Nat /\ DOMAIN pattern = 1..Len(pattern) /\ Len(text) \in Nat
  BY LenProperties
<1>2. 1 \in DOMAIN pattern
  BY DEF Stars
<1>3. PICK rest : rest = SubSeq(pattern, 2, Len(pattern))
  OBVIOUS
<1>4. rest \in Seq(S)
  <2>1. 2 \in 1..(Len(pattern) + 1) /\ Len(pattern) \in 0..Len(pattern)
    BY <1>1, <1>2
  <2>. QED  BY <1>3, <2>1, PartOf
<1>5. SubSeq(pattern, 1, 0) = <<>>
  BY SubSeqEmpty
<1>6. ASSUME NEW from \in 1..(Len(text) + 1), NEW to \in 0..Len(text)
      PROVE  SubSeq(pattern, 1, 1 - 1) \o SubSeq(text, from, to)
               \o SubSeq(pattern, 1 + 1, Len(pattern)) = SubSeq(text, from, to) \o rest
  <2>1. <<>> \o SubSeq(text, from, to) = SubSeq(text, from, to)
    BY PartOf, ConcatEmptySeq
  <2>2. 1 - 1 = 0 /\ 1 + 1 = 2
    OBVIOUS
  <2>. QED  BY <1>3, <1>5, <2>1, <2>2, Zenon
<1>7. GlobMatches(pattern, text)
        <=> \E from \in 1..(Len(text) + 1), to \in 0..Len(text) :
              text = SubSeq(pattern, 1, 1 - 1) \o SubSeq(text, from, to)
                       \o SubSeq(pattern, 1 + 1, Len(pattern))
  BY Zenon DEF GlobMatches
<1>8. GlobMatches(pattern, text)
        <=> \E from \in 1..(Len(text) + 1), to \in 0..Len(text) :
              text = SubSeq(text, from, to) \o rest
  BY <1>6, <1>7, Zenon
<1>. QED  BY <1>3, <1>4, <1>8, SuffixStretch, Zenon

\* A pattern whose one star is its last token is read by the code as by a glob.
LEMMA StarLast ==
  ASSUME NEW S, NEW pattern \in Seq(S), NEW text \in Seq(S), Stars(pattern) = {Len(pattern)}
  PROVE  GlobMatches(pattern, text) <=> IsPrefix(Front(pattern), text)
<1>1. Len(pattern) \in Nat /\ DOMAIN pattern = 1..Len(pattern) /\ Len(text) \in Nat
  BY LenProperties
<1>2. Len(pattern) \in DOMAIN pattern
  BY DEF Stars
<1>3. PICK front : front = SubSeq(pattern, 1, Len(pattern) - 1) /\ front = Front(pattern)
  BY DEF Front
<1>4. front \in Seq(S)
  <2>1. 1 \in 1..(Len(pattern) + 1) /\ Len(pattern) - 1 \in 0..Len(pattern)
    BY <1>1, <1>2
  <2>. QED  BY <1>3, <2>1, PartOf
<1>5. SubSeq(pattern, Len(pattern) + 1, Len(pattern)) = <<>>
  BY <1>1, SubSeqEmpty
<1>6. ASSUME NEW from \in 1..(Len(text) + 1), NEW to \in 0..Len(text)
      PROVE  SubSeq(pattern, 1, Len(pattern) - 1) \o SubSeq(text, from, to)
               \o SubSeq(pattern, Len(pattern) + 1, Len(pattern)) = front \o SubSeq(text, from, to)
  <2>1. SubSeq(text, from, to) \in Seq(S)
    BY PartOf
  <2>2. front \o SubSeq(text, from, to) \in Seq(S)
    BY <1>4, <2>1, ConcatProperties
  <2>3. (front \o SubSeq(text, from, to)) \o <<>> = front \o SubSeq(text, from, to)
    BY <2>2, ConcatEmptySeq
  <2>. QED  BY <1>3, <1>5, <2>3, Zenon
<1>7. GlobMatches(pattern, text)
        <=> \E from \in 1..(Len(text) + 1), to \in 0..Len(text) :
              text = SubSeq(pattern, 1, Len(pattern) - 1) \o SubSeq(text, from, to)
                       \o SubSeq(pattern, Len(pattern) + 1, Len(pattern))
  BY Zenon DEF GlobMatches
<1>8. GlobMatches(pattern, text)
        <=> \E from \in 1..(Len(text) + 1), to \in 0..Len(text) :
              text = front \o SubSeq(text, from, to)
  BY <1>6, <1>7, Zenon
<1>9. IsPrefix(front, text) <=> \E from \in 1..(Len(text) + 1), to \in 0..Len(text) :
                                  text = front \o SubSeq(text, from, to)
  BY <1>4, PrefixStretch
<1>. QED  BY <1>3, <1>8, <1>9, Zenon

\* A pattern that starts with "*." is "*.", and then the text the code looks for.
LEMMA StarDot ==
  ASSUME NEW S, "*" \in S, "." \in S, NEW pattern \in Seq(S)
  PROVE  /\ IsPrefix(<<"*", ".">>, pattern) <=>
              Len(pattern) >= 2 /\ pattern[1] = "*" /\ pattern[2] = "."
         /\ IsPrefix(<<"*", ".">>, pattern) =>
              /\ AfterStarDot(pattern) \in Seq(S)
              /\ Len(AfterStarDot(pattern)) = Len(pattern) - 2
              /\ \A i \in 1..(Len(pattern) - 2) : AfterStarDot(pattern)[i] = pattern[i + 2]
              /\ SubSeq(pattern, 2, Len(pattern)) = <<".">> \o AfterStarDot(pattern)
              /\ pattern = <<"*", ".">> \o AfterStarDot(pattern)
<1>1. Len(pattern) \in Nat
  BY LenProperties
<1>2. PICK s \in Seq(S) : s = <<"*", ".">> /\ Len(s) = 2 /\ s[1] = "*" /\ s[2] = "."
  <2>1. /\ <<"*", ".">> \in Seq(S) /\ Len(<<"*", ".">>) = 2
        /\ <<"*", ".">>[1] = "*" /\ <<"*", ".">>[2] = "."
    OBVIOUS
  <2>. QED  BY <2>1, Zenon
<1>3. IsPrefix(s, pattern) <=> Len(s) <= Len(pattern) /\ \A i \in 1..Len(s) : s[i] = pattern[i]
  BY PrefixTokens
<1>4. (\A i \in 1..2 : s[i] = pattern[i]) <=> s[1] = pattern[1] /\ s[2] = pattern[2]
  OBVIOUS
<1>5. IsPrefix(s, pattern) <=> Len(pattern) >= 2 /\ pattern[1] = "*" /\ pattern[2] = "."
  BY <1>1, <1>2, <1>3, <1>4
<1>6. ASSUME Len(pattern) >= 2, pattern[1] = "*", pattern[2] = "."
      PROVE  /\ AfterStarDot(pattern) \in Seq(S)
             /\ Len(AfterStarDot(pattern)) = Len(pattern) - 2
             /\ \A i \in 1..(Len(pattern) - 2) : AfterStarDot(pattern)[i] = pattern[i + 2]
             /\ SubSeq(pattern, 2, Len(pattern)) = <<".">> \o AfterStarDot(pattern)
             /\ pattern = <<"*", ".">> \o AfterStarDot(pattern)
  <2>1. PICK rest : rest = SubSeq(pattern, 3, Len(pattern)) /\ rest = AfterStarDot(pattern)
    BY DEF AfterStarDot
  <2>2. 3 \in 1..(Len(pattern) + 1) /\ Len(pattern) \in 0..Len(pattern)
    BY <1>1, <1>6
  <2>3. /\ rest \in Seq(S)
        /\ Len(rest) = IF 3 <= Len(pattern) THEN Len(pattern) - 3 + 1 ELSE 0
        /\ \A i \in 1..(Len(pattern) - 3 + 1) : rest[i] = pattern[3 + i - 1]
    BY <2>1, <2>2, PartOf
  <2>4. Len(rest) = Len(pattern) - 2
    <3>1. Len(rest) = IF 3 <= Len(pattern) THEN Len(pattern) - 3 + 1 ELSE 0
      BY <2>3
    <3>2. Len(pattern) >= 2
      BY <1>6
    <3>3. CASE 3 <= Len(pattern)
      BY <1>1, <3>1, <3>3
    <3>4. CASE ~(3 <= Len(pattern))
      <4>1. Len(rest) = 0
        BY <3>1, <3>4
      <4>2. Len(pattern) = 2
        <5>1. \A n \in Nat : n >= 2 /\ ~(3 <= n) => n = 2
          OBVIOUS
        <5>. QED  BY <1>1, <3>2, <3>4, <5>1, Zenon
      <4>. QED  BY <4>1, <4>2
    <3>. QED  BY <3>3, <3>4
  <2>5. \A i \in 1..(Len(pattern) - 2) : rest[i] = pattern[i + 2]
    <3>1. Len(pattern) - 3 + 1 = Len(pattern) - 2
      BY <1>1
    <3>2. \A i \in 1..(Len(pattern) - 2) : 3 + i - 1 = i + 2
      BY <1>1
    <3>. QED  BY <2>3, <3>1, <3>2, Zenon
  <2>6. 1 \in 1..Len(pattern) /\ 2 \in 1..Len(pattern) /\ 2 \in 2..Len(pattern)
        /\ Len(pattern) \in 1..Len(pattern) /\ Len(pattern) \in 2..Len(pattern)
    BY <1>1, <1>6
  <2>7. SubSeq(pattern, 2, Len(pattern)) = <<pattern[2]>> \o SubSeq(pattern, 2 + 1, Len(pattern))
    BY <2>6, SubSeqRecursiveFirst
  <2>8. SubSeq(pattern, 2, Len(pattern)) = <<".">> \o rest
    BY <1>6, <2>1, <2>7
  <2>9. pattern = <<"*", ".">> \o rest
    <3>1. /\ s \o rest \in Seq(S) /\ Len(s \o rest) = Len(s) + Len(rest)
          /\ \A i \in 1..(Len(s) + Len(rest)) :
               (s \o rest)[i] = IF i <= Len(s) THEN s[i] ELSE rest[i - Len(s)]
      BY <2>3, ConcatProperties
    <3>2. Len(s) + Len(rest) = Len(pattern)
      BY <1>1, <1>2, <2>4
    <3>3. ASSUME NEW i \in 1..Len(pattern) PROVE pattern[i] = (s \o rest)[i]
      <4>1. (s \o rest)[i] = IF i <= 2 THEN s[i] ELSE rest[i - 2]
        BY <1>2, <3>1, <3>2, Zenon
      <4>2. CASE i \in {1, 2}
        BY <1>2, <1>6, <4>1, <4>2
      <4>3. CASE i \notin {1, 2}
        <5>1. i - 2 \in 1..(Len(pattern) - 2) /\ (i - 2) + 2 = i /\ ~(i <= 2)
          BY <1>1, <4>3
        <5>. QED  BY <2>5, <4>1, <5>1, Zenon
      <4>. QED  BY <4>2, <4>3
    <3>. QED  BY <1>2, <3>1, <3>2, <3>3, SeqEqual
  <2>. QED  BY <2>1, <2>3, <2>4, <2>5, <2>8, <2>9
<1>. QED  BY <1>2, <1>5, <1>6

\* For an origin without a star, a pattern of the list allows just what its form says.
LEMMA PatternsAsGlobs ==
  ASSUME NEW S, "*" \in S, "." \in S, NEW pattern \in Seq(S), pattern # <<>>,
         NEW origin \in Seq(S), Stars(origin) = {}
  PROVE  PatternMatches(pattern, origin) <=>
           /\ Supported(pattern)
           /\ GlobMatches(pattern, origin) \/ pattern = <<"*", ".">> \o origin
<1>1. /\ Len(pattern) \in Nat \ {0} /\ DOMAIN pattern = 1..Len(pattern)
      /\ Len(origin) \in Nat /\ DOMAIN origin = 1..Len(origin)
  BY LenProperties, EmptySeq
<1>2. \A i \in 1..Len(origin) : origin[i] # "*"
  BY <1>1 DEF Stars
<1>3. Starred(pattern) <=> Stars(pattern) # {}
  BY DEF Starred, Stars
<1>4. IsPrefix(<<"*", ".">>, pattern) =>
        Len(pattern) >= 2 /\ pattern[1] = "*" /\ pattern[2] = "."
  BY StarDot
<1>5. IsPrefix(<<"*", ".">>, pattern) => 1 \in Stars(pattern)
  BY <1>1, <1>4 DEF Stars
<1>6. 1 \in 1..Len(pattern) /\ Len(pattern) \in 1..Len(pattern)
  BY <1>1
<1>7. ASSUME pattern = <<"*", ".">> \o origin PROVE IsPrefix(<<"*", ".">>, pattern)
  <2>1. PICK s \in Seq(S) : s = <<"*", ".">> /\ Len(s) = 2
    <3>1. <<"*", ".">> \in Seq(S) /\ Len(<<"*", ".">>) = 2
      OBVIOUS
    <3>. QED  BY <3>1, Zenon
  <2>2. /\ Len(pattern) = Len(s) + Len(origin)
        /\ \A i \in 1..(Len(s) + Len(origin)) :
             pattern[i] = IF i <= Len(s) THEN s[i] ELSE origin[i - Len(s)]
    <3>1. /\ Len(s \o origin) = Len(s) + Len(origin)
          /\ \A i \in 1..(Len(s) + Len(origin)) :
               (s \o origin)[i] = IF i <= Len(s) THEN s[i] ELSE origin[i - Len(s)]
      BY ConcatProperties
    <3>. QED  BY <1>7, <2>1, <3>1, Zenon
  <2>3. ASSUME NEW i \in 1..Len(s) PROVE s[i] = pattern[i]
    <3>1. i \in 1..(Len(s) + Len(origin)) /\ i <= Len(s)
      BY <1>1, <2>1
    <3>. QED  BY <2>2, <3>1, Zenon
  <2>4. Len(s) <= Len(pattern)
    BY <1>1, <2>1, <2>2
  <2>. QED  BY <2>1, <2>3, <2>4, PrefixTokens
<1>8. CASE Stars(pattern) = {}
  <2>1. ~IsPrefix(<<"*", ".">>, pattern) /\ Last(pattern) # "*"
    BY <1>1, <1>5, <1>6, <1>8 DEF Stars, Last
  <2>2. PatternMatches(pattern, origin) <=> origin = pattern
    BY <1>3, <1>8, <2>1, Zenon DEF PatternMatches
  <2>3. GlobMatches(pattern, origin) <=> origin = pattern
    BY <1>8, Zenon DEF GlobMatches
  <2>. QED  BY <1>7, <1>8, <2>1, <2>2, <2>3, Zenon DEF Supported
<1>9. CASE IsPrefix(<<"*", ".">>, pattern)
  <2>1. PICK rest \in Seq(S) :
          /\ rest = AfterStarDot(pattern) /\ Len(rest) = Len(pattern) - 2
          /\ \A i \in 1..(Len(pattern) - 2) : rest[i] = pattern[i + 2]
          /\ SubSeq(pattern, 2, Len(pattern)) = <<".">> \o rest
          /\ pattern = <<"*", ".">> \o rest
    BY <1>9, StarDot
  <2>2. PatternMatches(pattern, origin) <=> IsSuffix(<<".">> \o rest, origin) \/ origin = rest
    BY <1>3, <1>5, <1>9, <2>1, Zenon DEF PatternMatches
  <2>3. CASE Stars(pattern) = {1}
    <3>1. GlobMatches(pattern, origin) <=> IsSuffix(<<".">> \o rest, origin)
      BY <2>1, <2>3, StarFirst
    <3>2. pattern = <<"*", ".">> \o origin <=> origin = rest
      <4>1. <<"*", ".">> \in Seq(S)
        OBVIOUS
      <4>2. <<"*", ".">> \o origin = <<"*", ".">> \o rest => origin = rest
        BY <4>1, ConcatSimplifications
      <4>. QED  BY <2>1, <4>2
    <3>. QED  BY <1>9, <2>2, <2>3, <3>1, <3>2, Zenon DEF Supported
  <2>4. CASE Stars(pattern) # {1}
    <3>1. PICK star \in Stars(pattern) : star # 1
      BY <1>5, <1>9, <2>4
    <3>2. star \in 1..Len(pattern) /\ pattern[star] = "*" /\ star # 2
      BY <1>1, <1>4, <1>9, <3>1 DEF Stars
    <3>3. PICK k \in 1..(Len(pattern) - 2) : k + 2 = star
      <4>1. star - 2 \in 1..(Len(pattern) - 2) /\ (star - 2) + 2 = star
        BY <1>1, <3>1, <3>2
      <4>. QED  BY <4>1, Zenon
    <3>4. k \in 1..Len(rest) /\ rest[k] = "*"
      BY <2>1, <3>2, <3>3
    <3>5. origin # rest
      BY <1>2, <3>4, Zenon
    <3>6. ~IsSuffix(<<".">> \o rest, origin)
      <4>. SUFFICES ASSUME IsSuffix(<<".">> \o rest, origin) PROVE FALSE
        OBVIOUS
      <4>1. PICK one \in Seq(S) : one = <<".">> /\ Len(one) = 1
        <5>1. <<".">> \in Seq(S) /\ Len(<<".">>) = 1
          OBVIOUS
        <5>. QED  BY <5>1, Zenon
      <4>2. PICK tail \in Seq(S) :
              /\ tail = one \o rest /\ Len(tail) = 1 + Len(rest)
              /\ \A i \in 1..(1 + Len(rest)) : tail[i] = IF i <= 1 THEN one[i] ELSE rest[i - 1]
        <5>1. /\ one \o rest \in Seq(S) /\ Len(one \o rest) = Len(one) + Len(rest)
              /\ \A i \in 1..(Len(one) + Len(rest)) :
                   (one \o rest)[i] = IF i <= Len(one) THEN one[i] ELSE rest[i - Len(one)]
          BY ConcatProperties
        <5>. QED  BY <4>1, <5>1, Zenon
      <4>3. /\ Len(tail) <= Len(origin)
            /\ \A i \in 1..Len(tail) : tail[i] = origin[Len(origin) - Len(tail) + i]
        <5>1. IsSuffix(tail, origin)
          BY <4>1, <4>2, Zenon
        <5>. QED  BY <5>1, SuffixTokens
      <4>4. Len(rest) \in Nat
        BY LenProperties
      <4>5. PICK i \in 1..Len(tail) : i = k + 1 /\ ~(i <= 1) /\ i - 1 = k /\ i \in 1..(1 + Len(rest))
        <5>1. k + 1 \in 1..(1 + Len(rest)) /\ ~(k + 1 <= 1) /\ (k + 1) - 1 = k
          BY <3>4, <4>4
        <5>2. Len(tail) = 1 + Len(rest)
          BY <4>2
        <5>. QED  BY <5>1, <5>2, Zenon
      <4>6. tail[i] = "*"
        BY <3>4, <4>2, <4>5, Zenon
      <4>7. PICK j \in 1..Len(origin) : j = Len(origin) - Len(tail) + i
        <5>1. Len(tail) \in Nat /\ Len(tail) <= Len(origin)
          BY <4>3, LenProperties
        <5>2. Len(origin) - Len(tail) + i \in 1..Len(origin)
          BY <1>1, <5>1
        <5>. QED  BY <5>2, Zenon
      <4>. QED  BY <1>2, <4>3, <4>6, <4>7, Zenon
    <3>7. ~Supported(pattern)
      BY <1>4, <1>5, <1>9, <2>4 DEF Supported
    <3>. QED  BY <2>2, <3>5, <3>6, <3>7, Zenon
  <2>. QED  BY <2>3, <2>4
<1>10. CASE Stars(pattern) # {} /\ ~IsPrefix(<<"*", ".">>, pattern)
  <2>1. PICK front : front = SubSeq(pattern, 1, Len(pattern) - 1) /\ front = Front(pattern)
    BY DEF Front
  <2>2. PatternMatches(pattern, origin) <=> pattern[Len(pattern)] = "*" /\ IsPrefix(front, origin)
    BY <1>3, <1>10, <2>1, Zenon DEF PatternMatches, Last
  <2>3. CASE Stars(pattern) = {Len(pattern)}
    <3>1. GlobMatches(pattern, origin) <=> IsPrefix(front, origin)
      BY <2>1, <2>3, StarLast
    <3>2. pattern[Len(pattern)] = "*"
      BY <2>3 DEF Stars
    <3>. QED  BY <1>7, <1>10, <2>2, <2>3, <3>1, <3>2, Zenon DEF Supported
  <2>4. CASE Stars(pattern) # {Len(pattern)}
    <3>1. ASSUME pattern[Len(pattern)] = "*", IsPrefix(front, origin) PROVE FALSE
      <4>1. Len(pattern) \in Stars(pattern)
        BY <1>1, <1>6, <3>1 DEF Stars
      <4>2. PICK star \in Stars(pattern) : star # Len(pattern)
        BY <2>4, <4>1
      <4>3. star \in 1..(Len(pattern) - 1) /\ pattern[star] = "*" /\ 1 + star - 1 = star
        BY <1>1, <4>2 DEF Stars
      <4>4. 1 \in 1..(Len(pattern) + 1) /\ Len(pattern) - 1 \in 0..Len(pattern)
        BY <1>1
      <4>5. /\ front \in Seq(S)
            /\ Len(front) = IF 1 <= Len(pattern) - 1 THEN (Len(pattern) - 1) - 1 + 1 ELSE 0
            /\ \A i \in 1..((Len(pattern) - 1) - 1 + 1) : front[i] = pattern[1 + i - 1]
        BY <2>1, <4>4, PartOf
      <4>6. Len(front) = Len(pattern) - 1 /\ (Len(pattern) - 1) - 1 + 1 = Len(pattern) - 1
        <5>1. Len(front) = IF 1 <= Len(pattern) - 1 THEN (Len(pattern) - 1) - 1 + 1 ELSE 0
          BY <4>5
        <5>2. Len(pattern) \in Nat /\ Len(pattern) >= 1
          BY <1>1
        <5>3. CASE 1 <= Len(pattern) - 1
          BY <5>1, <5>2, <5>3
        <5>4. CASE ~(1 <= Len(pattern) - 1)
          <6>1. Len(front) = 0
            BY <5>1, <5>4
          <6>2. Len(pattern) = 1
            <7>1. \A n \in Nat : n >= 1 /\ ~(1 <= n - 1) => n = 1
              OBVIOUS
            <7>. QED  BY <5>2, <5>4, <7>1, Zenon
          <6>. QED  BY <6>1, <6>2
        <5>. QED  BY <5>3, <5>4
      <4>7. star \in 1..Len(front) /\ front[star] = "*"
        BY <4>3, <4>5, <4>6, Zenon
      <4>8. Len(front) <= Len(origin) /\ \A i \in 1..Len(front) : front[i] = origin[i]
        BY <3>1, <4>5, PrefixTokens
      <4>9. star \in 1..Len(origin)
        <5>1. Len(front) \in Nat /\ Len(front) <= Len(origin)
          BY <4>5, <4>8, LenProperties
        <5>. QED  BY <1>1, <4>7, <5>1
      <4>. QED  BY <1>2, <4>7, <4>8, <4>9, Zenon
    <3>2. ~Supported(pattern)
      BY <1>10, <2>4, Zenon DEF Supported
    <3>. QED  BY <2>2, <3>1, <3>2, Zenon
  <2>. QED  BY <2>3, <2>4
<1>. QED  BY <1>8, <1>9, <1>10

\* An origin of a browser is allowed exactly if an item of the list, as the operator
\* wrote it, names it or matches it as a glob, for any list (allowed_origin_patterns,
\* cors_layer).
THEOREM OriginsAreAsListed == Spec => []OriginsAsListed
<1>1. Settled => OriginsAsListed
  <2>. DEFINE items == Range(config.allowed_origins)
              Allowed(item, origin) ==
                \E from \in DOMAIN item, to \in DOMAIN item :
                  LET text == SubSeq(item, from, to) IN
                  /\ TextAt(item, from, to)
                  /\ Supported(text)
                  /\ \/ GlobMatches(text, origin)
                     \/ text = <<"*", ".">> \o origin
  <2>. SUFFICES ASSUME Settled, phase = "serving", answer.handler # Absent,
                       answer.origin # Absent => Stars(answer.origin) = {}
                PROVE  answer.allow_origin <=>
                         /\ answer.origin # Absent
                         /\ \E item \in items : Allowed(item, answer.origin)
    BY DEF OriginsAsListed
  <2>1. answer # NoAnswer
    BY DEF NoAnswer
  <2>2. PICK origin : origin = answer.origin
    OBVIOUS
  <2>3. /\ origin \in Origins
        /\ answer.allow_origin = OriginAllowed(AllowedOriginPatterns(config.allowed_origins), origin)
    BY <2>1, <2>2 DEF Settled, Runtime
  <2>4. \A item \in items : IsText(item)
    BY ConfigAssumption DEF Settled
  <2>5. ASSUME NEW item \in items, origin # Absent
        PROVE  Allowed(item, origin)
                 <=> Trim(item, " ") # <<>> /\ PatternMatches(Trim(item, " "), origin)
    <3>1. PICK S : S = Range(item) \cup Range(origin) \cup {"*", "."}
      OBVIOUS
    <3>2. IsText(item) /\ IsText(origin)
      BY <2>3, <2>4, <2>5, OriginAssumption
    <3>3. item \in Seq(S) /\ origin \in Seq(S) /\ "*" \in S /\ "." \in S
      BY <3>1, <3>2, SeqMonotonic DEF IsText
    <3>4. Len(item) \in Nat /\ DOMAIN item = 1..Len(item)
      BY <3>3, LenProperties
    <3>5. ASSUME NEW from \in DOMAIN item, NEW to \in DOMAIN item, TextAt(item, from, to)
          PROVE  SubSeq(item, from, to) \in Seq(S) /\ SubSeq(item, from, to) # <<>>
      <4>1. from \in 1..(Len(item) + 1) /\ to \in 0..Len(item) /\ to - from + 1 > 0 /\ from <= to
        <5>1. from <= to
          BY <3>5 DEF TextAt
        <5>. QED  BY <3>4, <5>1
      <4>2. SubSeq(item, from, to) \in Seq(S) /\ Len(SubSeq(item, from, to)) = to - from + 1
        BY <3>3, <4>1, PartOf
      <4>. QED  BY <4>1, <4>2, EmptySeq
    <3>6. Stars(origin) = {}
      BY <2>2, <2>5
    <3>7. CASE \E from \in DOMAIN item, to \in DOMAIN item :
                 TextAt(item, from, to) /\ Trim(item, " ") = SubSeq(item, from, to)
      <4>1. PICK from \in DOMAIN item, to \in DOMAIN item :
              TextAt(item, from, to) /\ Trim(item, " ") = SubSeq(item, from, to)
        BY <3>7
      <4>2. PICK text \in Seq(S) : text = SubSeq(item, from, to) /\ text # <<>>
        BY <3>5, <4>1
      <4>3. PatternMatches(text, origin) <=>
              Supported(text) /\ (GlobMatches(text, origin) \/ text = <<"*", ".">> \o origin)
        BY <3>3, <3>6, <4>2, PatternsAsGlobs
      <4>4. \A first \in DOMAIN item, last \in DOMAIN item :
              TextAt(item, first, last) => first = from /\ last = to
        BY <3>2, <4>1, OneText
      <4>5. Allowed(item, origin) <=>
              Supported(text) /\ (GlobMatches(text, origin) \/ text = <<"*", ".">> \o origin)
        BY <4>1, <4>2, <4>4, Zenon
      <4>. QED  BY <4>1, <4>2, <4>3, <4>5, Zenon
    <3>8. CASE Trim(item, " ") = <<>> /\ \A i \in DOMAIN item : item[i] = " "
      BY <3>8, Zenon DEF TextAt
    <3>. QED  BY <3>2, <3>7, <3>8, TrimmedText
  <2>6. OriginAllowed(AllowedOriginPatterns(config.allowed_origins), origin)
          <=> /\ origin # Absent
              /\ \E item \in items : Trim(item, " ") # <<>> /\ PatternMatches(Trim(item, " "), origin)
    BY Zenon DEF OriginAllowed, AllowedOriginPatterns
  <2>. HIDE DEF Allowed, items
  <2>7. CASE origin = Absent
    BY <2>2, <2>3, <2>6, <2>7
  <2>8. CASE origin # Absent
    BY <2>2, <2>3, <2>5, <2>6, <2>8
  <2>. QED  BY <2>7, <2>8
<1>. QED  BY <1>1, SettledInvariance, PTL
=============================================================================
