---------------------------- MODULE HandleClaim ----------------------------
(***************************************************************************)
(* The GitHub handle claim: the three routes that take part in it          *)
(* (src/routes/challenge.rs, callback.rs, result.rs), the background       *)
(* task a callback spawns, the passing of time, clients that hang up, and  *)
(* the life of the process (src/main.rs).                                  *)
(*                                                                         *)
(* Every request is a process with a program counter.  One step of it runs *)
(* from one await to the next: tokio can run any other request at an       *)
(* await, hyper can drop the handler there, and nowhere else.              *)
(*                                                                         *)
(*   challenge request c   idle > minted > stored > responded              *)
(*                         idle > rejected                                 *)
(*   callback request h    idle > consuming > exchanging > marking         *)
(*                         > spawning > done, or consuming > failing       *)
(*                         > done, or straight to done                     *)
(*   background task of h  none > running > finishing > reported           *)
(*                                                                         *)
(* Bounds: each id in Challenge serves one challenge request, each id in   *)
(* Callback one callback request and the task it spawns.                   *)
(***************************************************************************)
EXTENDS OAuth

CONSTANTS
  Callback,    \* callback requests
  Compressed,  \* the public keys that are 33 bytes of hex with prefix 02 or 03
  OnCurve,     \* those that decode to a curve point as well
  NonZero      \* the wallets that parse as a non-zero 20-byte address

ASSUME InputAssumption ==
  /\ OnCurve \subseteq Compressed
  /\ Compressed \subseteq Pubkey
  /\ NonZero \subseteq Wallet

VARIABLES
  creator,   \* challenge requests, by the challenge id they mint
  callback,  \* callback requests
  task,      \* the background task each callback request may spawn
  server     \* the process: serving, draining after ctrl-c, or stopped

vars == <<challenges, results, granted, creator, callback, task, server>>

-----------------------------------------------------------------------------
\* POST /auth/github/challenge

Creator ==
  [pc : {"idle", "rejected", "minted", "stored", "responded", "dropped"},
   pubkey : Pubkey \cup {Absent}, wallet : Wallet \cup {Absent}, age : Age]

NoRequest == [pc |-> "idle", pubkey |-> Absent, wallet |-> Absent, age |-> 0]

\* validate_compressed_pubkey and parse_link_wallet.  Nothing checks here
\* that the key is a curve point.
ValidRequest(p, w) == p \in Compressed /\ w \in NonZero

\* Validate, draw the challenge and its verifier, take the creation instant.
ChallengeGithub(c) ==
  /\ server = "serving"
  /\ creator[c].pc = "idle"
  /\ \E p \in Pubkey, w \in Wallet :
       creator' = [creator EXCEPT ![c] =
         IF ValidRequest(p, w)
         THEN [pc |-> "minted", pubkey |-> p, wallet |-> w, age |-> 0]
         ELSE [NoRequest EXCEPT !.pc = "rejected"]]
  /\ UNCHANGED <<challenges, results, granted, callback, task, server>>

\* create_challenge, first lock.
CreateChallenge(c) ==
  /\ creator[c].pc = "minted"
  /\ StoreChallenge(c, [pubkey   |-> creator[c].pubkey,
                        verifier |-> GenerateCodeVerifier(c),
                        wallet   |-> creator[c].wallet,
                        age      |-> creator[c].age])
  /\ creator' = [creator EXCEPT ![c] = [@ EXCEPT !.pc = "stored", !.age = 0]]
  /\ UNCHANGED <<results, granted, callback, task, server>>

\* create_challenge, second lock, and the response: only now does the client
\* learn the challenge id and the authorization URL.
CreateSlot(c) ==
  /\ creator[c].pc = "stored"
  /\ OpenSlot(c)
  /\ creator' = [creator EXCEPT ![c].pc = "responded"]
  /\ UNCHANGED <<challenges, granted, callback, task, server>>

\* The user accepts in the popup.  External: GitHub issues a code.
Authorize(c) ==
  /\ creator[c].pc = "responded"
  /\ \E u \in User : IssueCode(c, BuildAuthUrl(c, creator[c].pubkey), u)
  /\ UNCHANGED <<challenges, results, creator, callback, task, server>>

-----------------------------------------------------------------------------
\* GET /auth/github/callback

CallbackPc == {"idle", "consuming", "exchanging", "marking", "spawning",
               "failing", "done", "dropped"}

\* What the popup is answered with: decided at times before the last await,
\* sent when the handler is done.  The two pages are HTML; every other response
\* is a status code with a line of text.
Response == {"bad_request", "not_found", "gone", "bad_gateway",
             "failed_page", "confirmed_page"}

ASSUME ResponseAssumption == Absent \notin Response

\* The parameters, and the locals that live across the handler's awaits.
CallbackRequest ==
  [pc      : CallbackPc,
   chal    : Challenge \cup {Absent},
   pubkey  : Pubkey \cup {Absent},
   error   : BOOLEAN,
   code    : Challenge \cup {Absent},
   pending : PendingChallenge \cup {Absent},
   token   : User \cup {Absent},
   resp    : Response \cup {Absent}]

NoCallback ==
  [pc |-> "idle", chal |-> Absent, pubkey |-> Absent, error |-> FALSE,
   code |-> Absent, pending |-> Absent, token |-> Absent, resp |-> Absent]

\* GitHub sends an error, a code, or (a hand-made URL) neither.
Redirects ==
  [error : {FALSE}, code : Codes \cup {Absent}] \cup [error : {TRUE}, code : {Absent}]

\* A browser calls back with a copy of the state of some authorization URL it
\* was given, its public key possibly damaged.  The same redirect may arrive
\* any number of times and in any order.
ReceiveCallback(h) ==
  /\ server = "serving"
  /\ callback[h].pc = "idle"
  /\ \E c \in Challenge, p \in Pubkey, r \in Redirects :
       /\ creator[c].pc = "responded"
       /\ \E state \in Copies(FormatOauthState(c, p)) :
            LET parsed == ParseOauthState(state) IN
            callback' = [callback EXCEPT ![h] =
              IF parsed = Absent
              THEN [NoCallback EXCEPT !.pc = "done", !.resp = "bad_request"]
              ELSE [NoCallback EXCEPT !.pc = "consuming",
                                      !.chal = parsed.chal,
                                      !.pubkey = parsed.pubkey,
                                      !.error = r.error,
                                      !.code = r.code]]
  /\ UNCHANGED <<challenges, results, granted, creator, task, server>>

\* The public key in the state parameter against the one stored.
PubkeyMatches_Unchecked(h, found) == TRUE

PubkeyMatches(h, found) == found.pubkey = callback[h].pubkey

\* Consume the challenge and run to the next await.  The checks come in this
\* order; the first three outcomes leave the flow's status alone.
Consume(h) ==
  LET found == challenges[callback[h].chal]
      Usable == found # Absent /\ ~Expired(found)
      MovesTo(pc, resp) ==
        callback' = [callback EXCEPT ![h] =
                       [@ EXCEPT !.pc = pc, !.resp = resp, !.pending = found]]
  IN
  /\ callback[h].pc = "consuming"
  /\ ConsumeChallenge(callback[h].chal)
  /\ \/ found = Absent /\ MovesTo("done", "not_found")
     \/ found # Absent /\ Expired(found) /\ MovesTo("done", "gone")
     \/ Usable /\ ~PubkeyMatches(h, found) /\ MovesTo("done", "bad_request")
     \* Declined, or no code: the failure is still to be recorded.
     \/ /\ Usable /\ PubkeyMatches(h, found)
        /\ callback[h].error \/ callback[h].code = Absent
        /\ MovesTo("failing", "failed_page")
     \/ /\ Usable /\ PubkeyMatches(h, found)
        /\ ~callback[h].error /\ callback[h].code # Absent
        /\ MovesTo("exchanging", Absent)
  /\ UNCHANGED <<results, granted, creator, task, server>>

\* GitHub's token endpoint answers, or the request fails.
ExchangeFails_Unrecorded(h) ==
  callback' = [callback EXCEPT ![h] = [@ EXCEPT !.pc = "done", !.resp = "bad_gateway"]]

ExchangeFails(h) ==
  callback' = [callback EXCEPT ![h] = [@ EXCEPT !.pc = "failing", !.resp = "bad_gateway"]]

ExchangeAnswered(h) ==
  /\ callback[h].pc = "exchanging"
  /\ \/ ExchangeFails(h)
     \/ \E token \in User \cap ExchangeCode(callback[h].code,
                                             callback[h].pending.verifier) :
          callback' = [callback EXCEPT ![h] = [@ EXCEPT !.pc = "marking", !.token = token]]
  /\ UNCHANGED <<challenges, results, granted, creator, task, server>>

\* set_status(Failed), then the answer.
RecordFailure(h) ==
  /\ callback[h].pc = "failing"
  /\ SetStatus(callback[h].chal, Failed)
  /\ callback' = [callback EXCEPT ![h].pc = "done"]
  /\ UNCHANGED <<challenges, granted, creator, task, server>>

\* set_status(oauth_complete).  No await separates it from the spawn, so the
\* handler cannot be dropped in between; other threads do run in between.
MarkOauthComplete_AfterSpawn(h) ==
  /\ callback[h].pc = "marking"
  /\ \/ /\ task[h].pc = "none"
        /\ task' = [task EXCEPT ![h].pc = "running"]
        /\ UNCHANGED <<results, callback>>
     \/ /\ task[h].pc # "none"
        /\ SetStatus(callback[h].chal, OauthComplete)
        /\ callback' = [callback EXCEPT ![h] =
                          [@ EXCEPT !.pc = "done", !.resp = "confirmed_page"]]
        /\ UNCHANGED task
  /\ UNCHANGED <<challenges, granted, creator, server>>

MarkOauthComplete(h) ==
  /\ callback[h].pc = "marking"
  /\ SetStatus(callback[h].chal, OauthComplete)
  /\ callback' = [callback EXCEPT ![h] = [@ EXCEPT !.pc = "spawning", !.resp = "confirmed_page"]]
  /\ UNCHANGED <<challenges, granted, creator, task, server>>

\* tokio::spawn, and the page that closes the popup.
SpawnVerification(h) ==
  /\ callback[h].pc = "spawning"
  /\ task' = [task EXCEPT ![h].pc = "running"]
  /\ callback' = [callback EXCEPT ![h].pc = "done"]
  /\ UNCHANGED <<challenges, results, granted, creator, server>>

-----------------------------------------------------------------------------
\* The background task: run_verification, then set_status.

Task == [pc : {"none", "running", "finishing", "reported", "dead"},
         result : FlowStatus \cup {Absent}]

NoTask == [pc |-> "none", result |-> Absent]

\* flow::run: the proof is made out with what the task captured.
ProofOf_RawKey(h) == [user    |-> callback[h].token,
                      session |-> callback[h].pubkey,
                      wallet  |-> callback[h].pending.wallet]

ProofOf(h) == [user    |-> callback[h].token,
               session |-> SessionAddress(callback[h].pubkey),
               wallet  |-> callback[h].pending.wallet]

\* A key that is no curve point fails here, once the flow runs, and not when
\* the challenge was requested.  Every other failure (no notary, a session
\* that breaks, an attestation or a proof that does not check) is possible
\* whatever the inputs.
FlowOutcomes(h) ==
  {Failed} \cup {Complete(ProofOf(h)) : p \in OnCurve \cap {callback[h].pubkey}}

\* run_verification ends: there is no timeout on any of its awaits.
RunVerification(h) ==
  /\ task[h].pc = "running"
  /\ \E outcome \in FlowOutcomes(h) :
       task' = [task EXCEPT ![h] = [pc |-> "finishing", result |-> outcome]]
  /\ UNCHANGED <<challenges, results, granted, creator, callback, server>>

\* A panic (solidity_sig on an unexpected v-byte, or inside a dependency)
\* ends the task: the JoinHandle was dropped, nobody records it.
TaskPanics(h) ==
  /\ task[h].pc = "running"
  /\ task' = [task EXCEPT ![h].pc = "dead"]
  /\ UNCHANGED <<challenges, results, granted, creator, callback, server>>

ReportOutcome(h) ==
  /\ task[h].pc = "finishing"
  /\ SetStatus(callback[h].chal, task[h].result)
  /\ task' = [task EXCEPT ![h].pc = "reported"]
  /\ UNCHANGED <<challenges, granted, creator, callback, server>>

-----------------------------------------------------------------------------
\* GET /auth/github/result/{challenge}: the status code a poll is answered.

ResultGithub(c) ==
  LET status == StatusJson(c) IN
  CASE status = Absent     -> 404
    [] status \in Pending  -> 202
    [] status = Failed     -> 500
    [] OTHER               -> 200

-----------------------------------------------------------------------------
\* Time, clients that hang up, and the process.

Tick ==
  /\ challenges' = Aged(challenges)
  /\ results' = Aged(results)
  /\ creator' = [c \in Challenge |->
                   IF creator[c].pc = "minted"
                   THEN [creator[c] EXCEPT !.age = Elapse(@)] ELSE creator[c]]
  /\ UNCHANGED <<granted, callback, task, server>>

\* A client closes its connection: hyper drops the handler at its await.
\* External: the code has no step for this.
DropCreator(c) ==
  /\ creator[c].pc \in {"minted", "stored"}
  /\ creator' = [creator EXCEPT ![c] = [@ EXCEPT !.pc = "dropped", !.age = 0]]
  /\ UNCHANGED <<challenges, results, granted, callback, task, server>>

DropCallback(h) ==
  /\ callback[h].pc \in {"consuming", "exchanging", "marking", "failing"}
  /\ callback' = [callback EXCEPT ![h].pc = "dropped"]
  /\ UNCHANGED <<challenges, results, granted, creator, task, server>>

CreatorActive(c) == creator[c].pc \in {"minted", "stored"}

CallbackActive(h) ==
  callback[h].pc \in {"consuming", "exchanging", "marking", "spawning", "failing"}

TaskActive(h) == task[h].pc \in {"running", "finishing"}

\* ctrl-c: accept no further request, let the handlers finish.
CtrlC ==
  /\ server = "serving"
  /\ server' = "draining"
  /\ UNCHANGED <<challenges, results, granted, creator, callback, task>>

\* The process ends: both maps go, and so does every spawned task.
ProcessEnds ==
  /\ challenges' = [c \in Challenge |-> Absent]
  /\ results' = [c \in Challenge |-> Absent]
  /\ task' = [h \in Callback |->
                IF TaskActive(h) THEN [task[h] EXCEPT !.pc = "dead"] ELSE task[h]]
  /\ server' = "stopped"

\* axum::serve returns once the handlers are done.  It does not know the
\* background tasks: main returns and the runtime cancels them.
Exit_AwaitsTasks ==
  /\ server = "draining"
  /\ \A c \in Challenge : ~CreatorActive(c)
  /\ \A h \in Callback : ~CallbackActive(h) /\ ~TaskActive(h)
  /\ ProcessEnds
  /\ UNCHANGED <<granted, creator, callback>>

Exit ==
  /\ server = "draining"
  /\ \A c \in Challenge : ~CreatorActive(c)
  /\ \A h \in Callback : ~CallbackActive(h)
  /\ ProcessEnds
  /\ UNCHANGED <<granted, creator, callback>>

\* SIGTERM or SIGKILL, a crash of the host, an abort: handlers die as well.
Crash ==
  /\ server # "stopped"
  /\ ProcessEnds
  /\ creator' = [c \in Challenge |->
        IF CreatorActive(c)
        THEN [creator[c] EXCEPT !.pc = "dropped", !.age = 0] ELSE creator[c]]
  /\ callback' = [h \in Callback |->
        IF CallbackActive(h)
        THEN [callback[h] EXCEPT !.pc = "dropped"] ELSE callback[h]]
  /\ UNCHANGED granted

\* build_state starts from two empty maps.
Start ==
  /\ server = "stopped"
  /\ challenges' = [c \in Challenge |-> Absent]
  /\ results' = [c \in Challenge |-> Absent]
  /\ server' = "serving"
  /\ UNCHANGED <<granted, creator, callback, task>>

-----------------------------------------------------------------------------
Init ==
  /\ AppStateInit
  /\ OAuthInit
  /\ creator = [c \in Challenge |-> NoRequest]
  /\ callback = [h \in Callback |-> NoCallback]
  /\ task = [h \in Callback |-> NoTask]
  /\ server = "serving"

CreatorStep(c) ==
  \/ ChallengeGithub(c) \/ CreateChallenge(c) \/ CreateSlot(c)
  \/ Authorize(c) \/ DropCreator(c)

CallbackStep(h) ==
  \/ ReceiveCallback(h) \/ Consume(h) \/ ExchangeAnswered(h)
  \/ RecordFailure(h) \/ MarkOauthComplete(h) \/ SpawnVerification(h)
  \/ DropCallback(h)

TaskStep(h) == RunVerification(h) \/ TaskPanics(h) \/ ReportOutcome(h)

ProcessStep == CtrlC \/ Exit \/ Crash \/ Start

Next ==
  \/ \E c \in Challenge : CreatorStep(c)
  \/ \E h \in Callback : CallbackStep(h) \/ TaskStep(h)
  \/ Tick
  \/ ProcessStep

Spec == Init /\ [][Next]_vars

-----------------------------------------------------------------------------
\* Types, and what the states of the three processes have in common.

\* Every variable has its type: in particular a stored result is a whole flow
\* status, and a finished proof names the session by its derived address
\* (FlowEntry and VerifyResponse).
TypeOK ==
  /\ AppStateTypeOK
  /\ OAuthTypeOK
  /\ creator  \in [Challenge -> Creator]
  /\ callback \in [Callback -> CallbackRequest]
  /\ task     \in [Callback -> Task]
  /\ server   \in {"serving", "draining", "stopped"}

-----------------------------------------------------------------------------
\* Safety.

\* A challenge is single-use: however many callbacks race for it or replay it,
\* at most one is ever handed the pending challenge (consume_challenge).
SingleUse ==
  \A g, h \in Callback :
    /\ g # h
    /\ callback[g].pending # Absent
    /\ callback[h].pending # Absent
    => callback[g].chal # callback[h].chal

\* A proof served for a challenge is made out to the key and the wallet of the
\* request that created it, and to the GitHub account that accepted at its
\* authorization URL: not to those of another tab, another state parameter or
\* another code (the pubkey check of callback_github, PKCE, run_verification).
ProofBoundToRequest ==
  \A c \in Challenge :
    results[c] # Absent /\ results[c].status.phase = "complete" =>
      /\ granted[c] # Absent
      /\ results[c].status.proof = [user    |-> granted[c].user,
                                   session |-> SessionAddress(creator[c].pubkey),
                                   wallet  |-> creator[c].wallet]

\* As long as a challenge can still be used, a poll of its id is told to wait:
\* the two locks of create_challenge, the sweeps of other requests and the two
\* separate TTLs never make a usable challenge read as unknown.
UsableChallengeReadsPending ==
  \A c \in Challenge :
    /\ creator[c].pc = "responded"
    /\ challenges[c] # Absent
    /\ ~Expired(challenges[c])
    => StatusJson(c) = Waiting

\* What a callback that was handed the challenge has answered its popup fixes what
\* polls of the challenge can still read.  A failure it recorded is what they read.
\* After the page that confirms authorization they read what the flow has come to,
\* and never that the claim waits.  Only a refusal that consumed the challenge, for
\* its age or its key, is told to the popup alone: polls read that the claim waits,
\* until they read nothing (see PendingMeansRunning); never an outcome.
PollFollowsAnswer ==
  \A h \in Callback :
    callback[h].pc = "done" /\ callback[h].pending # Absent =>
      LET read == StatusJson(callback[h].chal) IN
      \/ read = Absent
      \/ callback[h].resp \in {"failed_page", "bad_gateway"} /\ read = Failed
      \/ /\ callback[h].resp = "confirmed_page"
         /\ read \in {OauthComplete, Failed, Complete(ProofOf(h))}
      \/ callback[h].resp \in {"gone", "bad_request"} /\ read = Waiting

\* With CHALLENGE_TTL_SECS = 0 every poll reads unknown, no callback gets past the
\* expiry check, and either map holds at most what the last request put there.
\* Each of the four comparisons with the TTL has to have its boundary on the right
\* side for this: status_json, callback_github, and the two in create_challenge.
ZeroTtlKeepsNothing ==
  TTL = 0 =>
    /\ \A c \in Challenge : StatusJson(c) = Absent
    /\ \A h \in Callback : task[h].pc = "none"
    /\ \A c, d \in Challenge : challenges[c] # Absent /\ challenges[d] # Absent => c = d
    /\ \A c, d \in Challenge : results[c] # Absent /\ results[d] # Absent => c = d

-----------------------------------------------------------------------------
\* The inductive invariant behind SingleUse and ProofBoundToRequest.

\* Nothing is known of a challenge before its request has stored it, and no
\* result, no code and no callback before its request was answered.
KnownOnceAnswered ==
  /\ \A c \in Challenge :
       /\ creator[c].pc \in {"minted", "stored", "responded"} =>
            creator[c].pubkey \in Pubkey /\ creator[c].wallet \in Wallet
       /\ creator[c].pc \in {"idle", "rejected", "minted"} => challenges[c] = Absent
       /\ creator[c].pc # "responded" => results[c] = Absent /\ granted[c] = Absent
  /\ \A h \in Callback :
       /\ callback[h].chal # Absent => creator[callback[h].chal].pc = "responded"
       /\ callback[h].pc = "consuming" =>
            callback[h].chal # Absent /\ callback[h].pending = Absent

\* A pending challenge holds what its request asked for, and the verifier that
\* was drawn with it.
HoldsRequest(pending, c) ==
  /\ pending.pubkey = creator[c].pubkey
  /\ pending.wallet = creator[c].wallet
  /\ pending.verifier = GenerateCodeVerifier(c)

StoredAsRequested ==
  \A c \in Challenge : challenges[c] # Absent => HoldsRequest(challenges[c], c)

\* A code was announced with the code challenge of its own authorization URL.
CodesAnnounced ==
  \A c \in Challenge :
    granted[c] # Absent =>
      granted[c].code_challenge = CodeChallenge(GenerateCodeVerifier(c))

\* A callback holds the pending challenge it took out of the map, and no other
\* callback does.
HeldOnce ==
  /\ \A h \in Callback :
       callback[h].pending # Absent =>
         /\ callback[h].chal # Absent
         /\ challenges[callback[h].chal] = Absent
         /\ HoldsRequest(callback[h].pending, callback[h].chal)
  /\ SingleUse

\* What a callback has established by the time it exchanges its code, and by
\* the time it has a token.
CheckedBeforeExchange ==
  \A h \in Callback :
    /\ callback[h].pc = "exchanging" \/ callback[h].token # Absent =>
         /\ callback[h].pending # Absent
         /\ callback[h].pubkey = callback[h].pending.pubkey
    /\ callback[h].token # Absent =>
         /\ granted[callback[h].chal] # Absent
         /\ callback[h].token = granted[callback[h].chal].user
    /\ callback[h].pc \in {"marking", "spawning"} \/ task[h].pc # "none" =>
         callback[h].token # Absent
    /\ callback[h].pc \in {"idle", "consuming", "exchanging"} => callback[h].token = Absent

\* A task reports a failure or the proof of its own callback.
TaskReportsOwn ==
  \A h \in Callback :
    /\ task[h].pc \in {"finishing", "reported"} =>
         task[h].result \in {Failed, Complete(ProofOf(h))}
    /\ callback[h].pc = "failing" =>
         callback[h].chal # Absent /\ callback[h].pending # Absent

\* The conjunction that every step preserves: where each part of a proof comes
\* from, at every point between the request and the result.
Binding ==
  /\ KnownOnceAnswered
  /\ StoredAsRequested
  /\ CodesAnnounced
  /\ HeldOnce
  /\ CheckedBeforeExchange
  /\ TaskReportsOwn
  /\ ProofBoundToRequest

IInv == TypeOK /\ Binding

-----------------------------------------------------------------------------
\* Action properties.

\* An outcome is final: no later step of any request replaces a completed or
\* failed result, which only goes away once it has expired or the process ends.
\* In particular the handler's own oauth_complete never overtakes the task.
OutcomeNeverRewritten ==
  [][\A c \in Challenge :
       results[c] # Absent /\ Terminal(results[c].status) =>
         \/ results'[c] # Absent /\ results'[c].status = results[c].status
         \/ results'[c] = Absent /\ (results[c].age >= TTL \/ server' = "stopped")]_vars

\* The sweep reclaims: when a challenge request is answered, no expired result
\* of another challenge is left, so the map is bounded by the flows that
\* changed within a TTL and not by all there ever were (create_challenge).
SweepReclaims ==
  [][\A c \in Challenge :
       creator[c].pc # "responded" /\ creator'[c].pc = "responded" =>
         \A d \in Challenge \ {c} :
           results'[d] # Absent => results'[d].age < TTL]_vars

-----------------------------------------------------------------------------
\* The abstract specification, implemented.

\* The callback that was handed challenge c, if there is one.
Holders(c) == {h \in Callback : callback[h].chal = c /\ callback[h].pending # Absent}

\* How far callback h has taken its claim.
Progress(h) ==
  CASE task[h].pc = "reported" -> task[h].result.phase
    [] task[h].pc # "reported" /\ callback[h].resp = "confirmed_page" ->
         "oauth_complete"
    [] callback[h].pc = "done" /\ callback[h].resp \in {"failed_page", "bad_gateway"} ->
         "failed"
    [] OTHER -> "waiting_for_authorization"

\* How far a claim has got, read off the requests that have worked on it and
\* not off the results map.
StageOf(c) ==
  IF creator[c].pc # "responded" THEN "unopened"
  ELSE IF Holders(c) = {} THEN "waiting_for_authorization"
  ELSE Progress(CHOOSE h \in Holders(c) : TRUE)

Lifecycle ==
  INSTANCE ClaimLifecycle WITH
    stage <- [c \in Challenge |-> StageOf(c)],
    idle  <- [c \in Challenge |-> IF results[c] = Absent THEN TTL
                                                        ELSE results[c].age]

\* The server keeps the promise of ClaimLifecycle: claims only move forward, a
\* stage is kept for TTL after it was reached, neither longer nor shorter
\* whatever other clients do, and only a restart loses one early.
ImplementsLifecycle == Lifecycle!LifecycleSpec

\* A poll that reads anything reads the stage the claim has really got to.
PollReadsStage ==
  \A c \in Challenge :
    StatusJson(c) # Absent => StatusJson(c).phase = StageOf(c)

-----------------------------------------------------------------------------
\* Liveness.

\* What moves a handler or a task from one await to the next: tokio runs every
\* task that is ready.
HandlerRuns(h) ==
  Consume(h) \/ RecordFailure(h) \/ MarkOauthComplete(h) \/ SpawnVerification(h)

\* What every liveness property rests on: handlers that can go on do, and main
\* returns when axum::serve does.  Of the environment, GitHub answers or hangs up:
\* the code sets no timeout that would make it so.  Nothing is asked of the notary,
\* of any task or of the clock; a property that needs them says so.
Fairness ==
  /\ WF_vars(Exit)
  /\ \A c \in Challenge : WF_vars(CreateChallenge(c) \/ CreateSlot(c))
  /\ \A h \in Callback : WF_vars(HandlerRuns(h)) /\ WF_vars(ExchangeAnswered(h))

FairSpec == Spec /\ Fairness

\* A task goes on, and its notary answers or hangs up; of the latter the code
\* makes nothing sure either.
TaskFairness(h) == WF_vars(ReportOutcome(h)) /\ WF_vars(RunVerification(h))

\* A callback that started the code exchange gets its claim to an outcome the
\* client can read, even when the flow outlives the TTL of its own slot and a
\* sweep takes the slot away, if its task goes on: unless the popup hangs up, or
\* the task dies with a panic or with the process.
AuthorizedFlowConcludes ==
  \A h \in Callback, c \in Challenge :
    TaskFairness(h) =>
      (callback[h].pc = "exchanging" /\ callback[h].chal = c ~>
         \/ StatusJson(c) # Absent /\ Terminal(StatusJson(c))
         \/ callback[h].pc = "dropped"
         \/ task[h].pc = "dead")

\* Nothing is served for ever, if time passes: reads do not extend the TTL, so once
\* no request touches a challenge its status becomes unreadable and stays so.
EverythingExpires ==
  WF_vars(Tick) => \A c \in Challenge : <>[](StatusJson(c) = Absent)

\* A graceful shutdown ends: no flow that is still proving, and no notary that
\* never answers, holds it up (main.rs:33-38).
DrainEnds == server = "draining" ~> server = "stopped"

-----------------------------------------------------------------------------
\* What the documents say and the code does not do.

\* README.md:79: a poll is answered 202 while proving (and result.rs:28: while
\* the flow is running).
ProvingReads202 ==
  \A h \in Callback :
    task[h].pc = "running" => ResultGithub(callback[h].chal) = 202

\* state.rs:37: FlowStatus::Pending means that the flow is still running; the
\* least this says is that the challenge can still be used or a request or a
\* task is at work on it.
PendingMeansRunning ==
  \A c \in Challenge :
    creator[c].pc = "responded" /\ ResultGithub(c) = 202 =>
      \/ challenges[c] # Absent
      \/ \E h \in Callback : callback[h].chal = c /\ (CallbackActive(h) \/ TaskActive(h))
=============================================================================
