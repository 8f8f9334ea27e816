# A TLA+ model of libid-server-rs

The server lets a user claim a GitHub handle: it runs GitHub's OAuth flow, proves
through an MPC-TLS session with a notary what GitHub answered, and hands the
finished proof to whoever polls for it. This directory holds TLA+ modules that
model the server, TLC configurations that check them on small instances, and
theorems checked by TLAPS. Paths below are relative to the repository.

## The system

| Component | State | Operations | Talks to |
|---|---|---|---|
| Application state, `src/state.rs` | two hash maps, `challenges` and `results`, each behind its own `RwLock`; an `Instant` in each entry | `create_challenge`, `consume_challenge`, `set_status`, `status_json` | every route, every background task |
| Challenge route, `src/routes/challenge.rs` | none of its own | validate key and wallet, mint an id, build the authorization URL, `create_challenge` | state, OAuth client |
| Callback route, `src/routes/callback.rs` | locals across four awaits | parse the state parameter, consume, check, exchange the code, record, spawn | state, GitHub, background task |
| Background task, `src/routes/callback.rs` | what it captured from the handler | connect to the notary, run the proving flow, record the outcome | state, notary, GitHub |
| Proving flow, `src/flow/mod.rs` | the prover's view of the session, the notary's response | derive the session address, prove, exchange, verify, present, assemble | notary, GitHub |
| Result route, `src/routes/result.rs` | none | `status_json` to a status code | state |
| OAuth client, `src/oauth.rs` | none | verifier and code challenge, authorization URL, token exchange | GitHub |
| Process, `src/main.rs`, `src/lib.rs` | serving, draining or stopped | start with empty maps, graceful shutdown | all |
| Gmail relay, `src/routes/gmail.rs` | none | check `APP_URL`, serve a static page | browser |
| Router and CORS, `src/routes/mod.rs` | none | route table, origin predicate, health | browser |
| Popup page, `src/routes/callback.html` | none | post a message to the opener, close | browser |
| Platform, configuration, errors | constants | parse an account, read the environment | all |

Requests share nothing but the two maps. Their interaction is entirely through the
order in which they take the two locks, through the sweeps each new challenge makes
of everybody's entries, and through time.

What is hard here:

- *Two locks, one after the other.* Between the two halves of `create_challenge`
  other requests run, sweep and read.
- *Check after consume.* A callback removes the challenge first and then finds out
  whether it may go on; three of its early returns leave the slot pending.
- *Two writers of one slot.* The handler writes `oauth_complete`, the task it spawns
  writes the outcome; both are upserts.
- *Two TTLs.* A challenge lives for the TTL from its creation, a result for the TTL
  from its last change, and the flow in between has no timeout.
- *Dropped handlers, panicking tasks, a drain that does not wait for tasks.*
- *Mixed-up redirects.* Everything a callback receives went through a browser, and
  may be a replay or a combination of two flows.
- *Two channels to the web app.* The popup's message and the polled status arrive in
  any order, and some answers reach only one of them.
- *Settings with edges.* Slashes, stars, empty items and hosts that resemble others
  decide at startup what works for the life of the process.
- *A response that has to be checked in about a dozen ways*, each a single line, and
  none of which a correct notary ever exercises.

What makes each part correct is listed with the runs and theorems below; the full list
of hazards, each at its line, is in `PROJECT.json`.

## The modules

| Module | What it is | Code |
|---|---|---|
| `AppState` | the two maps and their critical sections | `src/state.rs` |
| `OAuth` | state parameter, PKCE, code exchange, and GitHub's side of it | `src/oauth.rs`, `src/routes/challenge.rs` |
| `HandleClaim` | the three routes, the background task, time, hang-ups, the process; extends `OAuth`, which extends `AppState` | `src/routes/*.rs`, `src/main.rs` |
| `ClaimLifecycle` | the abstract specification: what a client may rely on about one challenge | implemented by `HandleClaim` |
| `ProofFlow` | one run of the proving flow against an arbitrary notary, with the error each check ends in | `src/flow/mod.rs`, `src/types.rs`, `src/platform.rs`, `src/error.rs` |
| `Transcript` | leaves, Merkle tree and digest, without collisions; `ProofFlow` extends it | external libraries |
| `ClaimFlow` | both together: `HandleClaim` with one background task replaced by a run of `ProofFlow` | `run_verification` in `src/routes/callback.rs` |
| `ClaimUi` | `HandleClaim` with the popup page and the web app that polls | `src/routes/callback.html`, external app |
| `Deployment` | settings to startup, and the answers that depend on settings alone: routes, CORS, Gmail relay | `src/config.rs`, `src/lib.rs`, `src/main.rs`, `src/routes/mod.rs`, `src/routes/gmail.rs` |
| `MCHandleClaim`, `MCProofFlow`, `MCClaimFlow`, `MCDeployment` | instances for TLC | |
| `HandleClaimProofs` | theorems about `HandleClaim`: types, single use, binding | |
| `PollProofs`, `LifecycleProofs` | on top of these: what a poll and a popup are told, and that `HandleClaim` implements `ClaimLifecycle` | |
| `ProofFlowProofs` | theorems about `ProofFlow` | |
| `ClaimFlowProofs`, `ClaimUiProofs` | theorems about the two compositions, from those about their parts | |
| `DeploymentProofs` | theorems about `Deployment`, and lemmas about texts | |

Definitions whose names carry a suffix (`ConsumeChallenge_Peek`,
`VerifyTlsHandshake_TwoFields`, ...) are deliberately wrong variants of the
definition below them. They are used by no specification; each exists to show that
some property would notice that mistake.

### How the model corresponds to the code

**Steps.** A step of a process runs from one await to the next. The critical sections
of `state.rs` contain no await and hold one lock, so each is one step; the only two
that follow each other inside one function are `StoreChallenge` and `OpenSlot`.
`MarkOauthComplete` and `SpawnVerification` are two steps although no await separates
them, since other threads run in between; for the same reason a handler cannot be
dropped there.

**The maps.** A function on all challenge ids with `Absent` for a key that is not in
the hash map. `OpenSlot` and `StoreChallenge` include the sweep that precedes the
insertion. `SetStatus` is an upsert, as `HashMap::insert` is.

**Time.** An `Instant` is kept as its age in ticks, up to TTL. The code only compares
`elapsed().as_secs()` with the TTL, so ages beyond it make no difference. The creation
instant of a challenge is taken before the first lock and keeps ageing while the
request waits (`creator[c].age`); an expired challenge can thus be stored.

**Callback requests.** `ReceiveCallback` takes a truncated or complete copy of the
state parameter of any URL handed out, its key possibly another one, with an error, no
code, or any code GitHub has issued, for this or another challenge. Each callback
request is one element of `Callback`; replays are several of them with the same
parameters. `Consume` stands for lines 75 to 129 of `callback.rs` up to the next await;
its disjuncts are the early returns in their order.

**The flow inside the claim.** `HandleClaim` takes a run of the proving flow as one
step that ends in a failure, in a panic, or in a proof made out to the task's own
account, key and wallet. `ProofFlow` opens that step: it lets the notary send any
response of a set, and shows that a proof that comes out is about the run's own
session (`ProofOfOwnSession`). Only keys that are curve points reach a proof in
either; no check in the challenge route keeps the others out. `ClaimFlow` puts the two
together: the task of one callback, `Traced`, runs the steps of `ProofFlow` on what it
captured (`Captured`), starting with the connection to the notary, while every other
request, the clock and the process go on. Since `Traced` may be any callback, what
holds of its task holds of each. The process may stop in the middle of a run; the run's
variables then stay as they are.

**Verification.** `Objection` says for each error what in a response, or in the prover's
own session, is wrong, and `CheckOrder` in which order `verify` and `verify_common_checks`
look; the first objection is the error. The text of the login is what
`find_json_snippet_range` cuts out of the body (`session.snippet`): as the notary reveals
it, or nothing, which `verify` refuses with `MpcTlsFailed` after the signature and before
it looks for the leaf. The address recovered from a signature over another digest is
nobody's of interest (`Nobody`). The request line is its words: `EndpointOf` splits it
as the code does, from both ends.

**The web app.** `ClaimUi` adds the app as README.md:14-33 describes it: it polls its
challenge once a tick from the answer of the challenge route until it reads something
other than `202`, and hears what the popup page posts. The page's script is a step of
its own (`NotifyOpener`): a message arrives late, or never.

**Settings.** A text in `Deployment` is a sequence of tokens; a star, a dot, a slash
and a space are tokens by themselves, so prefixes, suffixes and trimming are what they
are on characters. The list of origins is a sequence of the texts between the commas.
`Parse`, `BuildState` and `Bind` are the three points at which the process may refuse
to start.

**Data.** Keys, wallets, ids and accounts are model values; a hex string that is valid
is a member of a set. A verifier is named by the challenge it was drawn for, and the
code challenge is a hash of it, a different value. A hash is a record of what was
hashed, and a signature a record of who signed what: no collisions, no forgeries. A
path in a Merkle tree is the tree and a position. The recovery byte of a signature has
three classes: raw, EVM, or anything else, on which `solidity_sig` panics; whether the
recovery before it refuses such a byte is left open.

**External.** GitHub (`Authorize`, `IssueCode`, `TokensFor`), hyper dropping a handler,
the clock, the notary, the TLSNotary and hash libraries, and the verifier contract
(`ContractAccepts`) are modelled from how the code uses them. GitHub issues one code
for each authorization URL and redeems it only with the verifier that was announced.
It may redeem a code twice: the model is more permissive than GitHub there.

## The runs

| Run | Instance | Shows |
|---|---|---|
| `claim_binding` | 2 challenges, 2 callbacks, 2 keys, 2 wallets, 2 accounts, TTL 1 | `SingleUse`, `ProofBoundToRequest`, and the invariant `Binding` that the proofs use |
| `claim_lifecycle` | 2 challenges, 2 callbacks, 1 valid key and 1 that is not, TTL 2 | `TypeOK`, `UsableChallengeReadsPending`, `PollFollowsAnswer`, `PollReadsStage`, `OutcomeNeverRewritten`, `SweepReclaims`, `ImplementsLifecycle` |
| `zero_ttl` | the same with TTL 0 | `ZeroTtlKeepsNothing` |
| `claim_liveness` | 2 challenges, 1 callback, TTL 1, with fairness | `AuthorizedFlowConcludes`, `EverythingExpires`, `DrainEnds` |
| `proof_flow` | 2 accounts, 2 keys, a notary with some 70,000 responses, an answer whose login is found or not | `TypeOK`, `AcceptedOnChain`, `ProofOfOwnSession`, `HonestNotaryAccepted`, `OtherDeploymentIsNamed` |
| `claim_flow` | 2 challenges, 1 callback, 2 keys, 2 wallets, 2 accounts, a notary with one part wrong at a time | `ServedProofIsGood`, `ImplementsHandleClaim` |
| `claim_ui` | 1 challenge, 2 callbacks, a valid key and one that is not, TTL 2, with an app that polls | `OneStory`, `OutcomeIsNotMissed`, `PollingEnds` |
| `deployment` | 112 settings, each with one value at an edge; every route and method, 8 origins | `OriginsAsListed`, `RedirectReachesCallback`, `RelayGoesToAppHost` |
| `proving_reads_202` | 1 challenge, 1 callback, TTL 1 | a counterexample, see below |
| `pending_means_running` | the same | a counterexample, see below |
| `wrong_contract` | the instance of `proof_flow` | a counterexample, see below |
| `relay_path` | the instance of `deployment` | a counterexample, see below |

*What the properties say.*

- `SingleUse`: of all callbacks for a challenge, one at most is ever handed it.
- `ProofBoundToRequest`: a completed result names the account that accepted at this
  challenge's URL, and the key and wallet of the request that created it.
- `UsableChallengeReadsPending`: while a challenge can be used, a poll reads waiting.
- `PollFollowsAnswer`: the answer that a callback has given its popup fixes what polls of
  its challenge can still read, besides nothing once the slot has gone. After a failure
  that was recorded (the failure page, `502`) they read failed; after the confirmation
  page what the flow has come to. A refusal that has consumed the challenge (`410` for
  its age, `400` for its key) is told to the popup alone: a poll goes on reading that the
  claim waits, never an outcome. There the two channels do differ, which is what
  `pending_means_running` shows.
- `PollReadsStage`: what a poll reads is how far the requests of the claim have really
  got, or nothing.
- `OutcomeNeverRewritten`: an outcome is replaced by nothing, and goes away only when
  it has expired or the process ends.
- `SweepReclaims`: an answered challenge request leaves no expired result behind.
- `ImplementsLifecycle`: `HandleClaim` implements `ClaimLifecycle` under the mapping
  that reads the stage of a claim off the requests at work on it (`StageOf`) and its
  idle time off the results map. So claims only move forward, a stage can be read for
  the TTL and exactly that long whatever other clients do, and only a restart loses it
  early.
- `ZeroTtlKeepsNothing`: with a TTL of zero nothing can be read, no callback gets past the
  expiry check, and a new request leaves nothing of the others in either map. The code
  compares with the TTL in four places, the model in four operators (`KeepsChallenge`,
  `KeepsResult`, `Unreadable`, `Expired`); moving the boundary of any one of them breaks
  a part of the property.
- `AuthorizedFlowConcludes`: a callback that started its exchange brings its claim to
  an outcome that can be read, even if its slot expires or is swept meanwhile.
- `EverythingExpires`: in the end nothing is served any more.
- `AcceptedOnChain`, `ProofOfOwnSession`: whatever the notary sends, a proof that is
  handed out is one the contract accepts, about the run's own session.
- `HonestNotaryAccepted`: a correct response is refused by no check of `verify`,
  `verify_common_checks` or the assembly. Its time has to be within the drift on either
  side of this server's clock when it is verified (`InTime`, stated apart from the check
  `Fresh`), and the login has to be found in the body; a body that spells it otherwise is
  refused, see `FindSnippet`.
- `OtherDeploymentIsNamed`: a response that is correct and in time, but signed for another
  chain or contract, fails the verification as an error of the signature, never as
  anything else and never as a proof.
- `ServedProofIsGood`: when a poll reads `200`, the proof behind it is one the contract
  accepts, for the request and the authorization of this very challenge. It needs both
  models: what the flow checks, and what the callback hands it.
- `ImplementsHandleClaim`: with the flow opened, every step of the server is still a step
  of `HandleClaim`, so what is shown there of the task's one step holds of the real one.
- `DrainEnds`: a graceful shutdown ends, whatever the background tasks and the notary do.
- `OneStory`: what the popup posted and what a poll has read never contradict each other.
- `OutcomeIsNotMissed`: an app that polls every tick reads an outcome before it expires.
- `PollingEnds`: polling ends although flows may hang, and without any assumption about
  the server's own progress: expiry alone is enough.
- `OriginsAsListed`: an origin that holds no star, as no browser's does, is allowed exactly
  if an item of the operator's list, the spaces around it left out (`TextAt`), allows it
  read as a glob, a star standing for any text (`GlobMatches`), or names it after its "*.".
- `RedirectReachesCallback`: the redirect URI that GitHub is told is on a route.
- `RelayGoesToAppHost`: the relay's target has the scheme and host of `APP_URL` and the
  fixed path `/auth/gmail/callback`, over TLS or on this machine, or there is none. It says
  nothing of the path of `APP_URL`, which the code drops, see `relay_path`.

*Why the bounds are enough.* Two challenges and two callbacks are what a race, a
replay, a mix-up of two flows, or a sweep by another client needs; each property
relates at most two of either. Two keys, wallets and accounts are needed to tell
whose proof it is, and only `claim_binding` asks that. A TTL of two ticks gives a
fresh, an ageing and an expired entry. The binding invariant is proved for all of these
bounds. In `proof_flow` a response is right or wrong in each part independently, with
eight sequences of leaves for each account, including missing, swapped and repeated ones;
a clock of two ticks and a drift of as many give timestamps that are stale, fresh, ahead and
too far ahead.
In `claim_flow` one part of the response is wrong at a time, since `proof_flow` has the
combinations; one callback is enough, as the others only take challenges away, which a
sweep, a restart and a hang-up do too. In `claim_ui` a TTL of two ticks is two polling
intervals, the least for which `OutcomeIsNotMissed` says anything; two callbacks race for
the one challenge. `deployment` varies one setting at a time: none is read together with
another. Its patterns have a star in each place the code distinguishes and in those it
does not; an `APP_URL` has a path or has none.
Symmetry is used where the members of a set are alike in the constants and no liveness
is checked.

`proof_flow` and `deployment` do not check for deadlock: a run that has returned takes
no further step, nor does a process that refused to start. The other runs do, and the
process never stops for good.

*Fairness.* `FairSpec` asks that a handler that can go on does, since tokio polls whatever
is ready, and that main returns when `axum::serve` does. Of the environment it asks that
GitHub answers or hangs up: the code sets no timeout, and a handler that waits for GitHub
holds a drain. Nothing is asked of users, browsers, the crash or the restart, and for
`DrainEnds` nothing of the notary, of any task or of the clock either.
`AuthorizedFlowConcludes` names as its premise that the task goes on and that the notary
answers or hangs up (`TaskFairness`); the code sets no timeout there either, so without
that assumption about the environment the property does not hold. Its exceptions, a popup
that hangs up, a panic and the end of the process, are real: each leaves the claim without
an outcome. The premise of `EverythingExpires` is that time passes. `UiFairSpec` asks only
that time passes and that the app polls; a tick waits for the app's poll, which is
what it means that the app polls once a tick.

### Where the code and its documentation differ

- `proving_reads_202`. The README says a poll reads `202` while proving. The
  TTL of a result counts from its last change, which for a running flow is
  `oauth_complete`, and a flow that takes longer than that reads `404` until its
  outcome arrives and makes the entry readable again.
- `pending_means_running`. `FlowStatus::Pending` is documented as a flow that is still
  running. After a callback whose key did not match, the challenge is consumed, nothing
  runs and nothing can be retried, and a poll reads `202` until the TTL has passed.
- `wrong_contract`. README.md:99, `src/config.rs:69-72` and `tests/proof_flow.rs:142-144`
  say that a `VERIFIER_CONTRACT_ADDRESS` of the wrong contract shows on-chain: every bind
  reverts with a notary-signature failure. The flow checks the notary's signature over a
  digest with the server's own setting, so when the notary signs for the right contract
  the flow itself fails with `NotarySignatureMismatch`, and there is no proof to bind.
  `OtherDeploymentIsNamed` states what the code does.
- `relay_path`. README.md:80, `src/config.rs:36-37` and `src/routes/gmail.rs:6-7` say that
  the relay forwards to `{APP_URL}/auth/gmail/callback`. The code replaces the path:
  with an `APP_URL` of `https://host/app` the target is `https://host/auth/gmail/callback`.
  `RelayGoesToAppHost` states what the code does.

## The theorems

Every safety property that a run checks, invariant, action property or refinement, is
also a theorem, for every value of the constants that satisfies the named assumptions.
TLC evaluates the assumptions in each run:

- `TTLAssumption`: the TTL is a natural number. `AbsentAssumption`, `ResponseAssumption`,
  `CodeAssumption`, `EndpointAssumption`: `Absent` is not a value of the domains it is
  compared with. `InputAssumption`: points on the curve are compressed keys, which are
  keys.
- `FlowAssumption`, `ShapeAssumption`: clocks are numbers, responses and handshakes have
  their fields, the leaves are a sequence. `NotaryAssumption` and the `ShapeAssumption` of
  `ClaimFlow` say the same of its constants.
- `AccountAssumption`: `Traced` is a callback, and an account is what its login and id
  say, which are all of it that the code ever sees.
- `ConfigAssumption`, `OriginAssumption`: settings and origins are texts, `APP_URL` is one
  URL, one that does not parse, or none.

Before they were proved, TLC was asked on the instances of the runs whether the
invariants below hold.

**Binding** (`HandleClaimProofs`, `PollProofs`). `TypeCorrect`, `ChallengesAreSingleUse`,
`ProofsAreBound`, `BindingHolds`. None of these is inductive alone. The invariant `IInv`
is `TypeOK` and `Binding`, which follows a claim from its request to its result:

1. nothing is known of a challenge before its request has been answered
   (`KnownOnceAnswered`);
2. the map holds what the request asked for, and the verifier drawn with it
   (`StoredAsRequested`);
3. GitHub was told the code challenge of that verifier (`CodesAnnounced`);
4. a callback that was handed the challenge holds exactly that, the map no longer has it,
   and no other callback does (`HeldOnce`);
5. from the exchange on its key is the stored one, and a token belongs to the account
   that accepted at this challenge's URL (`CheckedBeforeExchange`: this is where PKCE is
   used, since the verifier is the challenge's own and fits no other code);
6. a task reports a failure or its callback's own proof (`TaskReportsOwn`);
7. hence a completed result is the proof of its challenge (`ProofBoundToRequest`).

**Polls while a challenge waits** (`PollProofs`). `UsableIsPending` and `ZeroTtlIsInert`,
both on top of `IInv`. For the first, the slot of a usable challenge is shown to be
untouched and no older than the challenge (`SlotOutlives`): it was opened later, both age
alike, a callback writes only slots of challenges that it has taken out of the map, and
so a sweep that takes the slot finds its challenge expired as well. For the second, no
callback leaves the expiry check but as done (`NothingRuns`), and either map has one entry
at most, since the sweep before an insertion takes away all there is (`AtMostOne`).

**The life of a claim** (`LifecycleProofs`). `PollsReadTheStage`, `PollsFollowAnswers`,
`OutcomesAreFinal`, `SweepsReclaim` and the refinement `LifecycleIsImplemented`. The map
alone does not say how far a claim is, and the requests alone do not say what is served;
`StageInv` ties them: the answer a callback has decided on fits where it is in its handler
(`AnswersFit`), a slot says how far the one callback that holds its claim has got
(`SlotsFollow`), and a stopped process has nothing left (`StoppedIsStill`). From it each
step of the server is shown to leave every stage and every slot alone, to age all slots
alike, to sweep slots that have expired, or to move one claim to a next stage while it
writes its slot (`NextStage`); that is one step of `ClaimLifecycle` in each case.

**The proving flow** (`ProofFlowProofs`). `FlowTypeCorrect`, `ProofsAreAccepted`,
`ProofsAreOwn`, `HonestNotaryIsAccepted`, `OtherDeploymentsAreNamed`. The invariant
`FlowInv` says that after the verification the response is about this session, host,
endpoint, chain and contract (`ResponseChecked`), whatever the clock does later; the
assembly then takes positions of the very leaves that were checked, and a path to a leaf
of a sequence verifies against its root (`PathVerifies`). In the other direction, each
of the fourteen entries of `CheckOrder` is shown to have no objection to a correct response
that is in time and whose login was found, and only the signature's to have one to such a
response for another deployment.

**The claim with its flow** (`ClaimFlowProofs`). `FlowIsImplemented` and
`ServedProofsAreGood`. The invariant `RunOfTask` says that the run of the flow was
started on what the task captured, and is no further than the task. So the theorem that
an accepted proof is of the run's own session, cited from `ProofFlowProofs`, makes the
end of the run the step that `HandleClaim` takes; and what `ProofsAreBound` says of the
task's proof holds of the one that was verified.

**The web app** (`ClaimUiProofs`). `ChannelsTellOneStory` and `OutcomesAreNotMissed`. The
invariant `UiInv` is `StageInv`, and: what an app has heard or read, the callback that
holds the claim has answered (`NewsHasSource`, `PagesAreHeld`), and an outcome that the
app has still to read is there and at most one tick old, unless the process has ended
(`OutcomeWaits`).

**Settings** (`DeploymentProofs`). `OriginsAreAsListed`, `RedirectsReachTheCallback`,
`RelaysGoToTheAppHost`. The invariant `Settled` says only that the process answers from the
settings it was started with. The work is in the lemmas about texts: the largest of a set
of positions exists (`MaxOfPositions`, from the well-foundedness of `<`), trimming leaves
what lies between the spaces (`TrimmedText`), prefixes and suffixes token by token, and
each callback path matches one route only. Here patterns and origins may have any length.

*Only model-checked:* the four liveness properties `AuthorizedFlowConcludes`,
`EverythingExpires`, `DrainEnds` and `PollingEnds`, since liveness under fairness is out of
the prover's reach; and the four counterexamples. By `FlowIsImplemented` the theorems about
`HandleClaim` hold of `ClaimFlow` as well.

## Not modelled

- Texts: the page of the Gmail relay and its headers, error messages, logging, defaults of
  settings, the OAuth URLs.
- Serialization of results (a value that fails to serialize would read as unknown; no
  field of `VerifyResponse` can fail).
- The wire format, the TLSNotary presentation's contents, HTTP request parsing: one
  outcome that succeeds and one that fails.
- A response body whose id is spelled otherwise than GitHub does. Its text is rebuilt
  from the number (`IdSnippet`) and would match no leaf, so such a run fails in the
  assembly. A login that is spelled otherwise is modelled: `FindSnippet` finds nothing, and
  `verify` refuses.
- `HEAD` requests, which axum answers with the handler of `GET`.
- What clap refuses at startup besides a `NOTARY_URL` that is none.
- A client that never finishes sending its request, and so holds a drain.
- Further platforms: the registry has one entry, and no behaviour depends on its shape.
- The image and CI.

## Plan

1. The core: `AppState`, `OAuth`, `HandleClaim`, `ClaimLifecycle`, their runs, and the
   binding theorem. *Done.*
2. The proving flow against an arbitrary notary, and its theorems. *Done.*
3. The composition of the claim and the flow, the web app and the popup, the drain, the
   settings and what depends on them. *Done.*
4. `UsableChallengeReadsPending` and `ZeroTtlKeepsNothing` as theorems. *Done.*
5. `PollReadsStage`, `PollFollowsAnswer`, `OutcomeNeverRewritten` and the refinement of
   `ClaimLifecycle` as theorems. *Done.*
6. `HonestNotaryAccepted` as a theorem on the invariant of the flow; the refinement of
   `HandleClaim` by `ClaimFlow`, and `ServedProofIsGood`. *Done.*
7. `OneStory`, `OutcomeIsNotMissed` and the properties of `Deployment` as theorems. *Done.*
8. The safety halves of the liveness properties, as far as they are properties of the
   code: that a claim which reached the exchange can only leave it for an outcome, a
   hang-up, a panic or the end of the process; that a draining process with nothing but
   tasks left can exit.
