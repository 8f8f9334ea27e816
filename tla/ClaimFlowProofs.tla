-------------------------- MODULE ClaimFlowProofs --------------------------
(***************************************************************************)
(* Theorems about ClaimFlow, for any number of requests, any notary and    *)
(* any interleaving of the traced task with them.                          *)
(*                                                                         *)
(* The argument: while the task runs, it runs with what it captured of a   *)
(* handler that is done and so no longer changes; the flow's own invariant *)
(* (ProofFlowProofs) then says whose proof the task reports.               *)
(***************************************************************************)
EXTENDS ClaimFlow, LifecycleProofs

FP == INSTANCE ProofFlowProofs WITH Account <- User

-----------------------------------------------------------------------------
\* The run of ClaimFlow is the run that ProofFlowProofs is about.

\* The two instances of ProofFlow have the same steps.
LEMMA SameSteps == Flow!Next => FP!Next
<1>1. Flow!DeriveSession => FP!DeriveSession
  BY DEF Flow!DeriveSession, FP!DeriveSession, Flow!Fail, FP!Fail, Flow!Proceed, FP!Proceed,
     Flow!Failed, FP!Failed, Flow!Outcome, FP!Outcome
<1>2. Flow!Prove => FP!Prove
  BY DEF Flow!Prove, FP!Prove, Flow!Fail, FP!Fail, Flow!Proceed, FP!Proceed,
     Flow!Failed, FP!Failed, Flow!Outcome, FP!Outcome, Flow!RequestLine, FP!RequestLine,
     Flow!FindSnippet, FP!FindSnippet, Flow!LoginSnippet, FP!LoginSnippet
<1>3. Flow!Exchange => FP!Exchange
  BY DEF Flow!Exchange, FP!Exchange, Flow!Fail, FP!Fail, Flow!Proceed, FP!Proceed,
     Flow!Failed, FP!Failed, Flow!Outcome, FP!Outcome
<1>4. Flow!Verify => FP!Verify
  BY DEF Flow!Verify, FP!Verify, Flow!Recovered, FP!Recovered,
     Flow!ExpectedDigest, FP!ExpectedDigest, Flow!FirstObjection, FP!FirstObjection,
     Flow!Verified, FP!Verified, Flow!Objection, FP!Objection, Flow!Fail, FP!Fail,
     Flow!Proceed, FP!Proceed, Flow!CheckOrder, FP!CheckOrder, Flow!ErrorKind, FP!ErrorKind,
     Flow!NotaryDigest, FP!NotaryDigest, Flow!VerifyTlsHandshake, FP!VerifyTlsHandshake,
     Flow!Field, FP!Field, Flow!Fresh, FP!Fresh, Flow!EndpointOf, FP!EndpointOf,
     Flow!Leaf, FP!Leaf, Flow!Root, FP!Root, Flow!IsNotary, FP!IsNotary,
     Flow!Failed, FP!Failed, Flow!Outcome, FP!Outcome
<1>5. Flow!BuildPresentation => FP!BuildPresentation
  BY DEF Flow!BuildPresentation, FP!BuildPresentation, Flow!Fail, FP!Fail,
     Flow!Proceed, FP!Proceed, Flow!Failed, FP!Failed, Flow!Outcome, FP!Outcome
<1>6. Flow!Assemble => FP!Assemble
  BY DEF Flow!Assemble, FP!Assemble, Flow!ExtractUser, FP!ExtractUser,
     Flow!FirstPosition, FP!FirstPosition, Flow!Leaf, FP!Leaf,
     Flow!IdSnippet, FP!IdSnippet,
     Flow!Failed, FP!Failed, Flow!Outcome, FP!Outcome, Flow!Panicked, FP!Panicked,
     Flow!Done, FP!Done, Flow!VerifyResponse, FP!VerifyResponse,
     Flow!RegistrationProof, FP!RegistrationProof, Flow!SessionAddress, FP!SessionAddress,
     Flow!SoliditySig, FP!SoliditySig, Flow!MerkleProof, FP!MerkleProof
<1>7. Flow!Tick => FP!Tick
  BY DEF Flow!Tick, FP!Tick
<1>. QED  BY <1>1, <1>2, <1>3, <1>4, <1>5, <1>6, <1>7 DEF Flow!Next, FP!Next

\* And they ask the same of a proof.
LEMMA SameContract == \A p : FP!ContractAccepts(p) => Flow!ContractAccepts(p)
BY DEF Flow!ContractAccepts, FP!ContractAccepts, Flow!NotaryDigest, FP!NotaryDigest,
   Flow!MerkleVerify, FP!MerkleVerify, Flow!Root, FP!Root, Flow!Leaf, FP!Leaf,
   Flow!LoginSnippet, FP!LoginSnippet, Flow!RevealedId, FP!RevealedId,
   Flow!UserInfoEndpoint, FP!UserInfoEndpoint

\* Whatever is assumed of a run holds here.
LEMMA RunAssumptions ==
  /\ MaxTime \in Nat /\ MaxDrift \in Nat
  /\ OnCurve \subseteq Pubkey
  /\ Absent \notin User
  /\ NotaryAddress \notin {Absent, Nobody}
  /\ FP!UserInfoEndpoint # Absent
  /\ \A hs \in Handshake : hs = [field \in FP!Field |-> hs[field]]
  /\ \A r \in Responses :
       LET proof == r.evm_proof
           sig   == proof.notary_signature IN
       /\ proof.handshake = [field \in FP!Field |-> proof.handshake[field]]
       /\ proof.leaves \in Seq({proof.leaves[i] : i \in DOMAIN proof.leaves})
       /\ proof.timestamp \in Nat
       /\ sig = [signer |-> sig.signer, v |-> sig.v, digest |-> sig.digest]
BY NotaryAssumption, ShapeAssumption, InputAssumption, AbsentAssumption
   DEF FP!UserInfoEndpoint, FP!Field

\* So the invariant of a run is kept by its steps.
LEMMA NextRunInv == FP!FlowInv /\ (Flow!Next \/ UNCHANGED flowVars) => FP!FlowInv'
<1>1. FP!FlowInv /\ [FP!Next]_(FP!vars) => FP!FlowInv'
  BY RunAssumptions, FP!NextFlowInv
<1>2. UNCHANGED flowVars => UNCHANGED FP!vars
  BY DEF flowVars, FP!vars
<1>. QED  BY <1>1, <1>2, SameSteps

-----------------------------------------------------------------------------
\* The task and its run.

\* Before it has a connection to the notary.
Unconnected ==
  /\ phase = "unconnected"
  /\ clock \in 0..MaxTime
  /\ session = Absent /\ response = Absent /\ outcome = Flow!Running

\* How far the run has got, by how far its task has: not begun, given up without a
\* connection, or a run for what the task captured; a result other than a failure
\* is the result of a complete run.
RunOfTask ==
  /\ task[Traced].pc = "none" => phase = "unconnected"
  /\ task[Traced].pc = "running" => outcome.result = "running"
  /\ task[Traced].pc \in {"finishing", "reported"} /\ task[Traced].result # Failed =>
       outcome.result = "complete"
  /\ \/ Unconnected
     \/ phase = "over" /\ outcome.result = "failed"
     \/ task[Traced].pc # "none" /\ claim = Captured /\ FP!FlowInv

\* Nothing that the rest of the server does changes what a task has captured, or
\* takes a task anywhere but to its start, its report or its end.
LEMMA TracedStays ==
  ASSUME StageInv, ServerStep
  PROVE  /\ task[Traced].pc # "none" => callback'[Traced] = callback[Traced]
         /\ \/ task'[Traced] = task[Traced]
            \/ task[Traced].pc = "none" /\ task'[Traced].pc = "running"
            \/ task[Traced].pc # "none" /\ task'[Traced].pc = "dead"
            \/ /\ task[Traced].pc = "finishing" /\ task'[Traced].pc = "reported"
               /\ task'[Traced].result = task[Traced].result
<1>. USE DEF StageInv
<1>1. Traced \in Callback /\ Next
  BY AccountAssumption DEF ServerStep, Next, TaskStep
<1>2. task[Traced].pc # "none" => callback'[Traced] = callback[Traced]
  BY <1>1, DoneStays DEF AnswersFit
<1>. SUFFICES \/ task'[Traced] = task[Traced]
              \/ task[Traced].pc = "none" /\ task'[Traced].pc = "running"
              \/ task[Traced].pc # "none" /\ task'[Traced].pc = "dead"
              \/ /\ task[Traced].pc = "finishing" /\ task'[Traced].pc = "reported"
                 /\ task'[Traced].result = task[Traced].result
  BY <1>2
<1>3. CASE Tick \/ \E c \in Challenge : CreatorStep(c)
  BY <1>3 DEF Tick, CreatorStep, ChallengeGithub, CreateChallenge, CreateSlot, Authorize,
     DropCreator
<1>4. ASSUME NEW h \in Callback, CallbackStep(h)
      PROVE  \/ task'[Traced] = task[Traced]
             \/ task[Traced].pc = "none" /\ task'[Traced].pc = "running"
  <2>1. CASE SpawnVerification(h)
    BY <1>1, <2>1, Advanced
  <2>2. CASE ~SpawnVerification(h)
    BY <1>4, <2>2 DEF CallbackStep, ReceiveCallback, Consume, ExchangeAnswered,
       RecordFailure, MarkOauthComplete, DropCallback
  <2>. QED  BY <2>1, <2>2
<1>5. ASSUME NEW h \in Callback \ {Traced}, TaskStep(h) PROVE task'[Traced] = task[Traced]
  BY <1>1, <1>5, TaskAdvanced
<1>6. CASE ReportOutcome(Traced)
  BY <1>1, <1>6, TaskAdvanced DEF TaskStep
<1>7. CASE TaskPanics(Traced)
  BY <1>1, <1>7 DEF TaskPanics, IInv, TypeOK, Task
<1>8. CASE ProcessStep
  <2>1. task'[Traced] = task[Traced] \/ (TaskActive(Traced) /\ task'[Traced].pc = "dead")
    BY <1>1, <1>8, ProcessMoved
  <2>. QED  BY <2>1 DEF TaskActive
<1>9. \/ Tick \/ \E c \in Challenge : CreatorStep(c)
      \/ \E h \in Callback : CallbackStep(h)
      \/ \E h \in Callback \ {Traced} : TaskStep(h)
      \/ ReportOutcome(Traced) \/ TaskPanics(Traced) \/ ProcessStep
  BY DEF ServerStep
<1>. HIDE DEF StageInv
<1>. QED  BY <1>3, <1>4, <1>5, <1>6, <1>7, <1>8, <1>9

\* What the task reports at the end of a complete run is the proof that HandleClaim
\* says it makes.
LEMMA CompleteRunProves ==
  ASSUME StageInv, RunOfTask, FlowStep, outcome'.result = "complete"
  PROVE  /\ callback[Traced].pubkey \in OnCurve
         /\ ProofView(outcome'.proof) = ProofOf(Traced)
<1>1. /\ task[Traced].pc = "running" /\ Flow!Next
      /\ outcome.result = "running"
  BY DEF FlowStep, RunOfTask
<1>2. FP!FlowInv
  BY <1>1 DEF RunOfTask, Unconnected, Flow!Next, Flow!DeriveSession, Flow!Prove,
     Flow!Exchange, Flow!Verify, Flow!BuildPresentation, Flow!Assemble, Flow!Tick,
     Flow!Running, Flow!Outcome
<1>3. claim = Captured
  BY <1>1, <1>2 DEF RunOfTask, Unconnected, FP!FlowInv, FP!TypeOK
<1>4. FP!FlowInv' /\ claim' = claim
  BY <1>1, <1>2, NextRunInv
     DEF Flow!Next, Flow!DeriveSession, Flow!Prove, Flow!Exchange, Flow!Verify,
         Flow!BuildPresentation, Flow!Assemble, Flow!Tick, Flow!Fail, Flow!Proceed
<1>5. /\ claim.account \in User
      /\ outcome'.proof.eth_address \in {FP!SessionAddress(p) : p \in OnCurve}
      /\ outcome'.proof.user.username = claim.account.login
      /\ outcome'.proof.user.id = claim.account.id
      /\ outcome'.proof.registration_proof.tls_proof.walletAddress = claim.wallet
      /\ outcome'.proof.eth_address = FP!SessionAddress(claim.pubkey)
  BY <1>2, <1>4 DEF FP!FlowInv, FP!TypeOK, FP!ProofOfOwnSession, FP!Complete
<1>6. claim.pubkey \in OnCurve
  <2>1. \A p : FP!SessionAddress(p).address_of = p
    BY DEF FP!SessionAddress
  <2>2. PICK p \in OnCurve : FP!SessionAddress(claim.pubkey) = FP!SessionAddress(p)
    BY <1>5
  <2>3. claim.pubkey = p
    BY <2>1, <2>2
  <2>. QED  BY <2>3
<1>7. AccountOf(outcome'.proof.user) = claim.account
  BY <1>5, AccountAssumption DEF AccountOf
<1>. QED  BY <1>3, <1>5, <1>6, <1>7
          DEF Captured, ProofView, ProofOf, FP!SessionAddress, SessionAddress

\* Every step of a server whose traced task is opened is one of HandleClaim's, or
\* changes nothing of it.
LEMMA ServerMoves == StageInv /\ RunOfTask /\ [ClaimFlowNext]_<<vars, flowVars>> => [Next]_vars
<1>. SUFFICES ASSUME StageInv, RunOfTask, ClaimFlowNext PROVE [Next]_vars
  BY DEF vars
<1>1. Traced \in Callback
  BY AccountAssumption
<1>2. ASSUME NEW status \in FlowOutcomes(Traced), task[Traced].pc = "running", Reports(status)
      PROVE  [Next]_vars
  BY <1>1, <1>2 DEF Reports, RunVerification, TaskStep, Next
<1>3. Failed \in FlowOutcomes(Traced)
  BY DEF FlowOutcomes
<1>4. CASE ConnectNotary
  BY <1>2, <1>3, <1>4 DEF ConnectNotary
<1>5. CASE FlowStep
  <2>1. CASE outcome'.result = "complete" /\ Reports(Complete(ProofView(outcome'.proof)))
    <3>1. Complete(ProofView(outcome'.proof)) \in FlowOutcomes(Traced)
      BY <1>5, <2>1, CompleteRunProves DEF FlowOutcomes
    <3>. QED  BY <1>2, <1>5, <2>1, <3>1 DEF FlowStep
  <2>2. CASE outcome'.result = "panicked" /\ task' = [task EXCEPT ![Traced].pc = "dead"]
               /\ UNCHANGED <<challenges, results, granted, creator, callback, server>>
    BY <1>1, <1>5, <2>2 DEF FlowStep, TaskPanics, TaskStep, Next
  <2>. QED  BY <1>2, <1>3, <1>5, <2>1, <2>2 DEF FlowStep
<1>6. CASE ServerStep
  BY <1>1, <1>6 DEF ServerStep, TaskStep, Next
<1>. QED  BY <1>4, <1>5, <1>6 DEF ClaimFlowNext

\* The run and its task go together in every step.
LEMMA NextRunOfTask ==
  StageInv /\ RunOfTask /\ [ClaimFlowNext]_<<vars, flowVars>> => RunOfTask'
<1>. SUFFICES ASSUME StageInv, RunOfTask, [ClaimFlowNext]_<<vars, flowVars>> PROVE RunOfTask'
  OBVIOUS
<1>1. /\ Traced \in Callback
      /\ task \in [Callback -> Task] /\ task[Traced] \in Task
      /\ callback[Traced] \in CallbackRequest
  BY AccountAssumption DEF StageInv, IInv, TypeOK
<1>2. ASSUME NEW status, Reports(status)
      PROVE  /\ task'[Traced].pc = "finishing" /\ task'[Traced].result = status
             /\ callback' = callback
  BY <1>1, <1>2 DEF Reports
<1>3. CASE ConnectNotary
  <2>1. CASE /\ \E error \in {"NotaryUrl", "NotaryConnect"} : outcome' = Flow!Failed(error)
             /\ phase' = "over" /\ Reports(Failed)
    BY <1>2, <2>1 DEF RunOfTask, Flow!Failed, Flow!Outcome
  <2>2. CASE /\ claim' = Captured /\ phase' = "derive"
             /\ UNCHANGED outcome /\ UNCHANGED vars
    <3>1. /\ phase = "unconnected" /\ task[Traced].pc = "running"
          /\ UNCHANGED <<clock, session, response, outcome>>
          /\ clock \in 0..MaxTime
          /\ session = Absent /\ response = Absent /\ outcome = Flow!Running
      BY <1>3, <2>2 DEF ConnectNotary, RunOfTask, Unconnected, FP!FlowInv, FP!TypeOK
    <3>2. Captured \in [account : User, pubkey : Pubkey, wallet : Wallet]
      BY <1>1, <3>1 DEF Captured, StageInv, IInv, Binding, CheckedBeforeExchange,
         CallbackRequest, PendingChallenge
    <3>3. FP!FlowInv'
      BY <2>2, <3>1, <3>2
         DEF FP!FlowInv, FP!TypeOK, FP!AcceptedOnChain, FP!ProofOfOwnSession, FP!Complete,
             FP!Running, FP!Outcome, Flow!Running, Flow!Outcome
    <3>4. task' = task /\ claim' = Captured'
      BY <2>2 DEF vars, Captured
    <3>. QED  BY <2>2, <3>1, <3>3, <3>4 DEF RunOfTask, Flow!Running, Flow!Outcome
  <2>. QED  BY <1>3, <2>1, <2>2 DEF ConnectNotary
<1>4. CASE FlowStep
  <2>1. task[Traced].pc = "running" /\ outcome.result = "running" /\ Flow!Next
    BY <1>4 DEF FlowStep, RunOfTask
  <2>2. CASE Unconnected
    <3>1. Flow!Tick
      BY <2>1, <2>2 DEF Unconnected, Flow!Next, Flow!DeriveSession, Flow!Prove,
         Flow!Exchange, Flow!Verify, Flow!BuildPresentation, Flow!Assemble
    <3>2. Unconnected' /\ outcome'.result = "running"
      BY <2>2, <3>1, NotaryAssumption DEF Unconnected, Flow!Tick, Flow!Running, Flow!Outcome
    <3>3. UNCHANGED vars
      BY <1>4, <3>2 DEF FlowStep
    <3>. QED  BY <2>1, <3>2, <3>3 DEF RunOfTask, vars
  <2>3. CASE ~Unconnected
    <3>1. claim = Captured /\ FP!FlowInv
      BY <2>1, <2>3 DEF RunOfTask
    <3>2. FP!FlowInv' /\ claim' = claim
      BY <2>1, <3>1, NextRunInv
         DEF Flow!Next, Flow!DeriveSession, Flow!Prove, Flow!Exchange, Flow!Verify,
             Flow!BuildPresentation, Flow!Assemble, Flow!Tick, Flow!Fail, Flow!Proceed
    <3>3. callback' = callback /\ claim' = Captured'
      BY <1>4, <3>1, <3>2 DEF FlowStep, Reports, vars, Captured
    <3>4. \/ outcome'.result = "running" /\ task' = task
          \/ /\ outcome'.result = "failed"
             /\ task'[Traced].pc = "finishing" /\ task'[Traced].result = Failed
          \/ outcome'.result = "complete" /\ task'[Traced].pc = "finishing"
          \/ task'[Traced].pc = "dead"
      BY <1>1, <1>2, <1>4 DEF FlowStep, vars, Task
    <3>. QED  BY <2>1, <3>2, <3>3, <3>4 DEF RunOfTask
  <2>. QED  BY <2>2, <2>3
<1>5. CASE ServerStep
  <2>1. /\ UNCHANGED flowVars
        /\ claim' = claim /\ phase' = phase /\ outcome' = outcome
        /\ Unconnected => Unconnected'
        /\ FP!FlowInv => FP!FlowInv'
    BY <1>5, NextRunInv DEF ServerStep, flowVars, Unconnected, Flow!Running, Flow!Outcome
  <2>2. task[Traced].pc # "none" => Captured' = Captured
    BY <1>5, TracedStays DEF Captured
  <2>3. Unconnected => outcome.result = "running"
    BY DEF Unconnected, Flow!Running, Flow!Outcome
  <2>4. FP!FlowInv => phase # "unconnected"
    BY DEF FP!FlowInv, FP!TypeOK
  <2>. QED  BY <1>5, <2>1, <2>2, <2>3, <2>4, TracedStays DEF RunOfTask
<1>6. CASE UNCHANGED <<vars, flowVars>>
  <2>1. FP!FlowInv => FP!FlowInv'
    BY <1>6, NextRunInv
  <2>. QED  BY <1>6, <2>1 DEF vars, flowVars, RunOfTask, Unconnected, Captured,
              Flow!Running, Flow!Outcome
<1>. QED  BY <1>3, <1>4, <1>5, <1>6 DEF ClaimFlowNext

-----------------------------------------------------------------------------
\* The theorems.

\* Both invariants hold in every reachable state.
LEMMA ClaimFlowInvariance == ClaimFlowSpec => [](StageInv /\ RunOfTask)
<1>1. ClaimFlowInit => StageInv /\ RunOfTask
  <2>1. ClaimFlowInit => RunOfTask
    BY AccountAssumption, NotaryAssumption
       DEF ClaimFlowInit, Init, FlowInit, NoTask, RunOfTask, Unconnected
  <2>. QED  BY <2>1, InitStageInv DEF ClaimFlowInit
<1>2. StageInv /\ RunOfTask /\ [ClaimFlowNext]_<<vars, flowVars>> => (StageInv /\ RunOfTask)'
  BY ServerMoves, NextStageInv, NextRunOfTask
<1>. QED  BY <1>1, <1>2, PTL DEF ClaimFlowSpec

\* Whatever the notary sends and whenever the run fails, a task opened into the
\* operations of the flow does what HandleClaim says a task does: it fails, it
\* panics, or it reports the proof of its own callback (run_verification).
THEOREM FlowIsImplemented == ClaimFlowSpec => ImplementsHandleClaim
<1>1. ClaimFlowInit => Init
  BY DEF ClaimFlowInit
<1>. QED  BY <1>1, ServerMoves, ClaimFlowInvariance, PTL
          DEF ClaimFlowSpec, ImplementsHandleClaim, Spec

\* From one end to the other: when a poll reads 200, there is a proof the contract
\* accepts, for the key and the wallet of the request that created the challenge
\* and for the account that authorized it (result_github, callback_github,
\* flow::run).
THEOREM ServedProofsAreGood == ClaimFlowSpec => []ServedProofIsGood
<1>1. ASSUME StageInv, RunOfTask, NEW c \in Challenge,
             ResultGithub(c) = 200, Traced \in Holders(c)
      PROVE  LET p == outcome.proof.registration_proof IN
             /\ outcome.result = "complete"
             /\ Flow!ContractAccepts(p)
             /\ p.handle = granted[c].user.login /\ p.user_id = granted[c].user.id
             /\ p.session_address = SessionAddress(creator[c].pubkey)
             /\ p.tls_proof.walletAddress = creator[c].wallet
  <2>1. /\ callback[Traced].pending # Absent /\ callback[Traced].chal = c
        /\ Traced \in Callback
    BY <1>1 DEF Holders
  <2>2. results[c] # Absent /\ results[c].status \notin {Waiting, OauthComplete, Failed}
    BY <1>1 DEF ResultGithub, StatusJson, Pending
  <2>3. results[c].status = Reached(Traced)
    BY <1>1, <2>1, <2>2, SlotSaysStage
  <2>4. task[Traced].pc = "reported" /\ task[Traced].result # Failed
    BY <2>2, <2>3 DEF Reached
  <2>5. outcome.result = "complete"
    BY <1>1, <2>4 DEF RunOfTask
  <2>6. claim = Captured /\ FP!FlowInv
    BY <1>1, <2>5 DEF RunOfTask, Unconnected, Flow!Running, Flow!Outcome
  <2>7. /\ FP!ContractAccepts(outcome.proof.registration_proof)
        /\ outcome.proof.registration_proof.handle = claim.account.login
        /\ outcome.proof.registration_proof.user_id = claim.account.id
        /\ outcome.proof.registration_proof.session_address = FP!SessionAddress(claim.pubkey)
        /\ outcome.proof.registration_proof.tls_proof.walletAddress = claim.wallet
    BY <2>5, <2>6 DEF FP!FlowInv, FP!AcceptedOnChain, FP!ProofOfOwnSession, FP!Complete
  <2>8. /\ callback[Traced].token = granted[c].user
        /\ callback[Traced].pubkey = callback[Traced].pending.pubkey
        /\ callback[Traced].pending.pubkey = creator[c].pubkey
        /\ callback[Traced].pending.wallet = creator[c].wallet
    BY <1>1, <2>1, <2>4
       DEF StageInv, IInv, Binding, CheckedBeforeExchange, HeldOnce, HoldsRequest
  <2>. QED  BY <2>5, <2>6, <2>7, <2>8, SameContract
            DEF Captured, FP!SessionAddress, SessionAddress
<1>2. StageInv /\ RunOfTask => ServedProofIsGood
  BY <1>1 DEF ServedProofIsGood
<1>. QED  BY <1>2, ClaimFlowInvariance, PTL
=============================================================================
