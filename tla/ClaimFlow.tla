----------------------------- MODULE ClaimFlow -----------------------------
(***************************************************************************)
(* The claim and the proving flow together.  HandleClaim takes the run of  *)
(* a background task as one step; here the task of one callback, Traced,   *)
(* is opened: it connects to the notary and goes through the operations of *)
(* ProofFlow one by one, while every other request, the clock and the      *)
(* process go on (src/routes/callback.rs, run_verification).               *)
(*                                                                         *)
(* Traced is any callback, so what holds of its task holds of each.        *)
(***************************************************************************)
EXTENDS HandleClaim

CONSTANTS
  Traced,  \* the callback whose task is followed
  ApiHost, UserInfoPath, ChainId, VerifierContract, NotaryAddress,
  Handshake, Responses, MaxDrift, MaxTime, Nobody  \* as in ProofFlow

\* A login and an id belong to one account.
ASSUME AccountAssumption ==
  /\ Traced \in Callback
  /\ \A u, v \in User : u.login = v.login /\ u.id = v.id => u = v

\* What ProofFlow assumes of these constants, beyond the assumptions of HandleClaim.
ASSUME NotaryAssumption ==
  /\ MaxTime \in Nat /\ MaxDrift \in Nat
  /\ NotaryAddress \notin {Absent, Nobody}
  /\ <<UserInfoPath>> # Absent

ASSUME ShapeAssumption ==
  LET Field == {"client_random", "server_random", "server_ephemeral_key"} IN
  /\ \A hs \in Handshake : hs = [field \in Field |-> hs[field]]
  /\ \A r \in Responses :
       LET proof == r.evm_proof
           sig   == proof.notary_signature IN
       /\ proof.handshake = [field \in Field |-> proof.handshake[field]]
       /\ proof.leaves \in Seq({proof.leaves[i] : i \in DOMAIN proof.leaves})
       /\ proof.timestamp \in Nat
       /\ sig = [signer |-> sig.signer, v |-> sig.v, digest |-> sig.digest]

VARIABLES claim, phase, clock, session, response, outcome  \* as in ProofFlow

Flow == INSTANCE ProofFlow WITH Account <- User

flowVars == <<claim, phase, clock, session, response, outcome>>

\* What the spawned task captured of its handler: run's arguments.
Captured ==
  [account |-> callback[Traced].token,
   pubkey  |-> callback[Traced].pubkey,
   wallet  |-> callback[Traced].pending.wallet]

\* Whose proof a VerifyResponse is.
AccountOf(user) ==
  CHOOSE u \in User : u.login = user.username /\ u.id = user.id

ProofView(p) ==
  [user    |-> AccountOf(p.user),
   session |-> p.eth_address,
   wallet  |-> p.registration_proof.tls_proof.walletAddress]

-----------------------------------------------------------------------------
FlowInit ==
  /\ claim = Absent
  /\ phase = "unconnected"
  /\ clock = 0
  /\ session = Absent
  /\ response = Absent
  /\ outcome = Flow!Running

\* The task goes on to set_status with this.
Reports(status) ==
  /\ task' = [task EXCEPT ![Traced] = [pc |-> "finishing", result |-> status]]
  /\ UNCHANGED <<challenges, results, granted, creator, callback, server>>

\* run_verification: the notary's host and port, the connection, then flow::run.
ConnectNotary ==
  /\ task[Traced].pc = "running"
  /\ phase = "unconnected"
  /\ \/ /\ \E error \in {"NotaryUrl", "NotaryConnect"} : outcome' = Flow!Failed(error)
        /\ phase' = "over"
        /\ Reports(Failed)
        /\ UNCHANGED claim
     \/ /\ claim' = Captured
        /\ phase' = "derive"
        /\ UNCHANGED outcome
        /\ UNCHANGED vars
  /\ UNCHANGED <<clock, session, response>>

\* One operation of the run.  With the last one the task has its result, or is
\* gone.
FlowStep ==
  /\ task[Traced].pc = "running"
  /\ Flow!Next
  /\ \/ outcome'.result = "running" /\ UNCHANGED vars
     \/ outcome'.result = "failed" /\ Reports(Failed)
     \/ outcome'.result = "complete" /\ Reports(Complete(ProofView(outcome'.proof)))
     \/ /\ outcome'.result = "panicked"
        /\ task' = [task EXCEPT ![Traced].pc = "dead"]
        /\ UNCHANGED <<challenges, results, granted, creator, callback, server>>

\* Everything else the server does: of the traced task, its set_status, and a panic
\* inside a dependency at any time.
ServerStep ==
  /\ \/ \E c \in Challenge : CreatorStep(c)
     \/ \E h \in Callback : CallbackStep(h)
     \/ \E h \in Callback \ {Traced} : TaskStep(h)
     \/ ReportOutcome(Traced) \/ TaskPanics(Traced)
     \/ Tick
     \/ ProcessStep
  /\ UNCHANGED flowVars

ClaimFlowInit == Init /\ FlowInit

ClaimFlowNext == ConnectNotary \/ FlowStep \/ ServerStep

ClaimFlowSpec == ClaimFlowInit /\ [][ClaimFlowNext]_<<vars, flowVars>>

-----------------------------------------------------------------------------
\* Every step of the flow is one that HandleClaim allows a task: whatever the
\* notary sends and whenever it fails, the task ends as FlowOutcomes promises.
ImplementsHandleClaim == Spec

\* From one end to the other: when a poll of a challenge reads 200, there is a
\* proof the contract accepts, for the wallet and the session key of the request
\* that created the challenge and of the account that authorized it.
ServedProofIsGood ==
  \A c \in Challenge :
    /\ ResultGithub(c) = 200
    /\ Traced \in Holders(c)
    => LET p == outcome.proof.registration_proof IN
       /\ outcome.result = "complete"
       /\ Flow!ContractAccepts(p)
       /\ p.handle = granted[c].user.login /\ p.user_id = granted[c].user.id
       /\ p.session_address = SessionAddress(creator[c].pubkey)
       /\ p.tls_proof.walletAddress = creator[c].wallet
=============================================================================
