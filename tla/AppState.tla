------------------------------ MODULE AppState ------------------------------
(***************************************************************************)
(* The in-memory state of the server (src/state.rs): two hash maps,        *)
(* each behind its own RwLock.                                             *)
(*                                                                         *)
(* A critical section holds one lock and contains no await, so each        *)
(* operation below is one atomic step on one map.  create_challenge takes  *)
(* the two locks one after the other: it is two operations here,           *)
(* StoreChallenge and OpenSlot, and other requests run between them.       *)
(*                                                                         *)
(* A map is a function on the challenge ids that can ever be minted; a key *)
(* that is not in the hash map has the value Absent.  An Instant is kept   *)
(* as the time elapsed since it was taken.  Ages stop at TTL: the code     *)
(* only ever compares elapsed().as_secs() with the TTL, and truncating to  *)
(* whole seconds cannot change a comparison with a whole number of them.   *)
(***************************************************************************)
EXTENDS Naturals

CONSTANTS
  Challenge,   \* challenge ids: 32 random bytes each, never drawn twice
  Pubkey,      \* what a client may send as its session public key
  Wallet,      \* what a client may send as link_wallet
  User,        \* GitHub accounts
  TTL,         \* CHALLENGE_TTL_SECS, in ticks; zero is a legal setting
  Absent       \* no value: a missing map entry, None, an unset local

ASSUME TTLAssumption == TTL \in Nat

VARIABLES
  challenges,  \* pending OAuth challenges, by challenge id
  results      \* flow results, by challenge id

Age == 0..TTL

\* A code verifier is 128 random characters drawn with its challenge; it is
\* named by the challenge it was drawn for (see GenerateCodeVerifier).
PendingChallenge ==
  [pubkey : Pubkey, verifier : Challenge, wallet : Wallet, age : Age]

\* pubkey_to_session_address: an address determines the key it is derived from.
SessionAddress(p) == [address_of |-> p]

\* The parts of a VerifyResponse that say whose proof it is.
Proof ==
  [user : User, session : {SessionAddress(p) : p \in Pubkey}, wallet : Wallet]

FlowStatus ==
  [phase : {"waiting_for_authorization", "oauth_complete", "complete", "failed"},
   proof : Proof \cup {Absent}]

FlowEntry == [status : FlowStatus, age : Age]

ASSUME AbsentAssumption ==
  /\ Absent \notin PendingChallenge
  /\ Absent \notin FlowEntry
  /\ Absent \notin FlowStatus
  /\ Absent \notin Proof
  /\ Absent \notin Challenge
  /\ Absent \notin Pubkey
  /\ Absent \notin User

Waiting       == [phase |-> "waiting_for_authorization", proof |-> Absent]
OauthComplete == [phase |-> "oauth_complete", proof |-> Absent]
Failed        == [phase |-> "failed", proof |-> Absent]
Complete(p)   == [phase |-> "complete", proof |-> p]

Pending  == {Waiting, OauthComplete}
Terminal(status) == status.phase \in {"complete", "failed"}

-----------------------------------------------------------------------------
\* Time.

\* The four places that compare an age with the TTL do so each by itself: the
\* retain of either map in create_challenge, the read of a status, and the check
\* of callback_github on the challenge it has consumed.
KeepsChallenge(pending) == pending.age < TTL

KeepsResult_Late(entry) == entry.age <= TTL

KeepsResult_Always(entry) == TRUE

KeepsResult(entry) == entry.age < TTL

Unreadable(entry) == entry.age >= TTL

Expired(pending) == pending.age >= TTL

\* HashMap::retain.
SweptChallenges ==
  [c \in Challenge |-> IF challenges[c] # Absent /\ KeepsChallenge(challenges[c])
                       THEN challenges[c] ELSE Absent]

SweptResults ==
  [c \in Challenge |-> IF results[c] # Absent /\ KeepsResult(results[c])
                       THEN results[c] ELSE Absent]

\* One tick for an instant, and for every instant a map holds.
Elapse(age) == IF age < TTL THEN age + 1 ELSE age

Aged(map) ==
  [c \in Challenge |-> IF map[c] = Absent THEN Absent
                       ELSE [map[c] EXCEPT !.age = Elapse(@)]]

-----------------------------------------------------------------------------
\* The operations of AppState.

AppStateInit ==
  /\ challenges = [c \in Challenge |-> Absent]
  /\ results    = [c \in Challenge |-> Absent]

\* create_challenge, under the challenges lock.
StoreChallenge(c, pending) ==
  challenges' = [SweptChallenges EXCEPT ![c] = pending]

\* create_challenge, under the results lock.
OpenSlot_Aged(c) ==
  results' = [SweptResults EXCEPT ![c] = [status |-> Waiting, age |-> TTL]]

OpenSlot(c) ==
  results' = [SweptResults EXCEPT ![c] = [status |-> Waiting, age |-> 0]]

\* consume_challenge: whatever was there, it is there no longer.
ConsumeChallenge_Peek(c) == challenges' = challenges

ConsumeChallenge(c) == challenges' = [challenges EXCEPT ![c] = Absent]

\* set_status: an upsert, whether or not the slot still exists.
SetStatus_IfPresent(c, status) ==
  results' = IF results[c] = Absent THEN results
             ELSE [results EXCEPT ![c] = [status |-> status, age |-> 0]]

SetStatus_KeepsInstant(c, status) ==
  results' = [results EXCEPT ![c] =
                [status |-> status,
                 age |-> IF results[c] = Absent THEN 0 ELSE results[c].age]]

SetStatus(c, status) ==
  results' = [results EXCEPT ![c] = [status |-> status, age |-> 0]]

\* status_json: what a reader is told now.  Reading changes nothing.
StatusJson_NoExpiry(c) == IF results[c] = Absent THEN Absent ELSE results[c].status

StatusJson(c) ==
  IF results[c] = Absent \/ Unreadable(results[c]) THEN Absent ELSE results[c].status

AppStateTypeOK ==
  /\ challenges \in [Challenge -> PendingChallenge \cup {Absent}]
  /\ results    \in [Challenge -> FlowEntry \cup {Absent}]
=============================================================================
