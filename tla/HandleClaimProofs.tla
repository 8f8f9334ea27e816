------------------------- MODULE HandleClaimProofs -------------------------
(***************************************************************************)
(* Theorems about HandleClaim, for any number of challenges, callbacks,    *)
(* keys, wallets and accounts, and any TTL.                                *)
(***************************************************************************)
EXTENDS HandleClaim, TLAPS

-----------------------------------------------------------------------------
\* The operations on the two maps keep their types.

\* A sweep only removes entries.
LEMMA SweepTypes ==
  /\ challenges \in [Challenge -> PendingChallenge \cup {Absent}]
       => SweptChallenges \in [Challenge -> PendingChallenge \cup {Absent}]
  /\ results \in [Challenge -> FlowEntry \cup {Absent}]
       => SweptResults \in [Challenge -> FlowEntry \cup {Absent}]
BY DEF SweptChallenges, SweptResults

\* Ageing an instant stays within the ages.
LEMMA ElapseType ==
  ASSUME NEW age \in Age
  PROVE  Elapse(age) \in Age
BY TTLAssumption DEF Elapse, Age

\* Ageing keeps everything about an entry but its age.
LEMMA AgedChallengesType ==
  ASSUME challenges \in [Challenge -> PendingChallenge \cup {Absent}]
  PROVE  Aged(challenges) \in [Challenge -> PendingChallenge \cup {Absent}]
<1>1. ASSUME NEW c \in Challenge, challenges[c] # Absent
      PROVE  [challenges[c] EXCEPT !.age = Elapse(@)] \in PendingChallenge
  BY <1>1, ElapseType DEF PendingChallenge
<1>. QED  BY <1>1 DEF Aged

\* Ageing keeps the type of the results.
LEMMA AgedResultsType ==
  ASSUME results \in [Challenge -> FlowEntry \cup {Absent}]
  PROVE  Aged(results) \in [Challenge -> FlowEntry \cup {Absent}]
<1>1. ASSUME NEW c \in Challenge, results[c] # Absent
      PROVE  [results[c] EXCEPT !.age = Elapse(@)] \in FlowEntry
  BY <1>1, ElapseType DEF FlowEntry
<1>. QED  BY <1>1 DEF Aged

\* Storing a status is an entry of its type.
LEMMA SetStatusType ==
  ASSUME results \in [Challenge -> FlowEntry \cup {Absent}],
         NEW c \in Challenge, NEW status \in FlowStatus, SetStatus(c, status)
  PROVE  results' \in [Challenge -> FlowEntry \cup {Absent}]
BY TTLAssumption DEF SetStatus, FlowEntry, Age

\* The statuses the handlers store.
LEMMA StatusTypes ==
  /\ Waiting \in FlowStatus /\ OauthComplete \in FlowStatus /\ Failed \in FlowStatus
  /\ \A p \in Proof : Complete(p) \in FlowStatus
BY DEF Waiting, OauthComplete, Failed, Complete, FlowStatus

-----------------------------------------------------------------------------
\* The initial state.

\* Nothing has happened yet.
LEMMA InitIInv == Init => IInv
<1>. SUFFICES ASSUME Init PROVE IInv
  OBVIOUS
<1>. USE DEF Init, AppStateInit, OAuthInit
<1>1. TypeOK
  BY TTLAssumption DEF TypeOK, AppStateTypeOK, OAuthTypeOK,
     NoRequest, NoCallback, NoTask, Creator, CallbackRequest, CallbackPc, Task, Age
<1>2. Binding
  BY DEF Binding, KnownOnceAnswered, StoredAsRequested, CodesAnnounced, HeldOnce,
     SingleUse, CheckedBeforeExchange, TaskReportsOwn, ProofBoundToRequest,
     NoRequest, NoCallback, NoTask
<1>. QED  BY <1>1, <1>2 DEF IInv

-----------------------------------------------------------------------------
\* Challenge requests.

LEMMA CallbackParts ==
  ASSUME TypeOK, NEW h \in Callback
  PROVE  /\ callback[h] \in CallbackRequest
         /\ task[h] \in Task
         /\ callback[h].chal # Absent => callback[h].chal \in Challenge
BY DEF TypeOK, CallbackRequest

\* Minting changes nothing but a request nobody knows of yet.
LEMMA ChallengeGithubIInv ==
  ASSUME IInv, NEW c \in Challenge, ChallengeGithub(c)
  PROVE  IInv'
<1>. USE DEF IInv, Binding
<1>1. PICK p \in Pubkey, w \in Wallet :
        creator' = [creator EXCEPT ![c] =
          IF ValidRequest(p, w)
          THEN [pc |-> "minted", pubkey |-> p, wallet |-> w, age |-> 0]
          ELSE [NoRequest EXCEPT !.pc = "rejected"]]
  BY DEF ChallengeGithub
<1>2. /\ creator \in [Challenge -> Creator]
      /\ creator[c].pc = "idle"
      /\ UNCHANGED <<challenges, results, granted, callback, task, server>>
  BY DEF ChallengeGithub, TypeOK
<1>3. /\ creator' \in [Challenge -> Creator]
      /\ creator'[c].pc \in {"minted", "rejected"}
      /\ creator'[c].pc = "minted" =>
           creator'[c].pubkey \in Pubkey /\ creator'[c].wallet \in Wallet
      /\ \A d \in Challenge \ {c} : creator'[d] = creator[d]
  BY <1>1, <1>2, TTLAssumption DEF Creator, NoRequest, Age
<1>4. TypeOK'
  BY <1>2, <1>3 DEF TypeOK, AppStateTypeOK, OAuthTypeOK
<1>5. KnownOnceAnswered'
  BY <1>2, <1>3, CallbackParts DEF KnownOnceAnswered
<1>6. StoredAsRequested'
  BY <1>2, <1>3 DEF StoredAsRequested, HoldsRequest, KnownOnceAnswered
<1>7. CodesAnnounced' /\ TaskReportsOwn' /\ CheckedBeforeExchange'
  BY <1>2 DEF CodesAnnounced, TaskReportsOwn, CheckedBeforeExchange, ProofOf
<1>8. HeldOnce'
  BY <1>2, <1>3, CallbackParts DEF HeldOnce, SingleUse, HoldsRequest, KnownOnceAnswered
<1>9. ProofBoundToRequest'
  BY <1>2, <1>3 DEF ProofBoundToRequest, KnownOnceAnswered
<1>. QED  BY <1>4, <1>5, <1>6, <1>7, <1>8, <1>9

\* Storing the pending challenge: other challenges can only be swept.
LEMMA CreateChallengeIInv ==
  ASSUME IInv, NEW c \in Challenge, CreateChallenge(c)
  PROVE  IInv'
<1>. USE DEF IInv, Binding
<1>. DEFINE pending == [pubkey   |-> creator[c].pubkey,
                        verifier |-> GenerateCodeVerifier(c),
                        wallet   |-> creator[c].wallet,
                        age      |-> creator[c].age]
<1>0. PICK zero \in Age : zero = 0
  BY TTLAssumption DEF Age
<1>1. /\ creator \in [Challenge -> Creator]
      /\ challenges \in [Challenge -> PendingChallenge \cup {Absent}]
      /\ creator[c].pc = "minted"
      /\ challenges' = [SweptChallenges EXCEPT ![c] = pending]
      /\ creator' = [creator EXCEPT ![c] = [@ EXCEPT !.pc = "stored", !.age = zero]]
      /\ UNCHANGED <<results, granted, callback, task, server>>
  BY <1>0 DEF CreateChallenge, StoreChallenge, TypeOK, AppStateTypeOK
<1>2. pending \in PendingChallenge
  BY <1>1 DEF PendingChallenge, Creator, GenerateCodeVerifier, KnownOnceAnswered
<1>3. /\ creator' \in [Challenge -> Creator]
      /\ creator'[c].pc = "stored"
      /\ creator'[c].pubkey = creator[c].pubkey /\ creator'[c].wallet = creator[c].wallet
      /\ \A d \in Challenge \ {c} : creator'[d] = creator[d]
  BY <1>1 DEF Creator
<1>4. /\ challenges' \in [Challenge -> PendingChallenge \cup {Absent}]
      /\ challenges'[c] = pending
      /\ \A d \in Challenge \ {c} : challenges'[d] \in {challenges[d], Absent}
  BY <1>1, <1>2, SweepTypes DEF SweptChallenges
<1>5. TypeOK'
  BY <1>1, <1>3, <1>4 DEF TypeOK, AppStateTypeOK, OAuthTypeOK
<1>6. KnownOnceAnswered'
  BY <1>1, <1>3, <1>4, CallbackParts DEF KnownOnceAnswered
<1>7. StoredAsRequested'
  BY <1>1, <1>3, <1>4 DEF StoredAsRequested, HoldsRequest
<1>8. CodesAnnounced' /\ TaskReportsOwn' /\ CheckedBeforeExchange'
  BY <1>1 DEF CodesAnnounced, TaskReportsOwn, CheckedBeforeExchange, ProofOf
<1>9. HeldOnce'
  BY <1>1, <1>3, <1>4, CallbackParts DEF HeldOnce, SingleUse, HoldsRequest, KnownOnceAnswered
<1>10. ProofBoundToRequest'
  BY <1>1, <1>3 DEF ProofBoundToRequest
<1>. QED  BY <1>5, <1>6, <1>7, <1>8, <1>9, <1>10

\* Opening the result slot: it says waiting, others can only be swept.
LEMMA CreateSlotIInv ==
  ASSUME IInv, NEW c \in Challenge, CreateSlot(c)
  PROVE  IInv'
<1>. USE DEF IInv, Binding
<1>. DEFINE slot == [status |-> Waiting, age |-> 0]
<1>1. /\ creator \in [Challenge -> Creator]
      /\ results \in [Challenge -> FlowEntry \cup {Absent}]
      /\ creator[c].pc = "stored"
      /\ results' = [SweptResults EXCEPT ![c] = slot]
      /\ creator' = [creator EXCEPT ![c].pc = "responded"]
      /\ UNCHANGED <<challenges, granted, callback, task, server>>
  BY DEF CreateSlot, OpenSlot, TypeOK, AppStateTypeOK
<1>2. slot \in FlowEntry
  BY StatusTypes, TTLAssumption DEF FlowEntry, Age
<1>3. /\ creator' \in [Challenge -> Creator]
      /\ creator'[c].pc = "responded"
      /\ creator'[c].pubkey = creator[c].pubkey /\ creator'[c].wallet = creator[c].wallet
      /\ \A d \in Challenge \ {c} : creator'[d] = creator[d]
  BY <1>1 DEF Creator
<1>4. /\ results' \in [Challenge -> FlowEntry \cup {Absent}]
      /\ results'[c] = slot
      /\ \A d \in Challenge \ {c} : results'[d] \in {results[d], Absent}
  BY <1>1, <1>2, SweepTypes DEF SweptResults
<1>5. TypeOK'
  BY <1>1, <1>3, <1>4 DEF TypeOK, AppStateTypeOK, OAuthTypeOK
<1>6. KnownOnceAnswered'
  BY <1>1, <1>3, <1>4, CallbackParts DEF KnownOnceAnswered
<1>7. StoredAsRequested'
  BY <1>1, <1>3 DEF StoredAsRequested, HoldsRequest
<1>8. CodesAnnounced' /\ TaskReportsOwn' /\ CheckedBeforeExchange'
  BY <1>1 DEF CodesAnnounced, TaskReportsOwn, CheckedBeforeExchange, ProofOf
<1>9. HeldOnce'
  BY <1>1, <1>3, CallbackParts DEF HeldOnce, SingleUse, HoldsRequest
<1>10. ProofBoundToRequest'
  BY <1>1, <1>3, <1>4 DEF ProofBoundToRequest, Waiting
<1>. QED  BY <1>5, <1>6, <1>7, <1>8, <1>9, <1>10

\* GitHub issues a code, announced with the code challenge of the URL; a code
\* that exists already does not change.
LEMMA AuthorizeIInv ==
  ASSUME IInv, NEW c \in Challenge, Authorize(c)
  PROVE  IInv'
<1>. USE DEF IInv, Binding
<1>1. PICK u \in User :
        /\ granted[c] = Absent
        /\ granted' = [granted EXCEPT ![c] =
             [user |-> u, code_challenge |-> CodeChallenge(GenerateCodeVerifier(c))]]
  BY DEF Authorize, IssueCode, BuildAuthUrl
<1>2. /\ granted \in [Challenge -> Grant \cup {Absent}]
      /\ creator[c].pc = "responded"
      /\ UNCHANGED <<challenges, results, creator, callback, task, server>>
  BY DEF Authorize, TypeOK, OAuthTypeOK
<1>3. [user |-> u, code_challenge |-> CodeChallenge(GenerateCodeVerifier(c))] \in Grant
  BY DEF Grant, GenerateCodeVerifier
<1>4. TypeOK'
  BY <1>1, <1>2, <1>3 DEF TypeOK, AppStateTypeOK, OAuthTypeOK
<1>5. KnownOnceAnswered' /\ StoredAsRequested' /\ HeldOnce' /\ TaskReportsOwn'
  BY <1>1, <1>2, CallbackParts
     DEF KnownOnceAnswered, StoredAsRequested, HeldOnce, SingleUse, HoldsRequest,
         TaskReportsOwn, ProofOf
<1>6. CodesAnnounced'
  BY <1>1, <1>2, <1>3 DEF CodesAnnounced
<1>7. CheckedBeforeExchange'
  BY <1>1, <1>2, CallbackParts DEF CheckedBeforeExchange, HeldOnce
<1>8. ProofBoundToRequest'
  BY <1>1, <1>2 DEF ProofBoundToRequest
<1>. QED  BY <1>4, <1>5, <1>6, <1>7, <1>8

\* A dropped request leaves behind what it has stored.
LEMMA DropCreatorIInv ==
  ASSUME IInv, NEW c \in Challenge, DropCreator(c)
  PROVE  IInv'
<1>. USE DEF IInv, Binding
<1>0. PICK zero \in Age : zero = 0
  BY TTLAssumption DEF Age
<1>1. /\ creator \in [Challenge -> Creator]
      /\ creator[c].pc \in {"minted", "stored"}
      /\ creator' = [creator EXCEPT ![c] = [@ EXCEPT !.pc = "dropped", !.age = zero]]
      /\ UNCHANGED <<challenges, results, granted, callback, task, server>>
  BY <1>0 DEF DropCreator, TypeOK
<1>2. /\ creator' \in [Challenge -> Creator]
      /\ creator'[c].pc = "dropped"
      /\ creator'[c].pubkey = creator[c].pubkey /\ creator'[c].wallet = creator[c].wallet
      /\ \A d \in Challenge \ {c} : creator'[d] = creator[d]
  BY <1>1 DEF Creator
<1>3. TypeOK'
  BY <1>1, <1>2 DEF TypeOK, AppStateTypeOK, OAuthTypeOK
<1>4. KnownOnceAnswered'
  BY <1>1, <1>2, CallbackParts DEF KnownOnceAnswered
<1>5. StoredAsRequested' /\ HeldOnce'
  BY <1>1, <1>2, CallbackParts DEF StoredAsRequested, HeldOnce, SingleUse, HoldsRequest
<1>6. CodesAnnounced' /\ TaskReportsOwn' /\ CheckedBeforeExchange'
  BY <1>1 DEF CodesAnnounced, TaskReportsOwn, CheckedBeforeExchange, ProofOf
<1>7. ProofBoundToRequest'
  BY <1>1, <1>2 DEF ProofBoundToRequest
<1>. QED  BY <1>3, <1>4, <1>5, <1>6, <1>7

-----------------------------------------------------------------------------
\* Callback requests.

\* What a copy of a state parameter parses to: nothing, or what it was made of.
LEMMA ParsedCopy ==
  ASSUME NEW c \in Challenge, NEW p \in Pubkey,
         NEW state \in Copies(FormatOauthState(c, p)),
         ParseOauthState(state) # Absent
  PROVE  ParseOauthState(state) = [chal |-> c, pubkey |-> p]
<1>1. FormatOauthState(c, p) = <<c, p, ApiDomain>>
  BY DEF FormatOauthState
<1>2. Copies(FormatOauthState(c, p)) = {<<>>, <<c>>, <<c, p>>, <<c, p, ApiDomain>>}
  BY <1>1 DEF Copies
<1>3. CASE state \in {<<>>, <<c>>}
  BY <1>3 DEF ParseOauthState
<1>4. CASE state \in {<<c, p>>, <<c, p, ApiDomain>>}
  BY <1>4 DEF ParseOauthState
<1>. QED  BY <1>2, <1>3, <1>4

\* A callback arrives for a challenge that was answered, and has done nothing.
LEMMA ReceiveCallbackIInv ==
  ASSUME IInv, NEW h \in Callback, ReceiveCallback(h)
  PROVE  IInv'
<1>. USE DEF IInv, Binding
<1>. DEFINE Answer(state, error, code) ==
              IF ParseOauthState(state) = Absent
              THEN [NoCallback EXCEPT !.pc = "done", !.resp = "bad_request"]
              ELSE [NoCallback EXCEPT !.pc = "consuming",
                                      !.chal = ParseOauthState(state).chal,
                                      !.pubkey = ParseOauthState(state).pubkey,
                                      !.error = error,
                                      !.code = code]
<1>0. PICK c \in Challenge, p \in Pubkey, r \in Redirects :
        /\ creator[c].pc = "responded"
        /\ \E state \in Copies(FormatOauthState(c, p)) :
             callback' = [callback EXCEPT ![h] = Answer(state, r.error, r.code)]
  BY DEF ReceiveCallback
<1>1. PICK state \in Copies(FormatOauthState(c, p)) :
        /\ creator[c].pc = "responded"
        /\ callback' = [callback EXCEPT ![h] = Answer(state, r.error, r.code)]
  BY <1>0
<1>2. /\ callback \in [Callback -> CallbackRequest]
      /\ callback[h].pc = "idle"
      /\ UNCHANGED <<challenges, results, granted, creator, task, server>>
  BY DEF ReceiveCallback, TypeOK
<1>. DEFINE refused == [NoCallback EXCEPT !.pc = "done", !.resp = "bad_request"]
            received == [NoCallback EXCEPT !.pc = "consuming", !.chal = c, !.pubkey = p,
                                           !.error = r.error, !.code = r.code]
<1>3. PICK new \in {refused, received} : callback' = [callback EXCEPT ![h] = new]
  <2>1. CASE ParseOauthState(state) = Absent
    BY <1>1, <2>1
  <2>2. CASE ParseOauthState(state) # Absent
    <3>1. ParseOauthState(state).chal = c /\ ParseOauthState(state).pubkey = p
      BY <2>2, ParsedCopy
    <3>. QED  BY <1>1, <2>2, <3>1
  <2>. QED  BY <2>1, <2>2
<1>4. r.error \in BOOLEAN /\ r.code \in Challenge \cup {Absent}
  BY DEF Redirects, Codes
<1>5. /\ refused \in CallbackRequest
      /\ refused.pc = "done" /\ refused.chal = Absent
      /\ refused.pending = Absent /\ refused.token = Absent
  BY DEF CallbackRequest, CallbackPc, Response, NoCallback
<1>6. /\ received \in CallbackRequest
      /\ received.pc = "consuming" /\ received.chal = c
      /\ received.pending = Absent /\ received.token = Absent
  BY <1>4 DEF CallbackRequest, CallbackPc, NoCallback
<1>. HIDE DEF refused, received
<1>7. /\ callback' \in [Callback -> CallbackRequest]
      /\ callback'[h].pc \in {"done", "consuming"}
      /\ callback'[h].chal \in {Absent, c}
      /\ callback'[h].pc = "consuming" => callback'[h].chal = c
      /\ callback'[h].pending = Absent
      /\ callback'[h].token = Absent
      /\ \A g \in Callback \ {h} : callback'[g] = callback[g]
  BY <1>2, <1>3, <1>5, <1>6
<1>8. TypeOK'
  BY <1>2, <1>7 DEF TypeOK, AppStateTypeOK, OAuthTypeOK
<1>9. KnownOnceAnswered'
  BY <1>1, <1>2, <1>7, AbsentAssumption DEF KnownOnceAnswered
<1>10. StoredAsRequested' /\ CodesAnnounced' /\ ProofBoundToRequest'
  BY <1>2 DEF StoredAsRequested, HoldsRequest, CodesAnnounced, ProofBoundToRequest
<1>11. HeldOnce'
  BY <1>2, <1>7 DEF HeldOnce, SingleUse, HoldsRequest
<1>12. task[h].pc = "none"
  BY <1>2 DEF CheckedBeforeExchange
<1>13. CheckedBeforeExchange'
  BY <1>2, <1>7, <1>12 DEF CheckedBeforeExchange
<1>14. TaskReportsOwn'
  BY <1>2, <1>7, <1>12 DEF TaskReportsOwn, ProofOf
<1>. QED  BY <1>8, <1>9, <1>10, <1>11, <1>13, <1>14

\* The challenge leaves the map as the callback takes hold of it, so that no
\* later callback can; what the callback goes on with has been checked.
LEMMA ConsumeIInv ==
  ASSUME IInv, NEW h \in Callback, Consume(h)
  PROVE  IInv'
<1>. USE DEF IInv, Binding
<1>. DEFINE k == callback[h].chal
            found == challenges[k]
<1>1. /\ callback \in [Callback -> CallbackRequest]
      /\ callback[h].pc = "consuming"
      /\ k \in Challenge /\ creator[k].pc = "responded"
      /\ callback[h].pending = Absent /\ callback[h].token = Absent
      /\ task[h].pc = "none"
      /\ UNCHANGED <<results, granted, creator, task, server>>
  BY CallbackParts DEF Consume, TypeOK, KnownOnceAnswered, CheckedBeforeExchange
<1>2. /\ challenges' = [challenges EXCEPT ![k] = Absent]
      /\ challenges \in [Challenge -> PendingChallenge \cup {Absent}]
  BY DEF Consume, ConsumeChallenge, TypeOK, AppStateTypeOK
<1>3. PICK pc \in {"done", "failing", "exchanging"}, resp \in Response \cup {Absent} :
        /\ callback' = [callback EXCEPT ![h] =
             [@ EXCEPT !.pc = pc, !.resp = resp, !.pending = found]]
        /\ pc # "done" => found # Absent /\ found.pubkey = callback[h].pubkey
  BY DEF Consume, PubkeyMatches, Response
<1>4. found \in PendingChallenge \cup {Absent}
  BY <1>1, <1>2
<1>. HIDE DEF found
<1>5. /\ callback' \in [Callback -> CallbackRequest]
      /\ callback'[h].pc = pc
      /\ callback'[h].chal = k
      /\ callback'[h].pubkey = callback[h].pubkey
      /\ callback'[h].pending = found
      /\ callback'[h].token = Absent
      /\ \A g \in Callback \ {h} : callback'[g] = callback[g]
  BY <1>1, <1>3, <1>4 DEF CallbackRequest, CallbackPc
<1>6. /\ challenges' \in [Challenge -> PendingChallenge \cup {Absent}]
      /\ challenges'[k] = Absent
      /\ \A d \in Challenge : challenges'[d] \in {challenges[d], Absent}
  BY <1>1, <1>2
<1>7. TypeOK'
  BY <1>1, <1>5, <1>6 DEF TypeOK, AppStateTypeOK, OAuthTypeOK
<1>8. KnownOnceAnswered'
  BY <1>1, <1>5, <1>6, CallbackParts DEF KnownOnceAnswered
<1>9. StoredAsRequested'
  BY <1>1, <1>6 DEF StoredAsRequested, HoldsRequest
<1>10. CodesAnnounced' /\ ProofBoundToRequest'
  BY <1>1 DEF CodesAnnounced, ProofBoundToRequest
<1>11. found # Absent =>
         /\ HoldsRequest(found, k)
         /\ \A g \in Callback : callback[g].pending # Absent => callback[g].chal # k
  BY <1>1 DEF found, StoredAsRequested, HeldOnce
<1>12. HeldOnce'
  <2>1. SingleUse'
    BY <1>1, <1>5, <1>11 DEF SingleUse, HeldOnce
  <2>2. ASSUME NEW g \in Callback, callback'[g].pending # Absent
        PROVE  (/\ callback[g].chal # Absent
                /\ challenges[callback[g].chal] = Absent
                /\ HoldsRequest(callback[g].pending, callback[g].chal))'
    <3>1. CASE g = h
      BY <1>1, <1>5, <1>6, <1>11, <2>2, <3>1, AbsentAssumption DEF HoldsRequest
    <3>2. CASE g # h
      BY <1>1, <1>5, <1>6, <2>2, <3>2, CallbackParts DEF HeldOnce, HoldsRequest
    <3>. QED  BY <3>1, <3>2
  <2>. QED  BY <2>1, <2>2 DEF HeldOnce
<1>13. CheckedBeforeExchange'
  BY <1>1, <1>3, <1>5 DEF CheckedBeforeExchange
<1>14. TaskReportsOwn'
  BY <1>1, <1>3, <1>5, AbsentAssumption DEF TaskReportsOwn, ProofOf
<1>. QED  BY <1>7, <1>8, <1>9, <1>10, <1>12, <1>13, <1>14

\* A callback that moves on without touching what it was handed, for the steps
\* below: pc, token and resp change, nothing else does.
LEMMA CallbackMoves ==
  ASSUME IInv, NEW h \in Callback, callback[h].pc \notin {"idle", "consuming"},
         callback' \in [Callback -> CallbackRequest],
         \A g \in Callback \ {h} : callback'[g] = callback[g],
         callback'[h].pc \notin {"idle", "consuming", "exchanging"},
         callback'[h].pc = "failing" => callback[h].pending # Absent,
         callback'[h].chal = callback[h].chal,
         callback'[h].pubkey = callback[h].pubkey,
         callback'[h].pending = callback[h].pending,
         UNCHANGED <<challenges, granted, creator, server>>
  PROVE  /\ StoredAsRequested' /\ CodesAnnounced' /\ HeldOnce'
         /\ results' = results => KnownOnceAnswered' /\ ProofBoundToRequest'
         /\ callback'[h].token = callback[h].token /\ task' = task =>
              /\ TaskReportsOwn'
              /\ \/ callback'[h].pc \notin {"marking", "spawning"}
                 \/ callback[h].pc \in {"marking", "spawning"}
                 => CheckedBeforeExchange'
<1>. USE DEF IInv, Binding
<1>1. StoredAsRequested' /\ CodesAnnounced'
  BY DEF StoredAsRequested, CodesAnnounced, HoldsRequest
<1>2. HeldOnce'
  BY DEF HeldOnce, SingleUse, HoldsRequest
<1>3. ASSUME results' = results
      PROVE  KnownOnceAnswered' /\ ProofBoundToRequest'
  BY <1>3 DEF KnownOnceAnswered, ProofBoundToRequest
<1>4. ASSUME callback'[h].token = callback[h].token, task' = task
      PROVE  TaskReportsOwn'
  BY <1>4 DEF TaskReportsOwn, ProofOf, HeldOnce
<1>5. ASSUME callback'[h].token = callback[h].token, task' = task,
             \/ callback'[h].pc \notin {"marking", "spawning"}
             \/ callback[h].pc \in {"marking", "spawning"}
      PROVE  CheckedBeforeExchange'
  BY <1>5 DEF CheckedBeforeExchange
<1>. QED  BY <1>1, <1>2, <1>3, <1>4, <1>5

\* A token belongs to the account that accepted at the URL of this challenge:
\* GitHub redeems the code against the verifier of this challenge only.
LEMMA ExchangeAnsweredIInv ==
  ASSUME IInv, NEW h \in Callback, ExchangeAnswered(h)
  PROVE  IInv'
<1>. USE DEF IInv, Binding
<1>. DEFINE k == callback[h].chal
            pending == callback[h].pending
<1>0. callback \in [Callback -> CallbackRequest]
  BY DEF TypeOK
<1>1. /\ callback[h].pc = "exchanging"
      /\ pending # Absent /\ callback[h].token = Absent
      /\ callback[h].pubkey = pending.pubkey
      /\ k \in Challenge
      /\ task[h].pc = "none"
      /\ pending.verifier = GenerateCodeVerifier(k)
      /\ UNCHANGED <<challenges, results, granted, creator, task, server>>
  BY CallbackParts DEF ExchangeAnswered, CheckedBeforeExchange, HeldOnce, HoldsRequest
<1>2. CASE ExchangeFails(h)
  <2>1. callback' = [callback EXCEPT ![h] =
                       [@ EXCEPT !.pc = "failing", !.resp = "bad_gateway"]]
    BY <1>2 DEF ExchangeFails
  <2>2. /\ callback' \in [Callback -> CallbackRequest]
        /\ callback'[h].pc = "failing"
        /\ callback'[h].chal = k /\ callback'[h].pubkey = callback[h].pubkey
        /\ callback'[h].pending = pending /\ callback'[h].token = callback[h].token
        /\ \A g \in Callback \ {h} : callback'[g] = callback[g]
    BY <1>0, <2>1 DEF CallbackRequest, CallbackPc, Response
  <2>3. TypeOK'
    BY <1>1, <2>2 DEF TypeOK, AppStateTypeOK, OAuthTypeOK
  <2>. QED  BY <1>1, <2>2, <2>3, CallbackMoves
<1>3. ASSUME NEW token \in User, token \in ExchangeCode(callback[h].code, pending.verifier),
             callback' = [callback EXCEPT ![h] = [@ EXCEPT !.pc = "marking", !.token = token]]
      PROVE  IInv'
  <2>1. /\ granted[k] # Absent
        /\ token = granted[k].user
    <3>1. PICK code \in Codes :
            /\ granted[code].code_challenge = CodeChallenge(pending.verifier)
            /\ token = granted[code].user
      BY <1>3, AbsentAssumption DEF ExchangeCode, TokensFor
    <3>2. /\ code \in Challenge /\ granted[code] # Absent
          /\ granted[code].code_challenge = CodeChallenge(GenerateCodeVerifier(code))
      BY DEF Codes, CodesAnnounced
    <3>3. code = k
      BY <1>1, <3>1, <3>2 DEF CodeChallenge, GenerateCodeVerifier
    <3>. QED  BY <3>1, <3>2, <3>3
  <2>2. /\ callback' \in [Callback -> CallbackRequest]
        /\ callback'[h].pc = "marking"
        /\ callback'[h].chal = k /\ callback'[h].pubkey = callback[h].pubkey
        /\ callback'[h].pending = pending /\ callback'[h].token = token
        /\ \A g \in Callback \ {h} : callback'[g] = callback[g]
    BY <1>0, <1>3 DEF CallbackRequest, CallbackPc
  <2>3. TypeOK'
    BY <1>1, <2>2 DEF TypeOK, AppStateTypeOK, OAuthTypeOK
  <2>4. CheckedBeforeExchange'
    BY <1>1, <2>1, <2>2, AbsentAssumption DEF CheckedBeforeExchange
  <2>5. TaskReportsOwn'
    BY <1>1, <2>2 DEF TaskReportsOwn, ProofOf
  <2>. QED  BY <1>1, <2>2, <2>3, <2>4, <2>5, CallbackMoves
<1>. QED  BY <1>2, <1>3 DEF ExchangeAnswered

\* What SetStatus does to the parts of the invariant that look at results.
LEMMA SetStatusKeeps ==
  ASSUME IInv, NEW k \in Challenge, creator[k].pc = "responded",
         NEW status \in FlowStatus, SetStatus(k, status),
         status.phase = "complete" =>
           /\ granted[k] # Absent
           /\ status.proof = [user    |-> granted[k].user,
                              session |-> SessionAddress(creator[k].pubkey),
                              wallet  |-> creator[k].wallet],
         UNCHANGED <<challenges, granted, creator>>,
         \A h \in Callback :
           /\ callback'[h].chal = callback[h].chal
           /\ callback'[h].pc = "consuming" =>
                callback[h].pc = "consuming" /\ callback'[h].pending = callback[h].pending
  PROVE  AppStateTypeOK' /\ KnownOnceAnswered' /\ ProofBoundToRequest'
<1>. USE DEF IInv, Binding
<1>1. results \in [Challenge -> FlowEntry \cup {Absent}]
  BY DEF TypeOK, AppStateTypeOK
<1>2. results' \in [Challenge -> FlowEntry \cup {Absent}]
  BY <1>1, SetStatusType
<1>3. /\ results'[k].status = status
      /\ \A d \in Challenge \ {k} : results'[d] = results[d]
  BY <1>1 DEF SetStatus
<1>4. KnownOnceAnswered'
  BY <1>3, CallbackParts DEF KnownOnceAnswered
<1>5. ProofBoundToRequest'
  BY <1>3 DEF ProofBoundToRequest
<1>. QED  BY <1>2, <1>4, <1>5 DEF AppStateTypeOK, TypeOK

\* Recording a failure says nothing of a proof.
LEMMA RecordFailureIInv ==
  ASSUME IInv, NEW h \in Callback, RecordFailure(h)
  PROVE  IInv'
<1>. USE DEF IInv, Binding
<1>1. /\ callback \in [Callback -> CallbackRequest]
      /\ callback[h].pc = "failing"
      /\ callback[h].chal \in Challenge /\ creator[callback[h].chal].pc = "responded"
      /\ SetStatus(callback[h].chal, Failed)
      /\ callback' = [callback EXCEPT ![h].pc = "done"]
      /\ UNCHANGED <<challenges, granted, creator, task, server>>
  BY CallbackParts DEF RecordFailure, TypeOK, TaskReportsOwn, KnownOnceAnswered
<1>2. /\ callback' \in [Callback -> CallbackRequest]
      /\ callback'[h].pc = "done"
      /\ callback'[h].chal = callback[h].chal /\ callback'[h].pubkey = callback[h].pubkey
      /\ callback'[h].pending = callback[h].pending
      /\ callback'[h].token = callback[h].token
      /\ \A g \in Callback \ {h} : callback'[g] = callback[g]
  BY <1>1 DEF CallbackRequest, CallbackPc
<1>3. AppStateTypeOK' /\ KnownOnceAnswered' /\ ProofBoundToRequest'
  BY <1>1, <1>2, StatusTypes, SetStatusKeeps DEF Failed
<1>4. TypeOK'
  BY <1>1, <1>2, <1>3 DEF TypeOK, OAuthTypeOK
<1>. QED  BY <1>1, <1>2, <1>3, <1>4, CallbackMoves

\* oauth_complete says nothing of a proof.
LEMMA MarkOauthCompleteIInv ==
  ASSUME IInv, NEW h \in Callback, MarkOauthComplete(h)
  PROVE  IInv'
<1>. USE DEF IInv, Binding
<1>1. /\ callback \in [Callback -> CallbackRequest]
      /\ callback[h].pc = "marking"
      /\ callback[h].chal \in Challenge /\ creator[callback[h].chal].pc = "responded"
      /\ SetStatus(callback[h].chal, OauthComplete)
      /\ callback' = [callback EXCEPT ![h] =
                        [@ EXCEPT !.pc = "spawning", !.resp = "confirmed_page"]]
      /\ UNCHANGED <<challenges, granted, creator, task, server>>
  BY CallbackParts
     DEF MarkOauthComplete, TypeOK, CheckedBeforeExchange, HeldOnce, KnownOnceAnswered
<1>2. /\ callback' \in [Callback -> CallbackRequest]
      /\ callback'[h].pc = "spawning"
      /\ callback'[h].chal = callback[h].chal /\ callback'[h].pubkey = callback[h].pubkey
      /\ callback'[h].pending = callback[h].pending
      /\ callback'[h].token = callback[h].token
      /\ \A g \in Callback \ {h} : callback'[g] = callback[g]
  BY <1>1 DEF CallbackRequest, CallbackPc, Response
<1>3. AppStateTypeOK' /\ KnownOnceAnswered' /\ ProofBoundToRequest'
  BY <1>1, <1>2, StatusTypes, SetStatusKeeps DEF OauthComplete
<1>4. TypeOK'
  BY <1>1, <1>2, <1>3 DEF TypeOK, OAuthTypeOK
<1>. QED  BY <1>1, <1>2, <1>3, <1>4, CallbackMoves

\* A handler that is dropped leaves things as they are at its await.
LEMMA DropCallbackIInv ==
  ASSUME IInv, NEW h \in Callback, DropCallback(h)
  PROVE  IInv'
<1>. USE DEF IInv, Binding
<1>1. /\ callback \in [Callback -> CallbackRequest]
      /\ callback[h].pc \in {"consuming", "exchanging", "marking", "failing"}
      /\ callback' = [callback EXCEPT ![h].pc = "dropped"]
      /\ UNCHANGED <<challenges, results, granted, creator, task, server>>
  BY DEF DropCallback, TypeOK
<1>2. /\ callback' \in [Callback -> CallbackRequest]
      /\ callback'[h].pc = "dropped"
      /\ callback'[h].chal = callback[h].chal /\ callback'[h].pubkey = callback[h].pubkey
      /\ callback'[h].pending = callback[h].pending
      /\ callback'[h].token = callback[h].token
      /\ \A g \in Callback \ {h} : callback'[g] = callback[g]
  BY <1>1 DEF CallbackRequest, CallbackPc
<1>3. TypeOK'
  BY <1>1, <1>2 DEF TypeOK, AppStateTypeOK, OAuthTypeOK
<1>4. KnownOnceAnswered' /\ StoredAsRequested' /\ CodesAnnounced' /\ ProofBoundToRequest'
  BY <1>1, <1>2, CallbackParts
     DEF KnownOnceAnswered, StoredAsRequested, HoldsRequest, CodesAnnounced, ProofBoundToRequest
<1>5. HeldOnce'
  BY <1>1, <1>2 DEF HeldOnce, SingleUse, HoldsRequest
<1>6. CheckedBeforeExchange' /\ TaskReportsOwn'
  BY <1>1, <1>2 DEF CheckedBeforeExchange, TaskReportsOwn, ProofOf
<1>. QED  BY <1>3, <1>4, <1>5, <1>6

\* The task starts with the token of its own callback.
LEMMA SpawnVerificationIInv ==
  ASSUME IInv, NEW h \in Callback, SpawnVerification(h)
  PROVE  IInv'
<1>. USE DEF IInv, Binding
<1>1. /\ callback \in [Callback -> CallbackRequest] /\ task \in [Callback -> Task]
      /\ callback[h].pc = "spawning" /\ callback[h].token # Absent
      /\ callback' = [callback EXCEPT ![h].pc = "done"]
      /\ task' = [task EXCEPT ![h].pc = "running"]
      /\ UNCHANGED <<challenges, results, granted, creator, server>>
  BY DEF SpawnVerification, TypeOK, CheckedBeforeExchange
<1>2. /\ callback' \in [Callback -> CallbackRequest]
      /\ callback'[h].pc = "done"
      /\ callback'[h].chal = callback[h].chal /\ callback'[h].pubkey = callback[h].pubkey
      /\ callback'[h].pending = callback[h].pending
      /\ callback'[h].token = callback[h].token
      /\ \A g \in Callback \ {h} : callback'[g] = callback[g]
  BY <1>1 DEF CallbackRequest, CallbackPc
<1>3. /\ task' \in [Callback -> Task]
      /\ task'[h].pc = "running"
      /\ \A g \in Callback \ {h} : task'[g] = task[g]
  BY <1>1 DEF Task
<1>4. TypeOK'
  BY <1>1, <1>2, <1>3 DEF TypeOK, AppStateTypeOK, OAuthTypeOK
<1>5. CheckedBeforeExchange'
  BY <1>1, <1>2, <1>3 DEF CheckedBeforeExchange
<1>6. TaskReportsOwn'
  BY <1>1, <1>2, <1>3 DEF TaskReportsOwn, ProofOf
<1>. QED  BY <1>1, <1>2, <1>4, <1>5, <1>6, CallbackMoves

-----------------------------------------------------------------------------
\* The background task.

\* What a task can make a proof of is there: its callback's token, key and wallet.
LEMMA ProofOfType ==
  ASSUME IInv, NEW h \in Callback, task[h].pc # "none"
  PROVE  /\ callback[h].chal \in Challenge
         /\ creator[callback[h].chal].pc = "responded"
         /\ granted[callback[h].chal] # Absent
         /\ ProofOf(h) \in Proof
         /\ ProofOf(h) = [user    |-> granted[callback[h].chal].user,
                          session |-> SessionAddress(creator[callback[h].chal].pubkey),
                          wallet  |-> creator[callback[h].chal].wallet]
<1>. USE DEF IInv, Binding
<1>. DEFINE k == callback[h].chal
<1>1. /\ callback[h].token # Absent
      /\ callback[h].pending # Absent
      /\ callback[h].pubkey = callback[h].pending.pubkey
      /\ granted[k] # Absent
      /\ callback[h].token = granted[k].user
  BY DEF CheckedBeforeExchange
<1>2. /\ k \in Challenge
      /\ creator[k].pc = "responded"
      /\ callback[h].pending.pubkey = creator[k].pubkey
      /\ callback[h].pending.wallet = creator[k].wallet
  BY <1>1, CallbackParts DEF HeldOnce, HoldsRequest, KnownOnceAnswered
<1>3. /\ callback[h].token \in User
      /\ creator[k].pubkey \in Pubkey /\ creator[k].wallet \in Wallet
  BY <1>1, <1>2, CallbackParts DEF CallbackRequest, KnownOnceAnswered
<1>. QED  BY <1>1, <1>2, <1>3 DEF ProofOf, Proof

\* A task that ends has a failure or the proof of its own callback, or is dead.
LEMMA TaskStepIInv ==
  ASSUME IInv, NEW h \in Callback, RunVerification(h) \/ TaskPanics(h)
  PROVE  IInv'
<1>. USE DEF IInv, Binding
<1>1. /\ task \in [Callback -> Task]
      /\ task[h].pc = "running"
      /\ UNCHANGED <<challenges, results, granted, creator, callback, server>>
  BY DEF RunVerification, TaskPanics, TypeOK
<1>2. /\ task' \in [Callback -> Task]
      /\ \A g \in Callback \ {h} : task'[g] = task[g]
      /\ \/ task'[h].pc = "dead"
         \/ task'[h].pc = "finishing" /\ task'[h].result \in {Failed, Complete(ProofOf(h))}
  <2>1. CASE RunVerification(h)
    <3>1. PICK outcome \in {Failed, Complete(ProofOf(h))} :
            task' = [task EXCEPT ![h] = [pc |-> "finishing", result |-> outcome]]
      BY <2>1 DEF RunVerification, FlowOutcomes
    <3>2. outcome \in FlowStatus
      BY <1>1, StatusTypes, ProofOfType
    <3>. QED  BY <1>1, <3>1, <3>2 DEF Task
  <2>2. CASE TaskPanics(h)
    BY <1>1, <2>2 DEF TaskPanics, Task
  <2>. QED  BY <2>1, <2>2
<1>3. TypeOK'
  BY <1>1, <1>2 DEF TypeOK, AppStateTypeOK, OAuthTypeOK
<1>4. KnownOnceAnswered' /\ StoredAsRequested' /\ CodesAnnounced' /\ ProofBoundToRequest'
  BY <1>1 DEF KnownOnceAnswered, StoredAsRequested, HoldsRequest, CodesAnnounced,
              ProofBoundToRequest
<1>5. HeldOnce'
  BY <1>1 DEF HeldOnce, SingleUse, HoldsRequest
<1>6. CheckedBeforeExchange'
  BY <1>1, <1>2 DEF CheckedBeforeExchange
<1>7. TaskReportsOwn'
  BY <1>1, <1>2 DEF TaskReportsOwn, ProofOf
<1>. QED  BY <1>3, <1>4, <1>5, <1>6, <1>7

\* What the task reports is the proof that belongs to the challenge it reports
\* it for.
LEMMA ReportOutcomeIInv ==
  ASSUME IInv, NEW h \in Callback, ReportOutcome(h)
  PROVE  IInv'
<1>. USE DEF IInv, Binding
<1>. DEFINE k == callback[h].chal
<1>1. /\ task \in [Callback -> Task]
      /\ task[h].pc = "finishing"
      /\ task[h].result \in {Failed, Complete(ProofOf(h))}
      /\ SetStatus(k, task[h].result)
      /\ task' = [task EXCEPT ![h].pc = "reported"]
      /\ UNCHANGED <<challenges, granted, creator, callback, server>>
  BY DEF ReportOutcome, TypeOK, TaskReportsOwn
<1>2. task[h].result \in FlowStatus
  BY <1>1, StatusTypes, ProofOfType
<1>3. task[h].result.phase = "complete" => task[h].result.proof = ProofOf(h)
  BY <1>1 DEF Failed, Complete
<1>4. AppStateTypeOK' /\ KnownOnceAnswered' /\ ProofBoundToRequest'
  BY <1>1, <1>2, <1>3, ProofOfType, SetStatusKeeps
<1>5. /\ task' \in [Callback -> Task]
      /\ task'[h].pc = "reported" /\ task'[h].result = task[h].result
      /\ \A g \in Callback \ {h} : task'[g] = task[g]
  BY <1>1 DEF Task
<1>6. TypeOK'
  BY <1>1, <1>4, <1>5 DEF TypeOK, OAuthTypeOK
<1>7. StoredAsRequested' /\ CodesAnnounced' /\ HeldOnce'
  BY <1>1 DEF StoredAsRequested, HoldsRequest, CodesAnnounced, HeldOnce, SingleUse
<1>8. CheckedBeforeExchange'
  BY <1>1, <1>5 DEF CheckedBeforeExchange
<1>9. TaskReportsOwn'
  BY <1>1, <1>5 DEF TaskReportsOwn, ProofOf
<1>. QED  BY <1>4, <1>6, <1>7, <1>8, <1>9

-----------------------------------------------------------------------------
\* Time and the process.

\* Ageing changes no field the invariant looks at.
LEMMA TickIInv ==
  ASSUME IInv, Tick
  PROVE  IInv'
<1>. USE DEF IInv, Binding
<1>1. /\ challenges \in [Challenge -> PendingChallenge \cup {Absent}]
      /\ results \in [Challenge -> FlowEntry \cup {Absent}]
      /\ creator \in [Challenge -> Creator]
      /\ challenges' = Aged(challenges) /\ results' = Aged(results)
      /\ UNCHANGED <<granted, callback, task, server>>
  BY DEF Tick, TypeOK, AppStateTypeOK
<1>2. /\ challenges' \in [Challenge -> PendingChallenge \cup {Absent}]
      /\ results' \in [Challenge -> FlowEntry \cup {Absent}]
  BY <1>1, AgedChallengesType, AgedResultsType
<1>3. \A c \in Challenge :
        /\ challenges[c] = Absent => challenges'[c] = Absent
        /\ challenges[c] # Absent =>
             /\ challenges'[c] # Absent
             /\ challenges'[c].pubkey = challenges[c].pubkey
             /\ challenges'[c].verifier = challenges[c].verifier
             /\ challenges'[c].wallet = challenges[c].wallet
  <2>1. ASSUME NEW c \in Challenge, challenges[c] # Absent
        PROVE  /\ challenges'[c] = [challenges[c] EXCEPT !.age = Elapse(@)]
               /\ challenges[c] \in PendingChallenge
    BY <1>1, <2>1 DEF Aged
  <2>. QED  BY <1>1, <1>2, <2>1, AbsentAssumption, ElapseType DEF Aged, PendingChallenge
<1>4. \A c \in Challenge :
        /\ results[c] = Absent => results'[c] = Absent
        /\ results[c] # Absent => results'[c] # Absent /\ results'[c].status = results[c].status
  <2>1. ASSUME NEW c \in Challenge, results[c] # Absent
        PROVE  /\ results'[c] = [results[c] EXCEPT !.age = Elapse(@)]
               /\ results[c] \in FlowEntry
    BY <1>1, <2>1 DEF Aged
  <2>. QED  BY <1>1, <1>2, <2>1, AbsentAssumption, ElapseType DEF Aged, FlowEntry
<1>5. /\ creator' \in [Challenge -> Creator]
      /\ \A c \in Challenge : /\ creator'[c].pc = creator[c].pc
                             /\ creator'[c].pubkey = creator[c].pubkey
                             /\ creator'[c].wallet = creator[c].wallet
  BY <1>1, ElapseType DEF Tick, Creator
<1>6. TypeOK'
  BY <1>1, <1>2, <1>5 DEF TypeOK, AppStateTypeOK, OAuthTypeOK
<1>7. KnownOnceAnswered'
  BY <1>1, <1>3, <1>4, <1>5, CallbackParts DEF KnownOnceAnswered
<1>8. StoredAsRequested'
  BY <1>1, <1>3, <1>5 DEF StoredAsRequested, HoldsRequest
<1>9. HeldOnce'
  BY <1>1, <1>3, <1>5, CallbackParts DEF HeldOnce, SingleUse, HoldsRequest
<1>10. CodesAnnounced' /\ CheckedBeforeExchange' /\ TaskReportsOwn'
  BY <1>1 DEF CodesAnnounced, CheckedBeforeExchange, TaskReportsOwn, ProofOf
<1>11. ProofBoundToRequest'
  BY <1>1, <1>4, <1>5 DEF ProofBoundToRequest
<1>. QED  BY <1>6, <1>7, <1>8, <1>9, <1>10, <1>11

\* Whatever ends the process only removes: entries, handlers and tasks.
LEMMA ProcessStepIInv ==
  ASSUME IInv, ProcessStep
  PROVE  IInv'
<1>. USE DEF IInv, Binding
<1>0. PICK zero \in Age : zero = 0
  BY TTLAssumption DEF Age
<1>1. /\ granted' = granted
      /\ server' \in {"serving", "draining", "stopped"}
      /\ \A c \in Challenge : challenges'[c] \in {challenges[c], Absent}
                            /\ results'[c] \in {results[c], Absent}
      /\ challenges' \in [Challenge -> PendingChallenge \cup {Absent}]
      /\ results' \in [Challenge -> FlowEntry \cup {Absent}]
  BY DEF ProcessStep, CtrlC, Exit, Crash, Start, ProcessEnds, TypeOK, AppStateTypeOK
<1>2. /\ creator' \in [Challenge -> Creator]
      /\ \A c \in Challenge :
           /\ creator'[c].pubkey = creator[c].pubkey
           /\ creator'[c].wallet = creator[c].wallet
           /\ \/ creator'[c].pc = creator[c].pc
              \/ creator[c].pc \in {"minted", "stored"} /\ creator'[c].pc = "dropped"
  <2>1. CASE creator' = creator
    BY <2>1 DEF TypeOK
  <2>2. CASE creator' = [c \in Challenge |->
                IF CreatorActive(c)
                THEN [creator[c] EXCEPT !.pc = "dropped", !.age = zero] ELSE creator[c]]
    BY <2>2 DEF TypeOK, Creator, CreatorActive
  <2>. QED  BY <1>0, <2>1, <2>2 DEF ProcessStep, CtrlC, Exit, Crash, Start
<1>3. /\ callback' \in [Callback -> CallbackRequest]
      /\ \A h \in Callback :
           /\ callback'[h].chal = callback[h].chal
           /\ callback'[h].pubkey = callback[h].pubkey
           /\ callback'[h].pending = callback[h].pending
           /\ callback'[h].token = callback[h].token
           /\ callback'[h].pc \in {callback[h].pc, "dropped"}
  <2>1. CASE callback' = callback
    BY <2>1 DEF TypeOK
  <2>2. CASE callback' = [h \in Callback |->
                IF CallbackActive(h)
                THEN [callback[h] EXCEPT !.pc = "dropped"] ELSE callback[h]]
    BY <2>2 DEF TypeOK, CallbackRequest, CallbackPc
  <2>. QED  BY <2>1, <2>2 DEF ProcessStep, CtrlC, Exit, Crash, Start
<1>4. /\ task' \in [Callback -> Task]
      /\ \A h \in Callback :
           \/ task'[h] = task[h]
           \/ task[h].pc # "none" /\ task'[h].pc = "dead"
  <2>1. CASE task' = task
    BY <2>1 DEF TypeOK
  <2>2. CASE task' = [h \in Callback |->
                IF TaskActive(h) THEN [task[h] EXCEPT !.pc = "dead"] ELSE task[h]]
    BY <2>2 DEF TypeOK, Task, TaskActive
  <2>. QED  BY <2>1, <2>2 DEF ProcessStep, CtrlC, Exit, Crash, Start, ProcessEnds
<1>5. TypeOK'
  BY <1>1, <1>2, <1>3, <1>4 DEF TypeOK, AppStateTypeOK, OAuthTypeOK
<1>6. KnownOnceAnswered'
  BY <1>1, <1>2, <1>3, CallbackParts DEF KnownOnceAnswered
<1>7. StoredAsRequested' /\ CodesAnnounced'
  BY <1>1, <1>2 DEF StoredAsRequested, HoldsRequest, CodesAnnounced
<1>8. HeldOnce'
  BY <1>1, <1>2, <1>3, CallbackParts DEF HeldOnce, SingleUse, HoldsRequest
<1>9. CheckedBeforeExchange'
  BY <1>1, <1>3, <1>4 DEF CheckedBeforeExchange
<1>10. TaskReportsOwn'
  BY <1>3, <1>4 DEF TaskReportsOwn, ProofOf, HeldOnce
<1>11. ProofBoundToRequest'
  BY <1>1, <1>2 DEF ProofBoundToRequest
<1>. QED  BY <1>5, <1>6, <1>7, <1>8, <1>9, <1>10, <1>11

-----------------------------------------------------------------------------
\* The theorems.

\* Every step of every request, of the environment and of the process preserves
\* the invariant.
LEMMA NextIInv == IInv /\ [Next]_vars => IInv'
<1>. SUFFICES ASSUME IInv, [Next]_vars PROVE IInv'
  OBVIOUS
<1>1. ASSUME NEW c \in Challenge, CreatorStep(c) PROVE IInv'
  BY <1>1, ChallengeGithubIInv, CreateChallengeIInv, CreateSlotIInv, AuthorizeIInv,
     DropCreatorIInv DEF CreatorStep
<1>2. ASSUME NEW h \in Callback, CallbackStep(h) PROVE IInv'
  BY <1>2, ReceiveCallbackIInv, ConsumeIInv, ExchangeAnsweredIInv, RecordFailureIInv,
     MarkOauthCompleteIInv, SpawnVerificationIInv, DropCallbackIInv DEF CallbackStep
<1>3. ASSUME NEW h \in Callback, TaskStep(h) PROVE IInv'
  BY <1>3, TaskStepIInv, ReportOutcomeIInv DEF TaskStep
<1>4. CASE UNCHANGED vars
  BY <1>4 DEF vars, IInv, Binding, TypeOK, AppStateTypeOK, OAuthTypeOK, KnownOnceAnswered,
     StoredAsRequested, HoldsRequest, CodesAnnounced, HeldOnce, SingleUse,
     CheckedBeforeExchange, TaskReportsOwn, ProofOf, ProofBoundToRequest
<1>. QED  BY <1>1, <1>2, <1>3, <1>4, TickIInv, ProcessStepIInv DEF Next

\* The invariant holds in every reachable state.
THEOREM Invariance == Spec => []IInv
<1>. QED  BY InitIInv, NextIInv, PTL DEF Spec

\* Every variable always has its type.
THEOREM TypeCorrect == Spec => []TypeOK
<1>1. IInv => TypeOK
  BY DEF IInv
<1>. QED  BY <1>1, Invariance, PTL

\* No two callbacks are ever handed the same pending challenge, however many race
\* or replay, and whatever is swept, dropped or restarted meanwhile.
THEOREM ChallengesAreSingleUse == Spec => []SingleUse
<1>1. IInv => SingleUse
  BY DEF IInv, Binding, HeldOnce
<1>. QED  BY <1>1, Invariance, PTL

\* A proof is only ever served for the challenge whose key, wallet and GitHub
\* authorization it is made out to.
THEOREM ProofsAreBound == Spec => []ProofBoundToRequest
<1>1. IInv => ProofBoundToRequest
  BY DEF IInv, Binding
<1>. QED  BY <1>1, Invariance, PTL
=============================================================================
