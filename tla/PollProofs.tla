----------------------------- MODULE PollProofs -----------------------------
(***************************************************************************)
(* Theorems about what a poll reads, for any number of requests and any    *)
(* TTL.  They rest on the invariant of HandleClaimProofs, and follow the   *)
(* two maps through their two TTLs.                                        *)
(***************************************************************************)
EXTENDS HandleClaimProofs

\* The slot of a challenge that can still be used has not been touched since it
\* was opened, and it was opened after the challenge was created: so it expires,
\* and is swept, no earlier.
SlotOutlives(c) ==
  results[c] # Absent /\ results[c].status = Waiting /\ results[c].age <= challenges[c].age

Usable(c) ==
  creator[c].pc = "responded" /\ challenges[c] # Absent /\ ~Expired(challenges[c])

UsableHasSlot == \A c \in Challenge : Usable(c) => SlotOutlives(c)

\* With a TTL of zero no callback gets past the expiry check, and every request
\* that is answered sweeps out what the last one left in a map.
NothingRuns ==
  \A h \in Callback :
    /\ callback[h].pc \notin {"exchanging", "marking", "spawning", "failing"}
    /\ task[h].pc = "none"

AtMostOne(map) == \A c, d \in Challenge : map[c] # Absent /\ map[d] # Absent => c = d

ZeroTtlRunsNothing ==
  TTL = 0 => NothingRuns /\ AtMostOne(challenges) /\ AtMostOne(results)

-----------------------------------------------------------------------------
\* The comparisons with the TTL.

\* Time passes for a challenge and its slot alike: the slot stays the younger,
\* and what was expired stays so.
LEMMA ElapseMonotone ==
  ASSUME NEW a \in Age, NEW b \in Age, a <= b
  PROVE  /\ Elapse(a) <= Elapse(b)
         /\ Elapse(b) < TTL => b < TTL
BY TTLAssumption DEF Elapse, Age

\* An age is a number, and any is expired for a TTL of zero.
LEMMA AgesOfEntries ==
  ASSUME TypeOK, NEW c \in Challenge
  PROVE  /\ challenges[c] # Absent => challenges[c].age \in Age
         /\ results[c] # Absent => results[c].age \in Age
         /\ \A n \in Age : n \in Nat /\ (TTL = 0 => n >= TTL)
<1>1. challenges[c] # Absent => challenges[c] \in PendingChallenge
  BY DEF TypeOK, AppStateTypeOK
<1>2. results[c] # Absent => results[c] \in FlowEntry
  BY DEF TypeOK, AppStateTypeOK
<1>. QED  BY <1>1, <1>2, TTLAssumption DEF PendingChallenge, FlowEntry, Age

-----------------------------------------------------------------------------
\* A usable challenge has its slot.

\* Steps that leave a challenge's own entries alone, or take its challenge away.
LEMMA EntriesKept ==
  ASSUME UsableHasSlot, NEW c \in Challenge,
         creator'[c].pc = creator[c].pc,
         challenges'[c] \in {challenges[c], Absent},
         challenges'[c] # Absent => results'[c] = results[c]
  PROVE  Usable(c)' => SlotOutlives(c)'
BY DEF UsableHasSlot, Usable, SlotOutlives, Expired

\* The first lock: other challenges may be swept; this one is not answered yet.
LEMMA CreateChallengeSlot ==
  ASSUME IInv, UsableHasSlot, NEW d \in Challenge, CreateChallenge(d)
  PROVE  UsableHasSlot'
<1>. SUFFICES ASSUME NEW c \in Challenge PROVE Usable(c)' => SlotOutlives(c)'
  BY DEF UsableHasSlot
<1>1. /\ creator \in [Challenge -> Creator] /\ challenges \in [Challenge -> PendingChallenge \cup {Absent}]
      /\ results' = results
  BY DEF CreateChallenge, IInv, TypeOK, AppStateTypeOK
<1>2. CASE c = d
  BY <1>1, <1>2 DEF CreateChallenge, Usable, Creator
<1>3. CASE c # d
  <2>1. creator'[c].pc = creator[c].pc
    BY <1>1, <1>3 DEF CreateChallenge
  <2>2. challenges'[c] \in {challenges[c], Absent}
    BY <1>1, <1>3 DEF CreateChallenge, StoreChallenge, SweptChallenges
  <2>. QED  BY <1>1, <2>1, <2>2, EntriesKept
<1>. QED  BY <1>2, <1>3

\* The second lock: the new slot is fresh, and the sweep takes no slot whose
\* challenge is not expired as well.
LEMMA CreateSlotSlot ==
  ASSUME IInv, UsableHasSlot, NEW d \in Challenge, CreateSlot(d)
  PROVE  UsableHasSlot'
<1>. SUFFICES ASSUME NEW c \in Challenge, Usable(c)' PROVE SlotOutlives(c)'
  BY DEF UsableHasSlot
<1>1. /\ creator \in [Challenge -> Creator] /\ results \in [Challenge -> FlowEntry \cup {Absent}]
      /\ challenges' = challenges
      /\ results' = [SweptResults EXCEPT ![d] = [status |-> Waiting, age |-> 0]]
  BY DEF CreateSlot, OpenSlot, IInv, TypeOK, AppStateTypeOK
<1>2. challenges[c] # Absent /\ challenges[c].age \in Nat /\ ~Expired(challenges[c])
  BY <1>1, AgesOfEntries DEF Usable, IInv, Expired
<1>3. CASE c = d
  <2>1. results'[c] = [status |-> Waiting, age |-> 0]
    BY <1>1, <1>3 DEF SweptResults
  <2>2. results'[c] # Absent
    <3>1. [status |-> Waiting, age |-> 0] \in FlowEntry
      BY StatusTypes, TTLAssumption DEF FlowEntry, Age
    <3>. QED  BY <2>1, <3>1, AbsentAssumption
  <2>. QED  BY <1>1, <1>2, <2>1, <2>2 DEF SlotOutlives
<1>4. CASE c # d
  <2>1. creator'[c] = creator[c] /\ results'[c] = SweptResults[c]
    BY <1>1, <1>4 DEF CreateSlot, SweptResults
  <2>2. SlotOutlives(c)
    BY <1>1, <2>1 DEF UsableHasSlot, Usable, Expired
  <2>3. KeepsResult(results[c])
    BY <1>2, <2>2, AgesOfEntries, TTLAssumption DEF IInv, SlotOutlives, Expired, KeepsResult
  <2>4. results'[c] = results[c]
    BY <1>1, <2>1, <2>2, <2>3 DEF SweptResults, SlotOutlives
  <2>. QED  BY <1>1, <2>2, <2>4 DEF SlotOutlives
<1>. QED  BY <1>3, <1>4

\* Every other step of a request: a callback writes only slots of challenges that
\* it has taken out of the map.
LEMMA CreatorStepSlot ==
  ASSUME IInv, UsableHasSlot, NEW d \in Challenge, CreatorStep(d)
  PROVE  UsableHasSlot'
<1>1. creator \in [Challenge -> Creator]
  BY DEF IInv, TypeOK
<1>2. ASSUME ChallengeGithub(d) \/ Authorize(d) \/ DropCreator(d) PROVE UsableHasSlot'
  <2>. SUFFICES ASSUME NEW c \in Challenge, Usable(c)' PROVE SlotOutlives(c)'
    BY DEF UsableHasSlot
  <2>1. challenges' = challenges /\ results' = results
    BY <1>2 DEF ChallengeGithub, Authorize, IssueCode, DropCreator
  <2>2. creator'[c].pc = "responded" => creator[c].pc = "responded"
    <3>1. CASE ChallengeGithub(d)
      <4>1. PICK p \in Pubkey, w \in Wallet :
              creator' = [creator EXCEPT ![d] =
                IF ValidRequest(p, w)
                THEN [pc |-> "minted", pubkey |-> p, wallet |-> w, age |-> 0]
                ELSE [NoRequest EXCEPT !.pc = "rejected"]]
        BY <3>1 DEF ChallengeGithub
      <4>. QED  BY <1>1, <4>1 DEF NoRequest
    <3>2. CASE Authorize(d)
      BY <3>2 DEF Authorize
    <3>3. CASE DropCreator(d)
      BY <1>1, <3>3 DEF DropCreator
    <3>. QED  BY <1>2, <3>1, <3>2, <3>3
  <2>. QED  BY <2>1, <2>2 DEF UsableHasSlot, Usable, SlotOutlives, Expired
<1>. QED  BY <1>2, CreateChallengeSlot, CreateSlotSlot DEF CreatorStep

\* No step of a callback or its task touches the slot of a challenge still in the map.
LEMMA RequestStepSlot ==
  ASSUME IInv, UsableHasSlot, NEW h \in Callback, CallbackStep(h) \/ TaskStep(h)
  PROVE  UsableHasSlot'
<1>. SUFFICES ASSUME NEW c \in Challenge PROVE Usable(c)' => SlotOutlives(c)'
  BY DEF UsableHasSlot
<1>1. /\ challenges \in [Challenge -> PendingChallenge \cup {Absent}]
      /\ results \in [Challenge -> FlowEntry \cup {Absent}]
      /\ callback[h] \in CallbackRequest
  BY DEF IInv, TypeOK, AppStateTypeOK
<1>2. CASE Consume(h)
  <2>1. challenges'[c] \in {challenges[c], Absent}
    BY <1>1, <1>2 DEF Consume, ConsumeChallenge
  <2>. QED  BY <1>2, <2>1, EntriesKept DEF Consume
<1>3. ASSUME NEW status, SetStatus(callback[h].chal, status),
             challenges' = challenges, creator' = creator,
             callback[h].pending # Absent
      PROVE  Usable(c)' => SlotOutlives(c)'
  <2>1. challenges[callback[h].chal] = Absent
    BY <1>3 DEF IInv, Binding, HeldOnce
  <2>2. challenges[c] # Absent => results'[c] = results[c]
    BY <1>1, <1>3, <2>1 DEF SetStatus
  <2>. QED  BY <1>3, <2>2, EntriesKept
<1>4. callback[h].pc \in {"marking", "failing"} \/ task[h].pc = "finishing"
        => callback[h].pending # Absent
  BY DEF IInv, Binding, CheckedBeforeExchange, TaskReportsOwn
<1>5. CASE RecordFailure(h)
  BY <1>3, <1>4, <1>5 DEF RecordFailure
<1>6. CASE MarkOauthComplete(h)
  BY <1>3, <1>4, <1>6 DEF MarkOauthComplete
<1>7. CASE ReportOutcome(h)
  BY <1>3, <1>4, <1>7 DEF ReportOutcome
<1>8. ASSUME UNCHANGED <<challenges, results, creator>>
      PROVE  Usable(c)' => SlotOutlives(c)'
  BY <1>8, EntriesKept
<1>. QED  BY <1>2, <1>5, <1>6, <1>7, <1>8
          DEF CallbackStep, TaskStep, ReceiveCallback, ExchangeAnswered, ExchangeFails,
              SpawnVerification, DropCallback, RunVerification, TaskPanics

\* Time: the challenge and its slot age alike.
LEMMA TickSlot ==
  ASSUME IInv, UsableHasSlot, Tick
  PROVE  UsableHasSlot'
<1>. SUFFICES ASSUME NEW c \in Challenge, Usable(c)' PROVE SlotOutlives(c)'
  BY DEF UsableHasSlot
<1>1. /\ challenges \in [Challenge -> PendingChallenge \cup {Absent}]
      /\ results \in [Challenge -> FlowEntry \cup {Absent}]
      /\ creator \in [Challenge -> Creator]
  BY DEF IInv, TypeOK, AppStateTypeOK
<1>2. creator'[c].pc = creator[c].pc
  BY <1>1 DEF Tick, Creator
<1>3. challenges[c] # Absent /\ challenges'[c] = [challenges[c] EXCEPT !.age = Elapse(@)]
  BY DEF Tick, Aged, Usable
<1>4. /\ challenges[c] \in PendingChallenge
      /\ challenges'[c].age = Elapse(challenges[c].age)
      /\ challenges[c].age \in Age /\ Elapse(challenges[c].age) \in Age
  BY <1>1, <1>3, ElapseType DEF PendingChallenge
<1>5. challenges[c].age < TTL
  BY <1>4, ElapseMonotone, TTLAssumption DEF Usable, Expired, Age
<1>6. SlotOutlives(c)
  BY <1>2, <1>3, <1>4, <1>5, TTLAssumption DEF UsableHasSlot, Usable, Expired, Age
<1>7. /\ results[c] \in FlowEntry /\ results[c].age \in Age
      /\ results'[c] = [results[c] EXCEPT !.age = Elapse(@)]
  BY <1>1, <1>6 DEF Tick, Aged, SlotOutlives, FlowEntry
<1>8. /\ results'[c].status = Waiting /\ results'[c].age = Elapse(results[c].age)
      /\ results'[c] \in FlowEntry
  BY <1>6, <1>7, ElapseType DEF SlotOutlives, FlowEntry
<1>9. results'[c].age <= challenges'[c].age
  BY <1>4, <1>6, <1>7, <1>8, ElapseMonotone DEF SlotOutlives
<1>. QED  BY <1>8, <1>9, AbsentAssumption DEF SlotOutlives

\* The process begins and ends with empty maps.
LEMMA ProcessStepSlot ==
  ASSUME IInv, UsableHasSlot, ProcessStep
  PROVE  UsableHasSlot'
<1>1. CASE CtrlC
  BY <1>1 DEF CtrlC, UsableHasSlot, Usable, SlotOutlives, Expired
<1>2. CASE Exit \/ Crash \/ Start
  BY <1>2 DEF Exit, Crash, Start, ProcessEnds, UsableHasSlot, Usable
<1>. QED  BY <1>1, <1>2 DEF ProcessStep

\* Every step of the server leaves each usable challenge with a slot that outlives it.
LEMMA NextSlot == IInv /\ UsableHasSlot /\ [Next]_vars => UsableHasSlot'
<1>. SUFFICES ASSUME IInv, UsableHasSlot, [Next]_vars PROVE UsableHasSlot'
  OBVIOUS
<1>1. CASE UNCHANGED vars
  BY <1>1 DEF vars, UsableHasSlot, Usable, SlotOutlives, Expired
<1>. QED  BY <1>1, CreatorStepSlot, RequestStepSlot, TickSlot, ProcessStepSlot DEF Next

-----------------------------------------------------------------------------
\* Nothing runs with a TTL of zero, and nothing is kept.

\* No callback gets to where it writes a status or spawns a task.
LEMMA NextNothingRuns == TTL = 0 /\ IInv /\ NothingRuns /\ [Next]_vars => NothingRuns'
<1>. SUFFICES ASSUME IInv, TTL = 0, NothingRuns, [Next]_vars PROVE NothingRuns'
  OBVIOUS
<1>1. /\ callback \in [Callback -> CallbackRequest]
      /\ task \in [Callback -> Task]
  BY DEF IInv, TypeOK
<1>2. \A c \in Challenge : challenges[c] = Absent \/ Expired(challenges[c])
  BY AgesOfEntries DEF IInv, Expired
<1>4. ASSUME UNCHANGED <<callback, task>> PROVE NothingRuns'
  BY <1>4 DEF NothingRuns
<1>5. ASSUME NEW h \in Callback, Consume(h) PROVE NothingRuns'
  <2>1. callback[h].chal \in Challenge
    BY <1>1, <1>5, CallbackParts DEF Consume, IInv, Binding, KnownOnceAnswered
  <2>2. PICK resp :
          callback' = [callback EXCEPT ![h] =
            [@ EXCEPT !.pc = "done", !.resp = resp, !.pending = challenges[callback[h].chal]]]
    BY <1>2, <1>5, <2>1 DEF Consume
  <2>. QED  BY <1>1, <1>5, <2>2 DEF Consume, NothingRuns, CallbackRequest
<1>6. ASSUME NEW h \in Callback, NEW r, r.pc \in {"done", "consuming", "dropped"},
             callback' = [callback EXCEPT ![h] = r], task' = task
      PROVE  NothingRuns'
  BY <1>1, <1>6 DEF NothingRuns
<1>7. ASSUME NEW h \in Callback, ReceiveCallback(h) PROVE NothingRuns'
  <2>. DEFINE Answers(r, state) ==
         LET parsed == ParseOauthState(state) IN
         callback' = [callback EXCEPT ![h] =
           IF parsed = Absent
           THEN [NoCallback EXCEPT !.pc = "done", !.resp = "bad_request"]
           ELSE [NoCallback EXCEPT !.pc = "consuming",
                                   !.chal = parsed.chal,
                                   !.pubkey = parsed.pubkey,
                                   !.error = r.error,
                                   !.code = r.code]]
  <2>0. PICK c \in Challenge, p \in Pubkey, r \in Redirects :
          \E state \in Copies(FormatOauthState(c, p)) : Answers(r, state)
    BY <1>7 DEF ReceiveCallback
  <2>1. PICK state \in Copies(FormatOauthState(c, p)) : Answers(r, state)
    BY <2>0
  <2>. DEFINE parsed == ParseOauthState(state)
              refused == [NoCallback EXCEPT !.pc = "done", !.resp = "bad_request"]
              received == [NoCallback EXCEPT !.pc = "consuming",
                                             !.chal = parsed.chal,
                                             !.pubkey = parsed.pubkey,
                                             !.error = r.error,
                                             !.code = r.code]
  <2>2. refused.pc = "done" /\ received.pc = "consuming"
    BY DEF NoCallback
  <2>3. \/ callback' = [callback EXCEPT ![h] = refused]
        \/ callback' = [callback EXCEPT ![h] = received]
    BY <2>1
  <2>4. task' = task
    BY <1>7 DEF ReceiveCallback
  <2>. HIDE DEF refused, received
  <2>. QED  BY <1>6, <2>2, <2>3, <2>4
<1>8. ASSUME NEW h \in Callback, DropCallback(h) PROVE NothingRuns'
  BY <1>1, <1>8 DEF DropCallback, NothingRuns, CallbackRequest
<1>9. ASSUME ProcessStep PROVE NothingRuns'
  <2>1. CASE CtrlC \/ Start
    BY <2>1, <1>4 DEF CtrlC, Start
  <2>2. ASSUME ProcessEnds PROVE \A h \in Callback : task'[h].pc = "none"
    BY <1>1, <2>2 DEF ProcessEnds, NothingRuns, TaskActive
  <2>3. CASE Exit
    BY <2>2, <2>3 DEF Exit, NothingRuns
  <2>4. CASE Crash
    <3>1. \A h \in Callback : \/ callback'[h] = callback[h]
                             \/ callback'[h].pc = "dropped"
      BY <1>1, <2>4 DEF Crash, CallbackRequest
    <3>. QED  BY <2>2, <2>4, <3>1 DEF Crash, NothingRuns
  <2>. QED  BY <1>9, <2>1, <2>3, <2>4 DEF ProcessStep
<1>10. ASSUME NEW c \in Challenge, CreatorStep(c) PROVE NothingRuns'
  BY <1>4, <1>10 DEF CreatorStep, ChallengeGithub, CreateChallenge, CreateSlot, Authorize,
                     DropCreator
<1>11. ASSUME NEW h \in Callback, CallbackStep(h) PROVE NothingRuns'
  BY <1>5, <1>7, <1>8, <1>11 DEF CallbackStep, ExchangeAnswered, RecordFailure,
                     MarkOauthComplete, SpawnVerification, NothingRuns
<1>12. ASSUME NEW h \in Callback, TaskStep(h) PROVE NothingRuns'
  BY <1>12 DEF TaskStep, RunVerification, TaskPanics, ReportOutcome, NothingRuns
<1>13. CASE Tick \/ UNCHANGED vars
  BY <1>4, <1>13 DEF Tick, vars
<1>. QED  BY <1>9, <1>10, <1>11, <1>12, <1>13 DEF Next

\* The sweep of create_challenge leaves what it stores, and nothing else.
LEMMA NextKeepsNothing ==
  TTL = 0 /\ IInv /\ ZeroTtlRunsNothing /\ [Next]_vars
    => AtMostOne(challenges)' /\ AtMostOne(results)'
<1>. SUFFICES ASSUME TTL = 0, IInv, NothingRuns, AtMostOne(challenges),
                     AtMostOne(results), [Next]_vars
              PROVE  AtMostOne(challenges)' /\ AtMostOne(results)'
  BY DEF ZeroTtlRunsNothing
<1>1. /\ challenges \in [Challenge -> PendingChallenge \cup {Absent}]
      /\ results \in [Challenge -> FlowEntry \cup {Absent}]
  BY DEF IInv, TypeOK, AppStateTypeOK
<1>2. ASSUME \A c \in Challenge : /\ challenges[c] = Absent => challenges'[c] = Absent
                                  /\ results[c] = Absent => results'[c] = Absent
      PROVE  AtMostOne(challenges)' /\ AtMostOne(results)'
  BY <1>2 DEF AtMostOne
<1>3. ASSUME UNCHANGED <<challenges, results>>
      PROVE  AtMostOne(challenges)' /\ AtMostOne(results)'
  BY <1>2, <1>3
<1>4. ASSUME NEW c \in Challenge, CreateChallenge(c)
      PROVE  AtMostOne(challenges)' /\ AtMostOne(results)'
  <2>1. \A d \in Challenge : SweptChallenges[d] = Absent
    BY <1>1, AgesOfEntries DEF SweptChallenges, KeepsChallenge, IInv
  <2>2. \A d \in Challenge \ {c} : challenges'[d] = SweptChallenges[d]
    BY <1>4 DEF CreateChallenge, StoreChallenge, SweptChallenges
  <2>. QED  BY <1>4, <2>1, <2>2 DEF CreateChallenge, AtMostOne
<1>5. ASSUME NEW c \in Challenge, CreateSlot(c)
      PROVE  AtMostOne(challenges)' /\ AtMostOne(results)'
  <2>1. \A d \in Challenge : SweptResults[d] = Absent
    BY <1>1, AgesOfEntries DEF SweptResults, KeepsResult, IInv
  <2>2. \A d \in Challenge \ {c} : results'[d] = SweptResults[d]
    BY <1>5 DEF CreateSlot, OpenSlot, SweptResults
  <2>. QED  BY <1>5, <2>1, <2>2 DEF CreateSlot, AtMostOne
<1>6. ASSUME NEW c \in Challenge, CreatorStep(c)
      PROVE  AtMostOne(challenges)' /\ AtMostOne(results)'
  BY <1>3, <1>4, <1>5, <1>6 DEF CreatorStep, ChallengeGithub, Authorize, IssueCode, DropCreator
<1>7. ASSUME NEW h \in Callback, CallbackStep(h)
      PROVE  AtMostOne(challenges)' /\ AtMostOne(results)'
  <2>1. CASE Consume(h)
    BY <1>1, <1>2, <2>1 DEF Consume, ConsumeChallenge
  <2>2. CASE ReceiveCallback(h) \/ DropCallback(h)
    BY <1>3, <2>2 DEF ReceiveCallback, DropCallback
  <2>. QED  BY <1>7, <2>1, <2>2
            DEF CallbackStep, ExchangeAnswered, RecordFailure, MarkOauthComplete,
                SpawnVerification, NothingRuns
<1>8. ASSUME NEW h \in Callback, TaskStep(h) PROVE FALSE
  BY <1>1, <1>8 DEF TaskStep, RunVerification, TaskPanics, ReportOutcome, NothingRuns
<1>9. CASE Tick
  BY <1>2, <1>9 DEF Tick, Aged
<1>10. CASE ProcessStep
  BY <1>2, <1>10 DEF ProcessStep, CtrlC, Exit, Crash, Start, ProcessEnds
<1>. QED  BY <1>3, <1>6, <1>7, <1>8, <1>9, <1>10 DEF Next, vars

\* Both at once, as the invariant they are.
LEMMA NextZeroTtl == IInv /\ ZeroTtlRunsNothing /\ [Next]_vars => ZeroTtlRunsNothing'
BY NextNothingRuns, NextKeepsNothing DEF ZeroTtlRunsNothing

-----------------------------------------------------------------------------
\* The theorems.

\* Where each part of a proof comes from, at every point between the request and
\* the result: the whole of the binding invariant (challenge_github,
\* callback_github, run_verification).
THEOREM BindingHolds == Spec => []Binding
<1>1. IInv => Binding
  BY DEF IInv
<1>. QED  BY <1>1, Invariance, PTL

\* As long as a challenge can be used, a poll of it is told to wait, whatever the
\* sweeps of other clients take in between (create_challenge, status_json).
THEOREM UsableIsPending == Spec => []UsableChallengeReadsPending
<1>1. Init => UsableHasSlot
  BY DEF Init, AppStateInit, UsableHasSlot, Usable
<1>2. IInv /\ UsableHasSlot => UsableChallengeReadsPending
  <2>. SUFFICES ASSUME IInv, UsableHasSlot, NEW c \in Challenge, Usable(c)
                PROVE  StatusJson(c) = Waiting
    BY DEF UsableChallengeReadsPending, Usable
  <2>1. SlotOutlives(c)
    BY DEF UsableHasSlot
  <2>2. /\ challenges[c].age \in Nat /\ results[c].age \in Nat
        /\ challenges[c].age < TTL
    BY <2>1, AgesOfEntries, TTLAssumption DEF IInv, Usable, SlotOutlives, Expired
  <2>. QED  BY <2>1, <2>2, TTLAssumption DEF StatusJson, SlotOutlives, Unreadable
<1>. QED  BY <1>1, <1>2, NextSlot, Invariance, PTL DEF Spec

\* With CHALLENGE_TTL_SECS = 0 no poll finds anything, no flow ever starts, and a
\* map holds at most what the last request put there (the four comparisons with the
\* TTL: status_json, callback_github, and the two sweeps of create_challenge).
THEOREM ZeroTtlIsInert == Spec => []ZeroTtlKeepsNothing
<1>1. Init => ZeroTtlRunsNothing
  BY DEF Init, AppStateInit, NoCallback, NoTask, ZeroTtlRunsNothing, NothingRuns, AtMostOne
<1>2. IInv /\ ZeroTtlRunsNothing => ZeroTtlKeepsNothing
  <2>. SUFFICES ASSUME IInv, TTL = 0, ZeroTtlRunsNothing PROVE ZeroTtlKeepsNothing
    BY DEF ZeroTtlKeepsNothing
  <2>1. ASSUME NEW c \in Challenge PROVE StatusJson(c) = Absent
    BY AgesOfEntries DEF IInv, StatusJson, Unreadable
  <2>. QED  BY <2>1 DEF ZeroTtlRunsNothing, ZeroTtlKeepsNothing, NothingRuns, AtMostOne
<1>. QED  BY <1>1, <1>2, NextZeroTtl, Invariance, PTL DEF Spec
=============================================================================
