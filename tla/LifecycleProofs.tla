-------------------------- MODULE LifecycleProofs --------------------------
(***************************************************************************)
(* Theorems about the life of a claim, for any number of requests and any  *)
(* TTL: what a poll and a popup are told, that an outcome is final, and    *)
(* that HandleClaim implements ClaimLifecycle.                             *)
(*                                                                         *)
(* The argument: the results map always says how far the one callback that *)
(* holds a claim has taken it, as far as it says anything; and each step   *)
(* of the server keeps every stage, or moves one claim to a next stage.    *)
(***************************************************************************)
EXTENDS HandleClaimProofs

\* What the slot of its claim is to say, from what callback h and its task have
\* done: the status whose phase is Progress(h).
Reached(h) ==
  CASE task[h].pc = "reported" -> task[h].result
    [] task[h].pc # "reported" /\ callback[h].resp = "confirmed_page" -> OauthComplete
    [] callback[h].pc = "done" /\ callback[h].resp \in {"failed_page", "bad_gateway"} ->
         Failed
    [] OTHER -> Waiting

\* The answer a callback has decided on, where in its handler it has one, and
\* that only the handler that confirmed has spawned a task.
AnswersFit ==
  \A h \in Callback :
    /\ callback[h].pc = "idle" => callback[h].pending = Absent
    /\ callback[h].pc \in {"idle", "consuming", "exchanging", "marking"} =>
         callback[h].resp = Absent
    /\ callback[h].pc = "failing" => callback[h].resp \in {"failed_page", "bad_gateway"}
    /\ callback[h].pc = "spawning" => callback[h].resp = "confirmed_page"
    /\ callback[h].pc = "done" /\ callback[h].pending # Absent =>
         callback[h].resp \in Response \ {"not_found"}
    /\ callback[h].resp = "confirmed_page" =>
         callback[h].pc \in {"spawning", "done", "dropped"}
    /\ task[h].pc # "none" =>
         callback[h].pc = "done" /\ callback[h].resp = "confirmed_page"

\* What a slot says, if there is one: that its claim waits, as long as no callback
\* holds it; otherwise how far that callback has got.
SlotFollows(c) ==
  results[c] # Absent =>
    /\ Holders(c) = {} => results[c].status = Waiting
    /\ \A h \in Holders(c) : results[c].status = Reached(h)

SlotsFollow == \A c \in Challenge : SlotFollows(c)

\* A process that has ended has no handler, no task and no slot left.
StoppedIsStill ==
  server = "stopped" =>
    /\ \A c \in Challenge : ~CreatorActive(c) /\ results[c] = Absent
    /\ \A h \in Callback : ~CallbackActive(h) /\ ~TaskActive(h)

StageInv == IInv /\ AnswersFit /\ SlotsFollow /\ StoppedIsStill

-----------------------------------------------------------------------------
\* The stage of a claim.

\* A claim that is held is as far as its one holder.
HolderLeads ==
  \A h \in Callback :
    callback[h].pending # Absent =>
      /\ callback[h].chal \in Challenge
      /\ creator[callback[h].chal].pc = "responded"
      /\ Holders(callback[h].chal) = {h}
      /\ StageOf(callback[h].chal) = Progress(h)

\* In a state with the binding invariant, a held claim is at the stage of its holder.
LEMMA StageOfHeld == IInv => HolderLeads
<1>. SUFFICES ASSUME IInv, NEW h \in Callback, callback[h].pending # Absent
     PROVE  /\ callback[h].chal \in Challenge
            /\ creator[callback[h].chal].pc = "responded"
            /\ Holders(callback[h].chal) = {h}
            /\ StageOf(callback[h].chal) = Progress(h)
  BY DEF HolderLeads
<1>1. /\ callback[h].chal \in Challenge
      /\ creator[callback[h].chal].pc = "responded"
  BY CallbackParts DEF IInv, Binding, HeldOnce, KnownOnceAnswered
<1>2. Holders(callback[h].chal) = {h}
  BY DEF IInv, Binding, HeldOnce, SingleUse, Holders
<1>3. (CHOOSE g \in Holders(callback[h].chal) : TRUE) = h
  BY <1>2
<1>. QED  BY <1>1, <1>2, <1>3 DEF StageOf

\* The phase of what a callback has reached is its progress.
LEMMA ReachedPhase == \A h \in Callback : Reached(h).phase = Progress(h)
BY DEF Reached, Progress, OauthComplete, Failed, Waiting

\* A step that leaves alone who holds a claim, and how far the holders are,
\* leaves its stage alone.
LEMMA StageKept ==
  ASSUME NEW c \in Challenge,
         creator'[c].pc = "responded" <=> creator[c].pc = "responded",
         \A h \in Callback :
           /\ h \in Holders(c)' <=> h \in Holders(c)
           /\ h \in Holders(c) => Progress(h)' = Progress(h)
  PROVE  StageOf(c)' = StageOf(c)
<1>1. Holders(c)' = Holders(c)
  BY DEF Holders
<1>2. CASE Holders(c) = {}
  BY <1>1, <1>2 DEF StageOf
<1>3. CASE Holders(c) # {}
  <2>1. PICK g \in Callback : g \in Holders(c) /\ g = CHOOSE h \in Holders(c) : TRUE
    BY <1>3 DEF Holders
  <2>2. (CHOOSE h \in Holders(c)' : TRUE) = g
    BY <1>1, <2>1
  <2>3. Progress(g)' = Progress(g)
    BY <2>1
  <2>. QED  BY <1>1, <1>3, <2>1, <2>2, <2>3 DEF StageOf
<1>. QED  BY <1>2, <1>3

-----------------------------------------------------------------------------
\* Answers and the process.

\* What a redirect makes of an idle callback: a refusal, or a request that has
\* done nothing yet.
LEMMA Received ==
  ASSUME IInv, NEW h \in Callback, ReceiveCallback(h)
  PROVE  /\ callback[h].pc = "idle"
         /\ callback'[h].pc \in {"done", "consuming"}
         /\ callback'[h].pc = "consuming" => callback'[h].resp = Absent
         /\ callback'[h].pc = "done" => callback'[h].resp = "bad_request"
         /\ callback'[h].pending = Absent
         /\ \A g \in Callback \ {h} : callback'[g] = callback[g]
         /\ UNCHANGED <<challenges, results, granted, creator, task, server>>
         /\ server = "serving"
<1>. DEFINE Answers(r, state) ==
       LET parsed == ParseOauthState(state) IN
       callback' = [callback EXCEPT ![h] =
         IF parsed = Absent
         THEN [NoCallback EXCEPT !.pc = "done", !.resp = "bad_request"]
         ELSE [NoCallback EXCEPT !.pc = "consuming",
                                 !.chal = parsed.chal,
                                 !.pubkey = parsed.pubkey,
                                 !.error = r.error,
                                 !.code = r.code]]
<1>1. PICK c \in Challenge, p \in Pubkey, r \in Redirects :
        \E state \in Copies(FormatOauthState(c, p)) : Answers(r, state)
  BY DEF ReceiveCallback
<1>2. PICK state \in Copies(FormatOauthState(c, p)) : Answers(r, state)
  BY <1>1
<1>. DEFINE parsed == ParseOauthState(state)
            refused == [NoCallback EXCEPT !.pc = "done", !.resp = "bad_request"]
            received == [NoCallback EXCEPT !.pc = "consuming",
                                           !.chal = parsed.chal,
                                           !.pubkey = parsed.pubkey,
                                           !.error = r.error,
                                           !.code = r.code]
<1>3. /\ refused.pc = "done" /\ refused.resp = "bad_request" /\ refused.pending = Absent
      /\ received.pc = "consuming" /\ received.resp = Absent
      /\ received.pending = Absent
  BY DEF NoCallback
<1>4. \/ callback' = [callback EXCEPT ![h] = refused]
      \/ callback' = [callback EXCEPT ![h] = received]
  BY <1>2
<1>5. /\ callback \in [Callback -> CallbackRequest]
      /\ callback[h].pc = "idle" /\ server = "serving"
      /\ UNCHANGED <<challenges, results, granted, creator, task, server>>
  BY DEF ReceiveCallback, IInv, TypeOK
<1>. HIDE DEF refused, received
<1>. QED  BY <1>3, <1>4, <1>5

\* The three ways on from the lookup that hand the challenge over leave the
\* claim waiting, and the callback with an answer that fits.
LEMMA Consumed ==
  ASSUME IInv, NEW h \in Callback, Consume(h)
  PROVE  /\ callback[h].pc = "consuming" /\ callback[h].pending = Absent
         /\ callback[h].chal \in Challenge
         /\ callback'[h].pc \in {"done", "failing", "exchanging"}
         /\ callback'[h].pc = "done" =>
              /\ callback'[h].resp \in {"not_found", "gone", "bad_request"}
              /\ callback'[h].resp = "not_found" => callback'[h].pending = Absent
         /\ callback'[h].pc = "failing" => callback'[h].resp = "failed_page"
         /\ callback'[h].pc = "exchanging" => callback'[h].resp = Absent
         /\ callback'[h].chal = callback[h].chal
         /\ callback'[h].pending = challenges[callback[h].chal]
         /\ \A g \in Callback \ {h} : callback'[g] = callback[g]
         /\ UNCHANGED <<results, granted, creator, task, server>>
<1>. DEFINE found == challenges[callback[h].chal]
            MovesTo(pc, resp) ==
              callback' = [callback EXCEPT ![h] =
                             [@ EXCEPT !.pc = pc, !.resp = resp, !.pending = found]]
<1>1. /\ callback \in [Callback -> CallbackRequest]
      /\ callback[h] \in CallbackRequest
      /\ callback[h].pc = "consuming" /\ callback[h].pending = Absent
      /\ callback[h].chal \in Challenge
      /\ UNCHANGED <<results, granted, creator, task, server>>
  BY CallbackParts DEF Consume, IInv, TypeOK, Binding, KnownOnceAnswered
<1>2. \/ \E resp \in {"not_found", "gone", "bad_request"} :
           MovesTo("done", resp) /\ (resp = "not_found" => found = Absent)
      \/ MovesTo("failing", "failed_page")
      \/ MovesTo("exchanging", Absent)
  BY DEF Consume
<1>3. ASSUME NEW pc, NEW resp, MovesTo(pc, resp)
      PROVE  /\ callback'[h].pc = pc /\ callback'[h].resp = resp
             /\ callback'[h].chal = callback[h].chal
             /\ callback'[h].pending = found
             /\ \A g \in Callback \ {h} : callback'[g] = callback[g]
  BY <1>1, <1>3 DEF CallbackRequest
<1>. HIDE DEF MovesTo
<1>4. CASE \E resp \in {"not_found", "gone", "bad_request"} :
             MovesTo("done", resp) /\ (resp = "not_found" => found = Absent)
  <2>1. PICK resp \in {"not_found", "gone", "bad_request"} :
          MovesTo("done", resp) /\ (resp = "not_found" => found = Absent)
    BY <1>4
  <2>. QED  BY <1>1, <1>3, <2>1
<1>5. CASE MovesTo("failing", "failed_page")
  BY <1>1, <1>3, <1>5
<1>6. CASE MovesTo("exchanging", Absent)
  BY <1>1, <1>3, <1>6
<1>. QED  BY <1>2, <1>4, <1>5, <1>6

\* A step of a handler that keeps what it was asked and what it was handed.
KeepsClaim(h) ==
  /\ CallbackActive(h)
  /\ callback'[h].chal = callback[h].chal
  /\ callback'[h].pending = callback[h].pending
  /\ callback'[h].pc # "idle"
  /\ \A g \in Callback \ {h} : callback'[g] = callback[g]
  /\ UNCHANGED <<challenges, granted, creator, server>>

\* Every other step of a handler does, and what it does to its answer.
LEMMA Advanced ==
  ASSUME IInv, AnswersFit, NEW h \in Callback
  PROVE  /\ ExchangeAnswered(h) =>
              /\ KeepsClaim(h) /\ UNCHANGED <<results, task>>
              /\ callback[h].resp = Absent
              /\ \/ callback'[h].pc = "failing" /\ callback'[h].resp = "bad_gateway"
                 \/ callback'[h].pc = "marking" /\ callback'[h].resp = Absent
         /\ RecordFailure(h) =>
              /\ KeepsClaim(h) /\ UNCHANGED task
              /\ callback'[h].pc = "done" /\ callback'[h].resp = callback[h].resp
              /\ callback[h].resp \in {"failed_page", "bad_gateway"}
         /\ MarkOauthComplete(h) =>
              /\ KeepsClaim(h) /\ UNCHANGED task
              /\ callback[h].resp = Absent
              /\ callback'[h].pc = "spawning" /\ callback'[h].resp = "confirmed_page"
         /\ SpawnVerification(h) =>
              /\ KeepsClaim(h) /\ UNCHANGED results
              /\ callback[h].resp = "confirmed_page"
              /\ callback'[h].pc = "done" /\ callback'[h].resp = "confirmed_page"
              /\ task[h].pc = "none"
              /\ task'[h].pc = "running"
              /\ \A g \in Callback \ {h} : task'[g] = task[g]
         /\ DropCallback(h) =>
              /\ KeepsClaim(h) /\ UNCHANGED <<results, task>>
              /\ callback[h].pc # "done"
              /\ callback[h].resp # "confirmed_page"
              /\ callback'[h].pc = "dropped" /\ callback'[h].resp = callback[h].resp
<1>1. /\ callback \in [Callback -> CallbackRequest] /\ callback[h] \in CallbackRequest
      /\ task \in [Callback -> Task] /\ task[h] \in Task
  BY DEF IInv, TypeOK
<1>2. ASSUME ExchangeAnswered(h)
      PROVE  /\ KeepsClaim(h) /\ UNCHANGED <<results, task>>
             /\ callback[h].resp = Absent
             /\ \/ callback'[h].pc = "failing" /\ callback'[h].resp = "bad_gateway"
                \/ callback'[h].pc = "marking" /\ callback'[h].resp = Absent
  <2>1. callback[h].pc = "exchanging" /\ callback[h].resp = Absent
    BY <1>2 DEF ExchangeAnswered, AnswersFit
  <2>2. CASE ExchangeFails(h)
    BY <1>1, <1>2, <2>1, <2>2
       DEF ExchangeFails, ExchangeAnswered, CallbackRequest, CallbackActive, KeepsClaim
  <2>3. CASE ~ExchangeFails(h)
    <3>1. PICK token \in User :
            callback' = [callback EXCEPT ![h] = [@ EXCEPT !.pc = "marking", !.token = token]]
      BY <1>2, <2>3 DEF ExchangeAnswered
    <3>. QED  BY <1>1, <1>2, <2>1, <3>1
              DEF ExchangeAnswered, CallbackRequest, CallbackActive, KeepsClaim
  <2>. QED  BY <2>2, <2>3
<1>3. ASSUME RecordFailure(h)
      PROVE  /\ KeepsClaim(h) /\ UNCHANGED task
             /\ callback'[h].pc = "done" /\ callback'[h].resp = callback[h].resp
             /\ callback[h].resp \in {"failed_page", "bad_gateway"}
  BY <1>1, <1>3 DEF RecordFailure, AnswersFit, CallbackRequest, CallbackActive, KeepsClaim
<1>4. ASSUME MarkOauthComplete(h)
      PROVE  /\ KeepsClaim(h) /\ UNCHANGED task
             /\ callback[h].resp = Absent
             /\ callback'[h].pc = "spawning" /\ callback'[h].resp = "confirmed_page"
  BY <1>1, <1>4 DEF MarkOauthComplete, AnswersFit, CallbackRequest, CallbackActive, KeepsClaim
<1>5. ASSUME SpawnVerification(h)
      PROVE  /\ KeepsClaim(h) /\ UNCHANGED results
             /\ callback[h].resp = "confirmed_page"
             /\ callback'[h].pc = "done" /\ callback'[h].resp = "confirmed_page"
             /\ task[h].pc = "none"
             /\ task'[h].pc = "running"
             /\ \A g \in Callback \ {h} : task'[g] = task[g]
  <2>1. callback[h].pc = "spawning" /\ callback[h].resp = "confirmed_page" /\ task[h].pc = "none"
    BY <1>5 DEF SpawnVerification, AnswersFit
  <2>2. /\ task'[h].pc = "running"
        /\ \A g \in Callback \ {h} : task'[g] = task[g]
    BY <1>1, <1>5 DEF SpawnVerification, Task
  <2>. QED  BY <1>1, <1>5, <2>1, <2>2
            DEF SpawnVerification, CallbackRequest, CallbackActive, KeepsClaim
<1>6. ASSUME DropCallback(h)
      PROVE  /\ KeepsClaim(h) /\ UNCHANGED <<results, task>>
             /\ callback[h].pc # "done"
             /\ callback[h].resp # "confirmed_page"
             /\ callback'[h].pc = "dropped" /\ callback'[h].resp = callback[h].resp
  BY <1>1, <1>6 DEF DropCallback, AnswersFit, CallbackRequest, CallbackActive, KeepsClaim
<1>. QED  BY <1>2, <1>3, <1>4, <1>5, <1>6

\* A task that goes on is past its handler, and goes where its own run leads.
LEMMA TaskAdvanced ==
  ASSUME IInv, NEW h \in Callback, TaskStep(h)
  PROVE  /\ UNCHANGED <<challenges, granted, creator, callback, server>>
         /\ TaskActive(h) /\ task[h].pc # "reported"
         /\ \A g \in Callback \ {h} : task'[g] = task[g]
         /\ ReportOutcome(h) =>
              /\ task[h].pc = "finishing"
              /\ task'[h].pc = "reported" /\ task'[h].result = task[h].result
         /\ ~ReportOutcome(h) =>
              /\ task'[h].pc \in {"finishing", "dead"}
              /\ UNCHANGED results
<1>1. task \in [Callback -> Task] /\ task[h] \in Task
  BY DEF IInv, TypeOK
<1>2. CASE ReportOutcome(h)
  BY <1>1, <1>2 DEF ReportOutcome, TaskActive, Task
<1>3. CASE RunVerification(h)
  <2>1. PICK outcome :
          task' = [task EXCEPT ![h] = [pc |-> "finishing", result |-> outcome]]
    BY <1>3 DEF RunVerification
  <2>. QED  BY <1>1, <1>3, <2>1 DEF RunVerification, TaskActive, ReportOutcome
<1>4. CASE TaskPanics(h)
  BY <1>1, <1>4 DEF TaskPanics, TaskActive, Task, ReportOutcome
<1>. QED  BY <1>2, <1>3, <1>4 DEF TaskStep

\* Whatever happens to the process: handlers and tasks go on as they were or die
\* where they are, and unless it is ctrl-c the slots are gone.
LEMMA ProcessMoved ==
  ASSUME IInv, ProcessStep
  PROVE  /\ \A h \in Callback :
              /\ \/ callback'[h] = callback[h]
                 \/ /\ CallbackActive(h)
                    /\ callback'[h].pc = "dropped"
                    /\ callback'[h].chal = callback[h].chal
                    /\ callback'[h].pending = callback[h].pending
                    /\ callback'[h].resp = callback[h].resp
              /\ \/ task'[h] = task[h]
                 \/ TaskActive(h) /\ task'[h].pc = "dead"
         /\ \A c \in Challenge :
              \/ creator'[c].pc = creator[c].pc
              \/ CreatorActive(c) /\ creator'[c].pc = "dropped"
         /\ \/ results' = results /\ server' = "draining"
            \/ /\ \A c \in Challenge : results'[c] = Absent
               /\ server' = "stopped" \/ server = "stopped"
         /\ server' = "stopped" =>
              /\ \A c \in Challenge :
                   creator'[c].pc \notin {"minted", "stored"} /\ results'[c] = Absent
              /\ \A h \in Callback : ~CallbackActive(h)' /\ ~TaskActive(h)'
<1>1. /\ callback \in [Callback -> CallbackRequest] /\ task \in [Callback -> Task]
      /\ creator \in [Challenge -> Creator]
  BY DEF IInv, TypeOK
<1>2. ASSUME ProcessEnds
      PROVE  /\ \A h \in Callback : /\ \/ task'[h] = task[h]
                                       \/ TaskActive(h) /\ task'[h].pc = "dead"
                                    /\ ~TaskActive(h)'
             /\ \A c \in Challenge : results'[c] = Absent
             /\ server' = "stopped"
  BY <1>1, <1>2 DEF ProcessEnds, TaskActive, Task
<1>3. CASE CtrlC \/ Start
  BY <1>3 DEF CtrlC, Start
<1>4. CASE Exit
  BY <1>2, <1>4 DEF Exit, CreatorActive, CallbackActive
<1>5. CASE Crash
  <2>1. \A h \in Callback :
          /\ \/ callback'[h] = callback[h]
             \/ /\ CallbackActive(h)
                /\ callback'[h].pc = "dropped"
                /\ callback'[h].chal = callback[h].chal
                /\ callback'[h].pending = callback[h].pending
                /\ callback'[h].resp = callback[h].resp
          /\ ~CallbackActive(h)'
    BY <1>1, <1>5 DEF Crash, CallbackActive, CallbackRequest
  <2>2. PICK zero \in Age : zero = 0
    BY TTLAssumption DEF Age
  <2>3. creator' = [c \in Challenge |->
          IF CreatorActive(c)
          THEN [creator[c] EXCEPT !.pc = "dropped", !.age = zero] ELSE creator[c]]
    BY <1>5, <2>2 DEF Crash
  <2>4. \A c \in Challenge :
          /\ \/ creator'[c].pc = creator[c].pc
             \/ CreatorActive(c) /\ creator'[c].pc = "dropped"
          /\ creator'[c].pc \notin {"minted", "stored"}
    BY <1>1, <2>3 DEF Creator, CreatorActive
  <2>. QED  BY <1>2, <1>5, <2>1, <2>4 DEF Crash
<1>. QED  BY <1>3, <1>4, <1>5 DEF ProcessStep

\* Every step leaves every callback with an answer that fits.
LEMMA NextAnswersFit == IInv /\ AnswersFit /\ [Next]_vars => AnswersFit'
<1>. SUFFICES ASSUME IInv, AnswersFit, [Next]_vars PROVE AnswersFit'
  OBVIOUS
<1>1. ASSUME UNCHANGED <<callback, task>> PROVE AnswersFit'
  BY <1>1 DEF AnswersFit
<1>2. ASSUME NEW c \in Challenge, CreatorStep(c) PROVE AnswersFit'
  BY <1>1, <1>2 DEF CreatorStep, ChallengeGithub, CreateChallenge, CreateSlot, Authorize,
     DropCreator
<1>3. ASSUME NEW h \in Callback, ReceiveCallback(h) PROVE AnswersFit'
  BY <1>3, Received DEF AnswersFit, Response
<1>4. ASSUME NEW h \in Callback, Consume(h) PROVE AnswersFit'
  BY <1>4, Consumed DEF AnswersFit, Response
<1>5. ASSUME NEW h \in Callback,
             \/ ExchangeAnswered(h) \/ RecordFailure(h) \/ MarkOauthComplete(h)
             \/ SpawnVerification(h) \/ DropCallback(h)
      PROVE  AnswersFit'
  <2>1. /\ CallbackActive(h) /\ task[h].pc = "none"
        /\ \A g \in Callback \ {h} : callback'[g] = callback[g]
    BY <1>5, Advanced DEF AnswersFit, KeepsClaim, CallbackActive
  <2>2. CASE ~SpawnVerification(h)
    <3>1. task' = task
      BY <1>5, <2>2, Advanced
    <3>2. \/ callback'[h].pc = "failing" /\ callback'[h].resp = "bad_gateway"
          \/ callback'[h].pc = "marking" /\ callback'[h].resp = Absent
          \/ callback'[h].pc = "done" /\ callback'[h].resp \in {"failed_page", "bad_gateway"}
          \/ callback'[h].pc = "spawning" /\ callback'[h].resp = "confirmed_page"
          \/ callback'[h].pc = "dropped" /\ callback'[h].resp = callback[h].resp
      BY <1>5, <2>2, Advanced
    <3>. QED  BY <2>1, <3>1, <3>2, ResponseAssumption DEF AnswersFit, Response
  <2>3. CASE SpawnVerification(h)
    <3>1. /\ callback'[h].pc = "done" /\ callback'[h].resp = "confirmed_page"
          /\ \A g \in Callback \ {h} : task'[g] = task[g]
      BY <2>3, Advanced
    <3>. QED  BY <2>1, <3>1 DEF AnswersFit, Response
  <2>. QED  BY <2>2, <2>3
<1>6. ASSUME NEW h \in Callback, TaskStep(h) PROVE AnswersFit'
  BY <1>6, TaskAdvanced DEF AnswersFit, TaskActive, Response
<1>7. CASE ProcessStep
  BY <1>7, ProcessMoved DEF AnswersFit, CallbackActive, TaskActive
<1>8. CASE Tick \/ UNCHANGED vars
  BY <1>1, <1>8 DEF Tick, vars
<1>. QED  BY <1>2, <1>3, <1>4, <1>5, <1>6, <1>7, <1>8 DEF Next, CallbackStep

\* A process that has ended does nothing until it is started again.
LEMMA NextStopped == IInv /\ AnswersFit /\ StoppedIsStill /\ [Next]_vars => StoppedIsStill'
<1>. SUFFICES ASSUME IInv, AnswersFit, StoppedIsStill, [Next]_vars, server' = "stopped"
              PROVE  /\ \A c \in Challenge : ~CreatorActive(c)' /\ results'[c] = Absent
                     /\ \A h \in Callback : ~CallbackActive(h)' /\ ~TaskActive(h)'
  BY DEF StoppedIsStill
<1>1. CASE ProcessStep
  BY <1>1, ProcessMoved DEF CreatorActive
<1>2. CASE server = "stopped" /\ ~ProcessStep
  <2>1. /\ \A c \in Challenge : ~CreatorActive(c) /\ results[c] = Absent
        /\ \A h \in Callback : ~CallbackActive(h) /\ ~TaskActive(h)
    BY <1>2 DEF StoppedIsStill
  <2>2. \A h \in Callback : ~CallbackStep(h) /\ ~TaskStep(h)
    <3>1. ASSUME NEW h \in Callback PROVE ~ReceiveCallback(h) /\ ~Consume(h)
      BY <1>2, <2>1 DEF ReceiveCallback, Consume, CallbackActive
    <3>2. ASSUME NEW h \in Callback
          PROVE  /\ ~ExchangeAnswered(h) /\ ~RecordFailure(h) /\ ~MarkOauthComplete(h)
                 /\ ~SpawnVerification(h) /\ ~DropCallback(h)
      BY <2>1, Advanced DEF KeepsClaim
    <3>3. ASSUME NEW h \in Callback PROVE ~TaskStep(h)
      BY <2>1, TaskAdvanced
    <3>. QED  BY <3>1, <3>2, <3>3 DEF CallbackStep
  <2>3. ASSUME NEW c \in Challenge, CreatorStep(c)
        PROVE  UNCHANGED <<creator, callback, task, results>>
    BY <1>2, <2>1, <2>3 DEF CreatorStep, ChallengeGithub, CreateChallenge, CreateSlot,
       Authorize, DropCreator, CreatorActive
  <2>4. CASE Tick
    <3>1. \A c \in Challenge : results'[c] = Absent /\ creator'[c] = creator[c]
      BY <2>1, <2>4 DEF Tick, Aged, CreatorActive
    <3>. QED  BY <2>1, <2>4, <3>1 DEF Tick, CreatorActive, CallbackActive, TaskActive
  <2>5. ASSUME UNCHANGED <<creator, callback, task, results>>
        PROVE  /\ \A c \in Challenge : ~CreatorActive(c)' /\ results'[c] = Absent
               /\ \A h \in Callback : ~CallbackActive(h)' /\ ~TaskActive(h)'
    BY <2>1, <2>5 DEF CreatorActive, CallbackActive, TaskActive
  <2>. QED  BY <1>2, <2>2, <2>3, <2>4, <2>5 DEF Next, vars
<1>3. ~ProcessStep => server' = server
  <2>1. ASSUME NEW c \in Challenge, CreatorStep(c) PROVE server' = server
    BY <2>1 DEF CreatorStep, ChallengeGithub, CreateChallenge, CreateSlot, Authorize,
       DropCreator
  <2>2. ASSUME NEW h \in Callback, CallbackStep(h) PROVE server' = server
    BY <2>2 DEF CallbackStep, ReceiveCallback, Consume, ExchangeAnswered, RecordFailure,
       MarkOauthComplete, SpawnVerification, DropCallback
  <2>3. ASSUME NEW h \in Callback, TaskStep(h) PROVE server' = server
    BY <2>3, TaskAdvanced
  <2>. QED  BY <2>1, <2>2, <2>3 DEF Next, Tick, vars
<1>. QED  BY <1>1, <1>2, <1>3

\* A handler that is done stays as it is.
LEMMA DoneStays ==
  ASSUME IInv, AnswersFit, [Next]_vars, NEW h \in Callback, callback[h].pc = "done"
  PROVE  callback'[h] = callback[h]
<1>1. ASSUME NEW c \in Challenge, CreatorStep(c) PROVE callback' = callback
  BY <1>1 DEF CreatorStep, ChallengeGithub, CreateChallenge, CreateSlot, Authorize, DropCreator
<1>2. ASSUME NEW g \in Callback, ReceiveCallback(g) \/ Consume(g)
      PROVE  callback'[h] = callback[h]
  BY <1>2, Received, Consumed
<1>3. ASSUME NEW g \in Callback, CallbackStep(g), ~ReceiveCallback(g), ~Consume(g)
      PROVE  callback'[h] = callback[h]
  <2>1. KeepsClaim(g)
    BY <1>3, Advanced DEF CallbackStep
  <2>. QED  BY <2>1 DEF KeepsClaim, CallbackActive
<1>4. ASSUME NEW g \in Callback, TaskStep(g) PROVE callback' = callback
  BY <1>4, TaskAdvanced
<1>5. CASE ProcessStep
  <2>1. callback'[h] = callback[h] \/ CallbackActive(h)
    BY <1>5, ProcessMoved
  <2>. QED  BY <2>1 DEF CallbackActive
<1>6. CASE Tick \/ UNCHANGED vars
  BY <1>6 DEF Tick, vars
<1>. QED  BY <1>1, <1>2, <1>3, <1>4, <1>5, <1>6 DEF Next

-----------------------------------------------------------------------------
\* What a step does to the claims.

\* Claim c moves on and its slot is fresh; every other claim stays where it is,
\* and only an expired slot of it can be swept.
Moves(c) ==
  /\ StageOf(c)' \in Lifecycle!Successors(StageOf(c))
  /\ results'[c] # Absent /\ results'[c].age = 0
  /\ \A d \in Challenge \ {c} :
       /\ StageOf(d)' = StageOf(d)
       /\ \/ results'[d] = results[d]
          \/ results'[d] = Absent /\ results[d] # Absent /\ results[d].age >= TTL

\* Every claim stays where it is.
Stays == \A c \in Challenge : StageOf(c)' = StageOf(c)

\* The slots stay as they are, or are lost with the process.
SlotsStay ==
  \/ results' = results
  \/ /\ \A c \in Challenge : results'[c] = Absent
     /\ server' = "stopped" \/ server = "stopped"

\* A claim whose holder, if it has one, has got no further stays where it is, and
\* its slot goes on saying so.
LEMMA ClaimKept ==
  ASSUME NEW c \in Challenge, SlotFollows(c),
         creator'[c].pc = "responded" <=> creator[c].pc = "responded",
         \A h \in Callback :
           /\ h \in Holders(c)' <=> h \in Holders(c)
           /\ h \in Holders(c) => Reached(h)' = Reached(h),
         results'[c] # Absent =>
           results[c] # Absent /\ results'[c].status = results[c].status
  PROVE  StageOf(c)' = StageOf(c) /\ SlotFollows(c)'
<1>1. (\A h \in Callback : Reached(h).phase = Progress(h))'
  BY ReachedPhase, PTL
<1>2. StageOf(c)' = StageOf(c)
  BY <1>1, ReachedPhase, StageKept DEF Holders
<1>3. Holders(c)' = Holders(c) /\ Holders(c) \subseteq Callback
  BY DEF Holders
<1>. QED  BY <1>2, <1>3 DEF SlotFollows

\* When the handler or the task of the callback that holds a claim stores how far
\* it has got, the claim moves on.
LEMMA HolderMoves ==
  ASSUME IInv, IInv', SlotsFollow, NEW h \in Callback,
         callback[h].pending # Absent,
         callback'[h].chal = callback[h].chal,
         callback'[h].pending = callback[h].pending,
         \A g \in Callback \ {h} : callback'[g] = callback[g] /\ task'[g] = task[g],
         creator' = creator,
         SetStatus(callback[h].chal, Reached(h)'),
         Reached(h)' \in FlowStatus,
         Progress(h)' \in Lifecycle!Successors(Progress(h))
  PROVE  SlotsFollow' /\ Moves(callback[h].chal)
<1>. DEFINE c == callback[h].chal
<1>1. /\ c \in Challenge
      /\ StageOf(c) = Progress(h)
      /\ results \in [Challenge -> FlowEntry \cup {Absent}]
      /\ results' = [results EXCEPT ![c] = [status |-> Reached(h)', age |-> 0]]
  BY StageOfHeld DEF HolderLeads, IInv, TypeOK, AppStateTypeOK, SetStatus
<1>2. PICK k \in Challenge : k = c
  BY <1>1
<1>3. Holders(k)' = {h} /\ StageOf(k)' = Progress(h)'
  <2>1. HolderLeads'
    BY StageOfHeld, PTL
  <2>2. callback'[h].chal = k /\ callback'[h].pending # Absent
    BY <1>2
  <2>. QED  BY <2>1, <2>2 DEF HolderLeads
<1>4. [status |-> Reached(h)', age |-> 0] \in FlowEntry
  BY TTLAssumption DEF FlowEntry, Age
<1>5. /\ results'[k] # Absent /\ results'[k].age = 0
      /\ results'[k].status = Reached(h)'
      /\ \A d \in Challenge \ {k} : results'[d] = results[d]
  BY <1>1, <1>2, <1>4, AbsentAssumption
<1>6. ASSUME NEW d \in Challenge \ {k}
      PROVE  StageOf(d)' = StageOf(d) /\ SlotFollows(d)'
  <2>1. \A g \in Callback :
          /\ g \in Holders(d)' <=> g \in Holders(d)
          /\ g \in Holders(d) => Reached(g)' = Reached(g)
    BY <1>2 DEF Holders, Reached
  <2>. QED  BY <1>5, <2>1, ClaimKept DEF SlotsFollow
<1>7. SlotFollows(k)'
  BY <1>3, <1>5 DEF SlotFollows
<1>8. SlotsFollow'
  BY <1>6, <1>7 DEF SlotsFollow
<1>9. Moves(k)
  BY <1>1, <1>2, <1>3, <1>5, <1>6 DEF Moves
<1>. QED  BY <1>2, <1>8, <1>9

\* A step in which no callback gets hold of a claim or gets further, and no slot
\* changes what it says.
LEMMA NothingMoves ==
  ASSUME SlotsFollow,
         \A c \in Challenge : creator'[c].pc = "responded" <=> creator[c].pc = "responded",
         \A h \in Callback :
           \/ /\ callback'[h].chal = callback[h].chal
              /\ callback'[h].pending = callback[h].pending
              /\ Reached(h)' = Reached(h)
           \/ callback[h].pending = Absent /\ callback'[h].pending = Absent,
         \A c \in Challenge :
           results'[c] # Absent =>
             results[c] # Absent /\ results'[c].status = results[c].status
  PROVE  SlotsFollow' /\ Stays
<1>1. ASSUME NEW c \in Challenge PROVE StageOf(c)' = StageOf(c) /\ SlotFollows(c)'
  <2>1. \A h \in Callback :
          /\ h \in Holders(c)' <=> h \in Holders(c)
          /\ h \in Holders(c) => Reached(h)' = Reached(h)
    BY DEF Holders
  <2>. QED  BY <2>1, ClaimKept DEF SlotsFollow
<1>. QED  BY <1>1 DEF SlotsFollow, Stays

\* Opening a slot opens its claim, which no callback can know of yet.
LEMMA CreateSlotMoves ==
  ASSUME StageInv, NEW c \in Challenge, CreateSlot(c)
  PROVE  SlotsFollow' /\ Moves(c)
<1>. USE DEF StageInv
<1>. DEFINE slot == [status |-> Waiting, age |-> 0]
<1>1. /\ creator \in [Challenge -> Creator]
      /\ results \in [Challenge -> FlowEntry \cup {Absent}]
      /\ creator[c].pc = "stored"
      /\ results' = [SweptResults EXCEPT ![c] = slot]
      /\ creator' = [creator EXCEPT ![c].pc = "responded"]
      /\ UNCHANGED <<callback, task>>
  BY DEF CreateSlot, OpenSlot, IInv, TypeOK, AppStateTypeOK
<1>2. slot \in FlowEntry
  BY StatusTypes, TTLAssumption DEF FlowEntry, Age
<1>3. /\ creator'[c].pc = "responded"
      /\ \A d \in Challenge \ {c} : creator'[d] = creator[d]
  BY <1>1 DEF Creator
<1>4. /\ results'[c] # Absent /\ results'[c].age = 0 /\ results'[c].status = Waiting
      /\ \A d \in Challenge \ {c} :
           \/ results'[d] = results[d]
           \/ results'[d] = Absent /\ results[d] # Absent /\ results[d].age >= TTL
  <2>1. \A d \in Challenge : results[d] # Absent => results[d].age \in Age
    BY <1>1 DEF FlowEntry
  <2>2. \A n \in Age : ~(n < TTL) => n >= TTL
    BY TTLAssumption DEF Age
  <2>. QED  BY <1>1, <1>2, <2>1, <2>2, AbsentAssumption DEF SweptResults, KeepsResult
<1>5. Holders(c) = {}
  BY <1>1, CallbackParts DEF Holders, IInv, Binding, HeldOnce, KnownOnceAnswered
<1>6. Holders(c)' = {}
  BY <1>1, <1>5 DEF Holders
<1>7. StageOf(c) = "unopened" /\ StageOf(c)' = "waiting_for_authorization"
  BY <1>1, <1>3, <1>6 DEF StageOf
<1>8. SlotFollows(c)'
  BY <1>4, <1>6 DEF SlotFollows
<1>9. ASSUME NEW d \in Challenge \ {c} PROVE StageOf(d)' = StageOf(d) /\ SlotFollows(d)'
  <2>1. \A h \in Callback :
          /\ h \in Holders(d)' <=> h \in Holders(d)
          /\ h \in Holders(d) => Reached(h)' = Reached(h)
    BY <1>1 DEF Holders, Reached
  <2>. QED  BY <1>3, <1>4, <2>1, ClaimKept DEF SlotsFollow
<1>. QED  BY <1>4, <1>7, <1>8, <1>9 DEF SlotsFollow, Moves, Lifecycle!Successors

\* Handing over a challenge leaves its claim waiting, with a holder.
LEMMA ConsumeStays ==
  ASSUME StageInv, IInv', NEW h \in Callback, Consume(h)
  PROVE  SlotsFollow' /\ Stays
<1>. USE DEF StageInv
<1>1. PICK k \in Challenge :
        /\ k = callback[h].chal
        /\ callback[h].pc = "consuming" /\ callback[h].pending = Absent
        /\ callback'[h].chal = k
        /\ callback'[h].pending = challenges[k]
        /\ \A g \in Callback \ {h} : callback'[g] = callback[g]
        /\ UNCHANGED <<results, creator, task>>
  BY Consumed
<1>2. Reached(h)' = Waiting /\ Progress(h)' = "waiting_for_authorization"
  <2>1. task'[h].pc = "none"
    BY <1>1 DEF AnswersFit
  <2>2. /\ callback'[h].resp # "confirmed_page"
        /\ callback'[h].pc = "done" => callback'[h].resp \notin {"failed_page", "bad_gateway"}
    BY Consumed, ResponseAssumption DEF Response
  <2>. QED  BY <2>1, <2>2 DEF Reached, Progress
<1>3. \A g \in Callback \ {h} : Reached(g)' = Reached(g)
  BY <1>1 DEF Reached
<1>4. ASSUME NEW d \in Challenge, d # k \/ challenges[k] = Absent
      PROVE  StageOf(d)' = StageOf(d) /\ SlotFollows(d)'
  <2>1. \A g \in Callback :
          /\ g \in Holders(d)' <=> g \in Holders(d)
          /\ g \in Holders(d) => Reached(g)' = Reached(g)
    BY <1>1, <1>3, <1>4 DEF Holders
  <2>. QED  BY <1>1, <2>1, ClaimKept DEF SlotsFollow
<1>5. CASE challenges[k] # Absent
  <2>1. /\ Holders(k) = {} /\ creator[k].pc = "responded"
    BY <1>1, <1>5, CallbackParts DEF Holders, IInv, Binding, HeldOnce, KnownOnceAnswered
  <2>2. Holders(k)' = {h} /\ StageOf(k)' = Progress(h)'
    <3>1. HolderLeads'
      BY StageOfHeld, PTL
    <3>. QED  BY <1>1, <1>5, <3>1 DEF HolderLeads
  <2>3. StageOf(k)' = StageOf(k)
    BY <1>2, <2>1, <2>2 DEF StageOf
  <2>4. SlotFollows(k)'
    BY <1>1, <1>2, <2>1, <2>2 DEF SlotsFollow, SlotFollows
  <2>. QED  BY <1>4, <2>3, <2>4 DEF SlotsFollow, Stays
<1>. QED  BY <1>4, <1>5 DEF SlotsFollow, Stays

\* The other steps of a handler: two of them store what it has got to.
LEMMA HandlerStage ==
  ASSUME StageInv, IInv', NEW h \in Callback, CallbackStep(h)
  PROVE  SlotsFollow' /\ ((Stays /\ SlotsStay) \/ \E c \in Challenge : Moves(c))
<1>. USE DEF StageInv
<1>1. \A g \in Callback \ {h} :
        callback'[g] = callback[g] /\ task'[g] = task[g] => Reached(g)' = Reached(g)
  BY DEF Reached
<1>2. CASE ReceiveCallback(h)
  <2>1. /\ UNCHANGED <<results, creator, task>>
        /\ callback[h].pending = Absent /\ callback'[h].pending = Absent
        /\ \A g \in Callback \ {h} : callback'[g] = callback[g]
    BY <1>2, Received DEF AnswersFit
  <2>. QED  BY <1>1, <2>1, NothingMoves DEF SlotsStay
<1>3. CASE Consume(h)
  BY <1>3, ConsumeStays, Consumed DEF SlotsStay
<1>4. CASE ExchangeAnswered(h) \/ SpawnVerification(h) \/ DropCallback(h)
  <2>1. /\ KeepsClaim(h) /\ results' = results
        /\ \A g \in Callback \ {h} : task'[g] = task[g]
        /\ task[h].pc = "none" /\ task'[h].pc # "reported"
    BY <1>4, Advanced DEF KeepsClaim, AnswersFit, CallbackActive
  <2>2. \/ /\ callback[h].resp = "confirmed_page"
           /\ callback'[h].resp = "confirmed_page"
        \/ /\ callback[h].resp # "confirmed_page" /\ callback[h].pc # "done"
           /\ callback'[h].resp # "confirmed_page" /\ callback'[h].pc # "done"
    BY <1>4, Advanced, ResponseAssumption DEF Response, KeepsClaim, CallbackActive
  <2>3. Reached(h)' = Reached(h)
    BY <2>1, <2>2 DEF Reached
  <2>. QED  BY <1>1, <2>1, <2>3, NothingMoves DEF KeepsClaim, SlotsStay
<1>5. CASE RecordFailure(h) \/ MarkOauthComplete(h)
  <2>1. /\ KeepsClaim(h) /\ task' = task /\ task[h].pc = "none"
        /\ callback[h].pending # Absent /\ callback[h].chal \in Challenge
        /\ callback[h].pc \in {"failing", "marking"} /\ callback[h].resp # "confirmed_page"
    BY <1>5, Advanced, CallbackParts, ResponseAssumption
       DEF KeepsClaim, AnswersFit, CallbackActive, RecordFailure, MarkOauthComplete, Response,
           IInv, Binding, TaskReportsOwn, CheckedBeforeExchange, HeldOnce
  <2>2. Progress(h) = "waiting_for_authorization"
    BY <2>1 DEF Progress
  <2>3. /\ Reached(h)' \in {Failed, OauthComplete}
        /\ Progress(h)' \in {"failed", "oauth_complete"}
        /\ SetStatus(callback[h].chal, Reached(h)')
    <3>1. CASE RecordFailure(h)
      BY <2>1, <3>1, Advanced DEF RecordFailure, Reached, Progress
    <3>2. CASE MarkOauthComplete(h)
      BY <2>1, <3>2, Advanced DEF MarkOauthComplete, Reached, Progress
    <3>. QED  BY <1>5, <3>1, <3>2
  <2>4. Progress(h)' \in Lifecycle!Successors(Progress(h))
    BY <2>2, <2>3 DEF Lifecycle!Successors
  <2>. QED  BY <2>1, <2>3, <2>4, HolderMoves, StatusTypes DEF KeepsClaim
<1>. QED  BY <1>2, <1>3, <1>4, <1>5 DEF CallbackStep

\* A task only moves its claim with the outcome it reports.
LEMMA TaskStage ==
  ASSUME StageInv, IInv', NEW h \in Callback, TaskStep(h)
  PROVE  SlotsFollow' /\ ((Stays /\ SlotsStay) \/ \E c \in Challenge : Moves(c))
<1>. USE DEF StageInv
<1>1. /\ UNCHANGED <<callback, creator>>
      /\ task[h].pc # "reported" /\ callback[h].resp = "confirmed_page"
      /\ \A g \in Callback \ {h} : task'[g] = task[g]
  BY TaskAdvanced DEF AnswersFit, TaskActive
<1>2. CASE ~ReportOutcome(h)
  <2>1. task'[h].pc # "reported" /\ results' = results
    BY <1>2, TaskAdvanced
  <2>2. \A g \in Callback : Reached(g)' = Reached(g)
    BY <1>1, <2>1 DEF Reached
  <2>. QED  BY <1>1, <2>1, <2>2, NothingMoves DEF SlotsStay
<1>3. CASE ReportOutcome(h)
  <2>1. /\ task[h].pc = "finishing" /\ task'[h].pc = "reported"
        /\ task'[h].result = task[h].result
        /\ SetStatus(callback[h].chal, task[h].result)
    BY <1>3, TaskAdvanced DEF ReportOutcome
  <2>2. /\ callback[h].pending # Absent /\ callback[h].chal \in Challenge
        /\ task[h].result \in {Failed, Complete(ProofOf(h))} /\ task[h].result \in FlowStatus
    BY <2>1, ProofOfType, StatusTypes
       DEF IInv, Binding, CheckedBeforeExchange, TaskReportsOwn
  <2>3. /\ Progress(h) = "oauth_complete"
        /\ Reached(h)' = task[h].result /\ Progress(h)' = task[h].result.phase
    BY <1>1, <2>1 DEF Progress, Reached
  <2>4. Progress(h)' \in Lifecycle!Successors(Progress(h))
    BY <2>2, <2>3 DEF Lifecycle!Successors, Failed, Complete
  <2>. QED  BY <1>1, <2>1, <2>2, <2>3, <2>4, HolderMoves
<1>. QED  BY <1>2, <1>3

\* A claim is opened by its slot and by nothing else its request does.
LEMMA OpenedBySlot ==
  ASSUME IInv, NEW c \in Challenge, CreatorStep(c), ~CreateSlot(c), NEW d \in Challenge
  PROVE  creator'[d].pc = "responded" <=> creator[d].pc = "responded"
<1>0. creator \in [Challenge -> Creator]
  BY DEF IInv, TypeOK
<1>1. CASE ChallengeGithub(c)
  <2>1. PICK p \in Pubkey, w \in Wallet :
          creator' = [creator EXCEPT ![c] =
            IF ValidRequest(p, w)
            THEN [pc |-> "minted", pubkey |-> p, wallet |-> w, age |-> 0]
            ELSE [NoRequest EXCEPT !.pc = "rejected"]]
    BY <1>1 DEF ChallengeGithub
  <2>. QED  BY <1>0, <1>1, <2>1 DEF ChallengeGithub, NoRequest
<1>2. CASE CreateChallenge(c) \/ DropCreator(c)
  <2>1. PICK zero \in Age : zero = 0
    BY TTLAssumption DEF Age
  <2>2. \E pc \in {"stored", "dropped"} :
          creator' = [creator EXCEPT ![c] = [@ EXCEPT !.pc = pc, !.age = zero]]
    BY <1>2, <2>1 DEF CreateChallenge, DropCreator
  <2>3. creator[c].pc # "responded"
    BY <1>2 DEF CreateChallenge, DropCreator
  <2>. QED  BY <1>0, <2>2, <2>3 DEF Creator
<1>3. CASE Authorize(c)
  BY <1>3 DEF Authorize
<1>. QED  BY <1>1, <1>2, <1>3 DEF CreatorStep

\* What a request, a task or the process does to the claims: it moves one of them
\* to a next stage, or leaves them all where they are; and every slot follows.
LEMMA RequestStage ==
  ASSUME StageInv, IInv',
         \/ \E c \in Challenge : CreatorStep(c)
         \/ \E h \in Callback : CallbackStep(h) \/ TaskStep(h)
         \/ ProcessStep
  PROVE  SlotsFollow' /\ ((Stays /\ SlotsStay) \/ \E c \in Challenge : Moves(c))
<1>. USE DEF StageInv
<1>1. ASSUME UNCHANGED <<callback, task, results>>,
             \A d \in Challenge : creator'[d].pc = "responded" <=> creator[d].pc = "responded"
      PROVE  SlotsFollow' /\ Stays /\ SlotsStay
  <2>1. \A h \in Callback : Reached(h)' = Reached(h)
    BY <1>1 DEF Reached
  <2>. QED  BY <1>1, <2>1, NothingMoves DEF SlotsStay
<1>2. ASSUME NEW c \in Challenge, CreatorStep(c), ~CreateSlot(c)
      PROVE  SlotsFollow' /\ Stays /\ SlotsStay
  <2>1. UNCHANGED <<callback, task, results>>
    BY <1>2 DEF CreatorStep, ChallengeGithub, CreateChallenge, Authorize, DropCreator
  <2>. QED  BY <1>1, <1>2, <2>1, OpenedBySlot
<1>3. CASE ProcessStep
  <2>1. ASSUME NEW h \in Callback
        PROVE  /\ callback'[h].chal = callback[h].chal
               /\ callback'[h].pending = callback[h].pending
               /\ Reached(h)' = Reached(h)
    <3>1. CASE callback'[h] = callback[h] /\ task'[h] = task[h]
      BY <3>1 DEF Reached
    <3>2. CASE callback'[h] = callback[h] /\ TaskActive(h) /\ task'[h].pc = "dead"
      BY <3>2 DEF Reached, AnswersFit, TaskActive
    <3>3. CASE /\ CallbackActive(h)
               /\ callback'[h].pc = "dropped"
               /\ callback'[h].chal = callback[h].chal
               /\ callback'[h].pending = callback[h].pending
               /\ callback'[h].resp = callback[h].resp
      <4>1. task[h].pc = "none" /\ task'[h] = task[h]
        BY <1>3, <3>3, ProcessMoved DEF AnswersFit, CallbackActive, TaskActive
      <4>. QED  BY <3>3, <4>1 DEF Reached, CallbackActive
    <3>. QED  BY <1>3, <3>1, <3>2, <3>3, ProcessMoved DEF AnswersFit, CallbackActive, TaskActive
  <2>2. \A c \in Challenge : creator'[c].pc = "responded" <=> creator[c].pc = "responded"
    BY <1>3, ProcessMoved DEF CreatorActive
  <2>3. SlotsStay /\ \A c \in Challenge : results'[c] # Absent => results'[c] = results[c]
    BY <1>3, ProcessMoved DEF SlotsStay
  <2>. QED  BY <2>1, <2>2, <2>3, NothingMoves
<1>. QED  BY <1>2, <1>3, CreateSlotMoves, HandlerStage, TaskStage DEF CreatorStep

\* So does time, which only makes the slots older.
LEMMA NextStage ==
  ASSUME StageInv, IInv', [Next]_vars
  PROVE  /\ SlotsFollow'
         /\ \/ Stays /\ (SlotsStay \/ results' = Aged(results))
            \/ \E c \in Challenge : Moves(c)
<1>. USE DEF StageInv
<1>1. CASE Tick
  <2>1. creator \in [Challenge -> Creator]
    BY DEF IInv, TypeOK
  <2>2. /\ UNCHANGED <<callback, task>>
        /\ \A d \in Challenge : creator'[d].pc = creator[d].pc
        /\ results' = Aged(results)
    BY <1>1, <2>1 DEF Tick, Creator
  <2>3. \A h \in Callback : Reached(h)' = Reached(h)
    BY <2>2 DEF Reached
  <2>4. ASSUME NEW c \in Challenge, results'[c] # Absent
        PROVE  results[c] # Absent /\ results'[c].status = results[c].status
    <3>1. /\ results[c] # Absent /\ results[c] \in FlowEntry
          /\ results'[c] = [results[c] EXCEPT !.age = Elapse(@)]
      BY <2>2, <2>4 DEF Aged, IInv, TypeOK, AppStateTypeOK
    <3>. QED  BY <3>1 DEF FlowEntry
  <2>. QED  BY <2>2, <2>3, <2>4, NothingMoves
<1>2. CASE UNCHANGED vars
  <2>1. \A h \in Callback : Reached(h)' = Reached(h)
    BY <1>2 DEF Reached, vars
  <2>. QED  BY <1>2, <2>1, NothingMoves DEF SlotsStay, vars
<1>. QED  BY <1>1, <1>2, RequestStage DEF Next

-----------------------------------------------------------------------------
\* The invariant.

LEMMA InitStageInv == Init => StageInv
<1>. SUFFICES ASSUME Init PROVE StageInv
  OBVIOUS
<1>1. AnswersFit
  BY ResponseAssumption DEF Init, AnswersFit, NoCallback, NoTask, Response
<1>2. SlotsFollow /\ StoppedIsStill
  BY DEF Init, AppStateInit, SlotsFollow, SlotFollows, StoppedIsStill
<1>. QED  BY <1>1, <1>2, InitIInv DEF StageInv

\* Every step of the server preserves StageInv.
LEMMA NextStageInv == StageInv /\ [Next]_vars => StageInv'
BY NextIInv, NextAnswersFit, NextStopped, NextStage DEF StageInv

\* The results map follows the claims in every reachable state.
THEOREM StageInvariance == Spec => []StageInv
<1>. QED  BY InitStageInv, NextStageInv, PTL DEF Spec

\* What a slot says, by the stage of its claim.
LEMMA SlotSaysStage ==
  ASSUME StageInv, NEW c \in Challenge, results[c] # Absent
  PROVE  /\ results[c].status.phase = StageOf(c)
         /\ \A h \in Callback :
              callback[h].pending # Absent /\ callback[h].chal = c =>
                results[c].status = Reached(h)
<1>. USE DEF StageInv
<1>1. creator[c].pc = "responded" /\ SlotFollows(c)
  BY DEF IInv, Binding, KnownOnceAnswered, SlotsFollow
<1>2. CASE Holders(c) = {}
  BY <1>1, <1>2 DEF SlotFollows, StageOf, Waiting, Holders
<1>3. CASE Holders(c) # {}
  <2>1. PICK h \in Callback : h \in Holders(c)
    BY <1>3 DEF Holders
  <2>2. results[c].status = Reached(h) /\ StageOf(c) = Progress(h)
    BY <1>1, <2>1, StageOfHeld DEF HolderLeads, SlotFollows, Holders
  <2>. QED  BY <1>1, <2>2, ReachedPhase DEF SlotFollows, Holders
<1>. QED  BY <1>2, <1>3

-----------------------------------------------------------------------------
\* The theorems.

\* A poll that reads anything reads the stage the claim has really got to, in the
\* requests that have worked on it (status_json against the handlers' set_status).
THEOREM PollsReadTheStage == Spec => []PollReadsStage
<1>1. StageInv => PollReadsStage
  BY SlotSaysStage DEF PollReadsStage, StatusJson
<1>. QED  BY <1>1, StageInvariance, PTL

\* What a callback that was handed the challenge has answered its popup fixes what
\* polls of the challenge can still read: a recorded failure; after the page that
\* confirms authorization, what the flow has come to; and that the claim waits, for
\* as long as anything is read, when the popup alone was told of a refusal.
THEOREM PollsFollowAnswers == Spec => []PollFollowsAnswer
<1>1. StageInv => PollFollowsAnswer
  <2>. SUFFICES ASSUME StageInv, NEW h \in Callback,
                       callback[h].pc = "done", callback[h].pending # Absent,
                       StatusJson(callback[h].chal) # Absent
                PROVE  LET read == StatusJson(callback[h].chal) IN
                       \/ callback[h].resp \in {"failed_page", "bad_gateway"} /\ read = Failed
                       \/ /\ callback[h].resp = "confirmed_page"
                          /\ read \in {OauthComplete, Failed, Complete(ProofOf(h))}
                       \/ callback[h].resp \in {"gone", "bad_request"} /\ read = Waiting
    BY DEF PollFollowsAnswer
  <2>1. StatusJson(callback[h].chal) = Reached(h)
    <3>1. callback[h].chal \in Challenge
      BY StageOfHeld DEF StageInv, HolderLeads
    <3>. QED  BY <3>1, SlotSaysStage DEF StatusJson
  <2>2. CASE callback[h].resp \in {"failed_page", "bad_gateway"}
    <3>1. task[h].pc = "none" /\ Reached(h) = Failed
      BY <2>2 DEF StageInv, AnswersFit, Reached
    <3>. QED  BY <2>1, <2>2, <3>1
  <2>3. CASE callback[h].resp = "confirmed_page"
    <3>1. Reached(h) \in {OauthComplete, Failed, Complete(ProofOf(h))}
      BY <2>3 DEF StageInv, IInv, Binding, TaskReportsOwn, Reached
    <3>. QED  BY <2>1, <2>3, <3>1
  <2>4. CASE callback[h].resp \in {"gone", "bad_request"}
    <3>1. task[h].pc = "none" /\ Reached(h) = Waiting
      BY <2>4 DEF StageInv, AnswersFit, Reached
    <3>. QED  BY <2>1, <2>4, <3>1
  <2>5. callback[h].resp \in Response \ {"not_found"}
    BY DEF StageInv, AnswersFit
  <2>. QED  BY <2>2, <2>3, <2>4, <2>5 DEF Response
<1>. QED  BY <1>1, StageInvariance, PTL

\* An outcome is final: no step of any request replaces a completed or failed
\* result, which goes away only expired or with the process (set_status, the
\* sweep of create_challenge).
THEOREM OutcomesAreFinal == Spec => OutcomeNeverRewritten
<1>1. ASSUME StageInv, StageInv', [Next]_vars, NEW c \in Challenge,
             results[c] # Absent, Terminal(results[c].status)
      PROVE  \/ results'[c] # Absent /\ results'[c].status = results[c].status
             \/ results'[c] = Absent /\ (results[c].age >= TTL \/ server' = "stopped")
  <2>1. StageOf(c) \in {"complete", "failed"}
    BY <1>1, SlotSaysStage DEF Terminal
  <2>2. results \in [Challenge -> FlowEntry \cup {Absent}] /\ results[c] \in FlowEntry
    BY <1>1 DEF StageInv, IInv, TypeOK, AppStateTypeOK
  <2>3. CASE SlotsStay \/ results' = Aged(results)
    <3>1. CASE results' = Aged(results)
      <4>1. /\ results'[c] = [results[c] EXCEPT !.age = Elapse(@)]
            /\ results[c].age \in Age
        BY <1>1, <2>2, <3>1 DEF Aged, FlowEntry
      <4>2. results'[c] \in FlowEntry /\ results'[c].status = results[c].status
        BY <2>2, <4>1, ElapseType DEF FlowEntry
      <4>. QED  BY <4>2, AbsentAssumption
    <3>2. CASE server = "stopped"
      BY <1>1, <3>2 DEF StageInv, StoppedIsStill
    <3>. QED  BY <1>1, <2>3, <3>1, <3>2 DEF SlotsStay
  <2>4. ASSUME NEW d \in Challenge, Moves(d)
        PROVE  \/ results'[c] = results[c]
               \/ results'[c] = Absent /\ results[c].age >= TTL
    <3>1. c # d
      BY <2>1, <2>4 DEF Moves, Lifecycle!Successors
    <3>. QED  BY <2>4, <3>1 DEF Moves
  <2>. QED  BY <1>1, <2>3, <2>4, NextStage DEF StageInv
<1>. DEFINE Kept ==
       \A c \in Challenge :
         results[c] # Absent /\ Terminal(results[c].status) =>
           \/ results'[c] # Absent /\ results'[c].status = results[c].status
           \/ results'[c] = Absent /\ (results[c].age >= TTL \/ server' = "stopped")
<1>2. StageInv /\ [Next]_vars => [Kept]_vars
  BY <1>1, NextStageInv
<1>3. OutcomeNeverRewritten <=> [][Kept]_vars
  BY DEF OutcomeNeverRewritten
<1>. HIDE DEF Kept
<1>. QED  BY <1>2, <1>3, StageInvariance, PTL DEF Spec

\* The sweep reclaims: when a challenge request is answered, no expired result of
\* another challenge is left (create_challenge).
THEOREM SweepsReclaim == Spec => SweepReclaims
<1>1. ASSUME StageInv, [Next]_vars, NEW c \in Challenge,
             creator[c].pc # "responded", creator'[c].pc = "responded"
      PROVE  CreateSlot(c)
  <2>1. ASSUME NEW d \in Challenge, CreatorStep(d) PROVE CreateSlot(c)
    <3>1. CreateSlot(d)
      BY <1>1, <2>1, OpenedBySlot DEF StageInv
    <3>2. c = d
      BY <1>1, <3>1 DEF CreateSlot, StageInv, IInv, TypeOK
    <3>. QED  BY <3>1, <3>2
  <2>2. ASSUME NEW h \in Callback, CallbackStep(h) PROVE creator' = creator
    BY <2>2 DEF CallbackStep, ReceiveCallback, Consume, ExchangeAnswered, RecordFailure,
       MarkOauthComplete, SpawnVerification, DropCallback
  <2>3. ASSUME NEW h \in Callback, TaskStep(h) PROVE creator' = creator
    BY <1>1, <2>3, TaskAdvanced DEF StageInv
  <2>4. CASE Tick
    BY <1>1, <2>4 DEF Tick, StageInv, IInv, TypeOK, Creator
  <2>5. CASE ProcessStep
    BY <1>1, <2>5, ProcessMoved DEF StageInv
  <2>. QED  BY <1>1, <2>1, <2>2, <2>3, <2>4, <2>5 DEF Next, vars
<1>2. ASSUME StageInv, NEW c \in Challenge, CreateSlot(c),
             NEW d \in Challenge \ {c}, results'[d] # Absent
      PROVE  results'[d].age < TTL
  <2>1. results'[d] = SweptResults[d]
    BY <1>2 DEF CreateSlot, OpenSlot, SweptResults
  <2>2. results[d] # Absent /\ results'[d] = results[d] /\ KeepsResult(results[d])
    BY <1>2, <2>1 DEF SweptResults
  <2>. QED  BY <2>2 DEF KeepsResult
<1>. DEFINE Reclaimed ==
       \A c \in Challenge :
         creator[c].pc # "responded" /\ creator'[c].pc = "responded" =>
           \A d \in Challenge \ {c} :
             results'[d] # Absent => results'[d].age < TTL
<1>3. StageInv /\ [Next]_vars => [Reclaimed]_vars
  BY <1>1, <1>2
<1>4. SweepReclaims <=> [][Reclaimed]_vars
  BY DEF SweepReclaims
<1>. HIDE DEF Reclaimed
<1>. QED  BY <1>3, <1>4, StageInvariance, PTL DEF Spec

\* The server keeps the promise of ClaimLifecycle: claims only move forward, a
\* stage is readable for TTL after it was reached, neither longer nor shorter
\* whatever other clients do, and only a restart loses one early.
THEOREM LifecycleIsImplemented == Spec => ImplementsLifecycle
<1>. DEFINE stages == [c \in Challenge |-> StageOf(c)]
            idles  == [c \in Challenge |-> IF results[c] = Absent THEN TTL
                                                              ELSE results[c].age]
<1>1. Init => Lifecycle!Init
  BY DEF Init, AppStateInit, NoRequest, StageOf, Lifecycle!Init
<1>2. ASSUME StageInv, StageInv', [Next]_vars
      PROVE  [Lifecycle!Next]_<<stages, idles>>
  <2>1. \A c \in Challenge : /\ results[c] # Absent => results[c].age \in Age
                             /\ results[c] # Absent => results[c] \in FlowEntry
    BY <1>2 DEF StageInv, IInv, TypeOK, AppStateTypeOK, FlowEntry
  <2>2. ASSUME NEW c \in Challenge, Moves(c) PROVE Lifecycle!Move(c)
    <3>1. stages' = [stages EXCEPT ![c] = StageOf(c)']
      BY <2>2 DEF Moves
    <3>2. idles' = [idles EXCEPT ![c] = 0]
      <4>1. idles'[c] = 0
        BY <2>2 DEF Moves
      <4>2. ASSUME NEW d \in Challenge \ {c} PROVE idles'[d] = idles[d]
        BY <2>1, <2>2, <4>2, TTLAssumption DEF Moves, Age
      <4>. QED  BY <4>1, <4>2
    <3>. QED  BY <2>2, <3>1, <3>2 DEF Moves, Lifecycle!Move
  <2>3. Stays => stages' = stages
    BY DEF Stays
  <2>4. results' = results => idles' = idles
    OBVIOUS
  <2>5. ASSUME results' = Aged(results), Stays PROVE Lifecycle!Tick
    <3>1. ASSUME NEW c \in Challenge
          PROVE  idles'[c] = IF idles[c] < TTL THEN idles[c] + 1 ELSE TTL
      <4>1. CASE results[c] = Absent
        BY <2>5, <4>1, TTLAssumption DEF Aged
      <4>2. CASE results[c] # Absent
        <5>1. /\ results'[c] = [results[c] EXCEPT !.age = Elapse(@)]
              /\ results[c] \in FlowEntry /\ results[c].age \in Age
          BY <2>1, <2>5, <4>2 DEF Aged
        <5>2. results'[c] \in FlowEntry /\ results'[c].age = Elapse(results[c].age)
          BY <5>1, ElapseType DEF FlowEntry
        <5>3. idles[c] = results[c].age /\ idles'[c] = Elapse(results[c].age)
          BY <4>2, <5>2, AbsentAssumption
        <5>4. \A n \in Age : Elapse(n) = IF n < TTL THEN n + 1 ELSE TTL
          BY TTLAssumption DEF Elapse, Age
        <5>. QED  BY <5>1, <5>3, <5>4
      <4>. QED  BY <4>1, <4>2
    <3>. QED  BY <2>3, <2>5, <3>1 DEF Lifecycle!Tick
  <2>6. ASSUME \A c \in Challenge : results'[c] = Absent, Stays PROVE Lifecycle!Restart
    BY <2>3, <2>6 DEF Lifecycle!Restart
  <2>. QED  BY <1>2, <2>2, <2>3, <2>4, <2>5, <2>6, NextStage
            DEF Lifecycle!Next, SlotsStay, StageInv
<1>3. StageInv /\ [Next]_vars => [Lifecycle!Next]_<<stages, idles>>
  BY <1>2, NextStageInv
<1>. QED  BY <1>1, <1>3, StageInvariance, PTL DEF Spec, ImplementsLifecycle, Lifecycle!LifecycleSpec
=============================================================================
