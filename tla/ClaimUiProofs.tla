--------------------------- MODULE ClaimUiProofs ---------------------------
(***************************************************************************)
(* Theorems about ClaimUi, for any number of apps, popups and requests.    *)
(*                                                                         *)
(* The argument: a page and a proof both come from the one callback that   *)
(* holds the claim, whose answer no longer changes once it is given; and   *)
(* an outcome that an app has not read is no older than its last poll.     *)
(***************************************************************************)
EXTENDS ClaimUi, LifecycleProofs

\* Only a callback that was handed its challenge answers with a page.
PagesAreHeld ==
  \A h \in Callback :
    callback[h].resp \in {"failed_page", "confirmed_page"} => callback[h].pending # Absent

\* The callback that holds c has answered with this page.
Answered(c, page) ==
  \E h \in Callback :
    /\ callback[h].chal = c /\ callback[h].pending # Absent
    /\ callback[h].pc = "done" /\ callback[h].resp = page

\* What an app has heard or read, some callback has answered.
NewsHasSource ==
  \A c \in Challenge :
    /\ "failed" \in ui[c].told => Answered(c, "failed_page")
    /\ "oauth_complete" \in ui[c].told \/ ui[c].read = 200 => Answered(c, "confirmed_page")

\* An outcome that an app still has to read is there, and is at most one tick old:
\* recorded since its last poll or, if it has polled since the last tick, in this one.
OutcomeWaits ==
  \A c \in Challenge :
    TTL >= 2 /\ Polls(c) /\ ~restarted /\ StageOf(c) \in {"complete", "failed"} =>
      /\ results[c] # Absent
      /\ results[c].age = 0 \/ (results[c].age = 1 /\ ~ui[c].polled)

UiInv ==
  /\ StageInv
  /\ ui \in [Challenge -> Ui] /\ restarted \in BOOLEAN
  /\ PagesAreHeld
  /\ NewsHasSource
  /\ server = "stopped" => restarted
  /\ OutcomeWaits

-----------------------------------------------------------------------------
\* What the steps of the app, the popup and the server do to each other's state.

\* The steps of the server, and of time, are HandleClaim's; the others leave it
\* alone.
LEMMA UiMoves == [UiNext]_<<vars, uiVars>> => [Next]_vars
BY DEF UiNext, NotifyOpener, Poll, UiTick, ServerStep, Next, vars

\* No page without a challenge, in every step.
LEMMA NextPages == StageInv /\ StageInv' /\ PagesAreHeld /\ [Next]_vars => PagesAreHeld'
<1>. SUFFICES ASSUME StageInv, StageInv', PagesAreHeld, [Next]_vars PROVE PagesAreHeld'
  OBVIOUS
<1>. USE DEF StageInv
<1>1. ASSUME callback' = callback PROVE PagesAreHeld'
  BY <1>1 DEF PagesAreHeld
<1>2. ASSUME NEW h \in Callback, ReceiveCallback(h) PROVE PagesAreHeld'
  BY <1>2, Received, ResponseAssumption DEF PagesAreHeld, Response
<1>3. ASSUME NEW h \in Callback, Consume(h) PROVE PagesAreHeld'
  <2>1. callback'[h].resp \in {"failed_page", "confirmed_page"} => callback'[h].pc = "failing"
    BY <1>3, Consumed, ResponseAssumption DEF Response
  <2>2. callback'[h].pc = "failing" => callback'[h].pending # Absent
    BY DEF IInv, Binding, TaskReportsOwn
  <2>. QED  BY <1>3, <2>1, <2>2, Consumed DEF PagesAreHeld
<1>4. ASSUME NEW h \in Callback, CallbackStep(h), ~ReceiveCallback(h), ~Consume(h)
      PROVE  PagesAreHeld'
  <2>1. /\ callback'[h].pending = callback[h].pending
        /\ \A g \in Callback \ {h} : callback'[g] = callback[g]
    BY <1>4, Advanced DEF CallbackStep, KeepsClaim
  <2>2. \/ callback'[h].resp \notin {"failed_page", "confirmed_page"}
        \/ callback'[h].resp = callback[h].resp
        \/ callback'[h].pc = "spawning"
    BY <1>4, Advanced, ResponseAssumption DEF CallbackStep, Response
  <2>3. callback'[h].pc = "spawning" => callback'[h].pending # Absent
    BY DEF IInv, Binding, CheckedBeforeExchange
  <2>. QED  BY <2>1, <2>2, <2>3 DEF PagesAreHeld
<1>5. CASE ProcessStep
  <2>1. \A h \in Callback : /\ callback'[h].pending = callback[h].pending
                            /\ callback'[h].resp = callback[h].resp
    BY <1>5, ProcessMoved
  <2>. QED  BY <2>1 DEF PagesAreHeld
<1>6. (\E c \in Challenge : CreatorStep(c)) => callback' = callback
  BY DEF CreatorStep, ChallengeGithub, CreateChallenge, CreateSlot, Authorize, DropCreator
<1>7. (\E h \in Callback : TaskStep(h)) => callback' = callback
  BY TaskAdvanced
<1>8. Tick \/ UNCHANGED vars => callback' = callback
  BY DEF Tick, vars
<1>. QED  BY <1>1, <1>2, <1>3, <1>4, <1>5, <1>6, <1>7, <1>8 DEF Next

\* An answer stays given.
LEMMA AnsweredStays ==
  ASSUME StageInv, [Next]_vars, NEW c, NEW page, Answered(c, page)
  PROVE  Answered(c, page)'
BY DoneStays DEF StageInv, Answered

\* A poll that reads 200 reads what the callback that confirmed has brought about.
LEMMA ReadIsConfirmed ==
  ASSUME StageInv, NEW c \in Challenge, ResultGithub(c) = 200
  PROVE  Answered(c, "confirmed_page")
<1>1. results[c] # Absent /\ results[c].status \notin {Waiting, OauthComplete, Failed}
  BY DEF ResultGithub, StatusJson, Pending
<1>2. PICK h \in Callback : callback[h].pending # Absent /\ callback[h].chal = c
  BY <1>1 DEF StageInv, SlotsFollow, SlotFollows, Holders
<1>3. results[c].status = Reached(h)
  BY <1>1, <1>2, SlotSaysStage
<1>4. task[h].pc = "reported"
  BY <1>1, <1>3 DEF Reached
<1>. QED  BY <1>2, <1>4 DEF StageInv, AnswersFit, Answered

\* A poll while the outcome of a claim is in its slot reads that outcome.
LEMMA OutcomeIsRead ==
  ASSUME StageInv, NEW c \in Challenge, StageOf(c) \in {"complete", "failed"},
         results[c] # Absent, ~Unreadable(results[c])
  PROVE  ResultGithub(c) \in {200, 500}
<1>1. StatusJson(c) = results[c].status /\ results[c].status \in FlowStatus
  BY DEF StatusJson, StageInv, IInv, TypeOK, AppStateTypeOK, FlowEntry
<1>2. results[c].status.phase = StageOf(c)
  BY SlotSaysStage
<1>3. results[c].status \notin Pending
  BY <1>2 DEF Pending, Waiting, OauthComplete
<1>4. results[c].status # Absent
  BY <1>1, AbsentAssumption
<1>. QED  BY <1>1, <1>3, <1>4 DEF ResultGithub

\* What the steps of an app and of its popup do to what the app knows.
LEMMA Told ==
  ASSUME UiInv, NEW h \in Callback, NotifyOpener(h)
  PROVE  /\ UNCHANGED <<vars, restarted>> /\ ui' \in [Challenge -> Ui]
         /\ \A c \in Challenge :
              /\ ui'[c].read = ui[c].read /\ ui'[c].polled = ui[c].polled
              /\ ui'[c].told # ui[c].told =>
                   \/ ui'[c].told = ui[c].told \cup {"failed"} /\ Answered(c, "failed_page")
                   \/ /\ ui'[c].told = ui[c].told \cup {"oauth_complete"}
                      /\ Answered(c, "confirmed_page")
<1>. DEFINE d == callback[h].chal
<1>1. PICK phase \in Message(callback[h].resp) :
        ui' = [ui EXCEPT ![d].told = @ \cup {phase}]
  BY DEF NotifyOpener
<1>2. \/ phase = "failed" /\ callback[h].resp = "failed_page"
      \/ phase = "oauth_complete" /\ callback[h].resp = "confirmed_page"
  BY <1>1 DEF Message
<1>3. d \in Challenge /\ callback[h].pending # Absent /\ callback[h].pc = "done"
  BY <1>2, StageOfHeld DEF UiInv, PagesAreHeld, StageInv, HolderLeads, NotifyOpener
<1>4. ui \in [Challenge -> Ui] /\ ui[d] \in Ui
  BY <1>3 DEF UiInv
<1>5. /\ ui'[d].told = ui[d].told \cup {phase}
      /\ ui'[d].read = ui[d].read /\ ui'[d].polled = ui[d].polled
      /\ \A c \in Challenge \ {d} : ui'[c] = ui[c]
      /\ ui' \in [Challenge -> Ui]
  BY <1>1, <1>2, <1>3, <1>4 DEF Ui
<1>6. \/ phase = "failed" /\ Answered(d, "failed_page")
      \/ phase = "oauth_complete" /\ Answered(d, "confirmed_page")
  BY <1>2, <1>3 DEF Answered
<1>. QED  BY <1>5, <1>6 DEF NotifyOpener

\* A poll leaves the server alone and notes what it read for its own challenge only.
LEMMA Polled ==
  ASSUME UiInv, NEW c \in Challenge, Poll(c)
  PROVE  /\ UNCHANGED <<vars, restarted>> /\ ui' \in [Challenge -> Ui]
         /\ ui'[c].told = ui[c].told /\ ui'[c].read = ResultGithub(c)
         /\ \A d \in Challenge \ {c} : ui'[d] = ui[d]
<1>1. ui \in [Challenge -> Ui] /\ ui[c] \in Ui
  BY DEF UiInv
<1>2. PICK read : read = ResultGithub(c)
  OBVIOUS
<1>3. read \in Polling \cup {200, 404, 500}
  BY <1>2 DEF ResultGithub, Polling
<1>4. PICK yes \in BOOLEAN :
        ui' = [ui EXCEPT ![c] = [@ EXCEPT !.read = read, !.polled = yes]]
  BY <1>2 DEF Poll
<1>. DEFINE mid == [ui[c] EXCEPT !.read = read]
            new == [ui[c] EXCEPT !.read = read, !.polled = yes]
<1>5. new \in Ui /\ new.told = ui[c].told /\ new.read = read
  <2>1. mid \in Ui /\ mid.told = ui[c].told /\ mid.read = read
    BY <1>1, <1>3 DEF Ui
  <2>2. new = [mid EXCEPT !.polled = yes]
    OBVIOUS
  <2>. HIDE DEF mid, new
  <2>3. new \in Ui /\ new.told = mid.told /\ new.read = mid.read
    BY <2>1, <2>2 DEF Ui
  <2>. QED  BY <2>1, <2>3
<1>6. ui' = [ui EXCEPT ![c] = new]
  BY <1>4
<1>. HIDE DEF new
<1>7. /\ ui' \in [Challenge -> Ui] /\ ui'[c] = new
      /\ \A d \in Challenge \ {c} : ui'[d] = ui[d]
  BY <1>1, <1>5, <1>6
<1>. QED  BY <1>2, <1>5, <1>7 DEF Poll

\* With a tick the server ages, and the app hears and reads nothing.
LEMMA UiTicked ==
  ASSUME UiInv, UiTick
  PROVE  /\ Tick /\ restarted' = restarted /\ ui' \in [Challenge -> Ui]
         /\ \A c \in Challenge :
              ui'[c].told = ui[c].told /\ ui'[c].read = ui[c].read /\ ~ui'[c].polled
<1>1. ui \in [Challenge -> Ui]
  BY DEF UiInv
<1>2. PICK no \in BOOLEAN : no = FALSE
  OBVIOUS
<1>3. ui' = [c \in Challenge |-> [ui[c] EXCEPT !.polled = no]]
  BY <1>2 DEF UiTick
<1>4. /\ ui' \in [Challenge -> Ui]
      /\ \A c \in Challenge :
           ui'[c].told = ui[c].told /\ ui'[c].read = ui[c].read /\ ui'[c].polled = no
  BY <1>1, <1>3 DEF Ui
<1>. QED  BY <1>2, <1>4 DEF UiTick

-----------------------------------------------------------------------------
\* The invariant.

LEMMA InitUiInv == Init /\ UiInit => UiInv
<1>. SUFFICES ASSUME Init, UiInit PROVE UiInv
  OBVIOUS
<1>1. ui \in [Challenge -> Ui] /\ restarted \in BOOLEAN
  BY DEF UiInit, Ui, Polling
<1>2. PagesAreHeld
  BY ResponseAssumption DEF Init, NoCallback, PagesAreHeld, Response
<1>3. NewsHasSource
  <2>1. \A c \in Challenge : ui[c].told = {} /\ ui[c].read = Absent
    BY DEF UiInit
  <2>. QED  BY <2>1, CodeAssumption DEF NewsHasSource
<1>4. OutcomeWaits
  BY DEF Init, NoRequest, OutcomeWaits, Polls
<1>. QED  BY <1>1, <1>2, <1>3, <1>4, InitStageInv DEF UiInv, Init

\* Every piece of news keeps its source.
LEMMA NextNews == UiInv /\ StageInv' /\ [UiNext]_<<vars, uiVars>> => NewsHasSource'
<1>. SUFFICES ASSUME UiInv, [UiNext]_<<vars, uiVars>> PROVE NewsHasSource'
  OBVIOUS
<1>1. /\ StageInv /\ NewsHasSource /\ [Next]_vars
      /\ \A c \in Challenge, page \in {"failed_page", "confirmed_page"} :
           Answered(c, page) => Answered(c, page)'
  BY UiMoves, AnsweredStays DEF UiInv
<1>2. \A c \in Challenge :
        /\ "failed" \in ui'[c].told => "failed" \in ui[c].told \/ Answered(c, "failed_page")
        /\ "oauth_complete" \in ui'[c].told \/ ui'[c].read = 200 =>
             \/ "oauth_complete" \in ui[c].told \/ ui[c].read = 200
             \/ Answered(c, "confirmed_page")
  <2>1. CASE \E h \in Callback : NotifyOpener(h)
    BY <2>1, Told
  <2>2. ASSUME NEW d \in Challenge, Poll(d) PROVE <1>2
    BY <1>1, <2>2, Polled, ReadIsConfirmed
  <2>3. CASE UiTick
    BY <2>3, UiTicked
  <2>4. CASE ui' = ui
    BY <2>4
  <2>. QED  BY <2>1, <2>2, <2>3, <2>4 DEF UiNext, ServerStep, uiVars
<1>. QED  BY <1>1, <1>2 DEF NewsHasSource

\* A claim that has an outcome has been opened.
LEMMA OutcomeIsOpen ==
  \A c \in Challenge : StageOf(c) \in {"complete", "failed"} => creator[c].pc = "responded"
BY DEF StageOf

\* An app that still polls reads the outcome, if there is one.
LEMMA PollFindsOutcome ==
  ASSUME UiInv, NEW c \in Challenge, TTL >= 2, Polls(c), ~restarted,
         StageOf(c) \in {"complete", "failed"}
  PROVE  ResultGithub(c) \in {200, 500}
<1>1. /\ results[c] # Absent
      /\ results[c].age = 0 \/ results[c].age = 1
  BY DEF UiInv, OutcomeWaits
<1>2. ~Unreadable(results[c])
  BY <1>1, TTLAssumption DEF Unreadable
<1>. QED  BY <1>1, <1>2, OutcomeIsRead DEF UiInv

\* An outcome waits for its app in every step: it is recorded fresh, nothing but the
\* process takes it away before it has expired, and no tick passes without a poll.
LEMMA NextWaits == UiInv /\ StageInv' /\ [UiNext]_<<vars, uiVars>> => OutcomeWaits'
<1>. SUFFICES ASSUME UiInv, StageInv', [UiNext]_<<vars, uiVars>>,
                     NEW c \in Challenge, TTL >= 2, Polls(c)', ~restarted',
                     StageOf(c)' \in {"complete", "failed"}
              PROVE  /\ results'[c] # Absent
                     /\ results'[c].age = 0 \/ (results'[c].age = 1 /\ ~ui'[c].polled)
  BY DEF OutcomeWaits
<1>1. StageInv /\ IInv' /\ [Next]_vars /\ (server = "stopped" => restarted)
  BY UiMoves DEF UiInv, StageInv
<1>2. ASSUME StageOf(c)' = StageOf(c), restarted' = restarted, ui'[c].read = ui[c].read
      PROVE  /\ Polls(c) /\ ~restarted /\ StageOf(c) \in {"complete", "failed"}
             /\ results[c] # Absent
             /\ results[c].age = 0 \/ (results[c].age = 1 /\ ~ui[c].polled)
  BY <1>2, OutcomeIsOpen DEF UiInv, OutcomeWaits, Polls
<1>3. CASE UNCHANGED <<vars, restarted>> /\ ui'[c].read = ui[c].read
           /\ ui'[c].polled = ui[c].polled
  <2>1. StageOf(c)' = StageOf(c) /\ results' = results
    BY <1>3 DEF vars, StageOf, Holders, Progress
  <2>. QED  BY <1>2, <1>3, <2>1
<1>4. ~Poll(c)
  <2>1. SUFFICES ASSUME Poll(c) PROVE FALSE
    OBVIOUS
  <2>2. /\ StageOf(c)' = StageOf(c) /\ restarted' = restarted
        /\ ui'[c].read = ResultGithub(c)
    BY <2>1, Polled DEF vars, StageOf, Holders, Progress
  <2>3. ResultGithub(c) \in {200, 500}
    BY <2>1, <2>2, PollFindsOutcome DEF Poll
  <2>. QED  BY <2>2, <2>3, CodeAssumption DEF Polls, Polling
<1>5. CASE UiTick
  <2>1. CASE Moves(c)
    BY <2>1 DEF Moves
  <2>2. CASE StageOf(c)' = StageOf(c)
    <3>1. /\ Polls(c) /\ ui[c].polled /\ ~ui'[c].polled
          /\ results[c] # Absent /\ results[c].age = 0
      BY <1>1, <1>2, <1>5, <2>2, UiTicked DEF UiTick
    <3>2. results'[c] = [results[c] EXCEPT !.age = Elapse(@)] /\ results[c] \in FlowEntry
      BY <1>1, <1>5, <3>1 DEF UiTick, Tick, Aged, StageInv, IInv, TypeOK, AppStateTypeOK
    <3>3. Elapse(results[c].age) = 1 /\ 1 \in Age
      BY <3>1, TTLAssumption DEF Elapse, Age
    <3>4. results'[c] \in FlowEntry /\ results'[c].age = 1
      BY <3>2, <3>3 DEF FlowEntry
    <3>. QED  BY <3>1, <3>4, AbsentAssumption
  <2>. QED  BY <1>1, <2>1, <2>2, NextStage DEF Stays, Moves
<1>6. CASE ServerStep
  <2>1. (Stays /\ SlotsStay) \/ \E d \in Challenge : Moves(d)
    BY <1>1, <1>6, RequestStage DEF ServerStep
  <2>2. CASE Moves(c)
    BY <2>2 DEF Moves
  <2>3. CASE ~Moves(c)
    <3>1. /\ StageOf(c)' = StageOf(c)
          /\ \/ results'[c] = results[c]
             \/ results'[c] = Absent /\ results[c] # Absent /\ results[c].age >= TTL
             \/ server' = "stopped" \/ server = "stopped"
      BY <2>1, <2>3 DEF Stays, SlotsStay, Moves
    <3>2. /\ ui' = ui /\ ~restarted /\ restarted' = restarted
          /\ server' # "stopped" /\ server # "stopped"
      BY <1>1, <1>6 DEF UiInv, ServerStep
    <3>3. /\ results[c] # Absent
          /\ results[c].age = 0 \/ (results[c].age = 1 /\ ~ui[c].polled)
      BY <1>2, <3>1, <3>2
    <3>4. ~(results[c].age >= TTL)
      BY <3>3, TTLAssumption
    <3>. QED  BY <3>1, <3>2, <3>3, <3>4
  <2>. QED  BY <2>2, <2>3
<1>7. ASSUME NEW h \in Callback, NotifyOpener(h)
      PROVE  /\ UNCHANGED <<vars, restarted>> /\ ui'[c].read = ui[c].read
             /\ ui'[c].polled = ui[c].polled
  BY <1>7, Told
<1>8. ASSUME NEW d \in Challenge \ {c}, Poll(d)
      PROVE  UNCHANGED <<vars, restarted>> /\ ui'[c] = ui[c]
  BY <1>8, Polled
<1>9. CASE UNCHANGED <<vars, uiVars>>
  BY <1>3, <1>9 DEF uiVars
<1>. QED  BY <1>3, <1>4, <1>5, <1>6, <1>7, <1>8, <1>9 DEF UiNext

\* Every step of the server, of the app and of the popup page preserves UiInv.
LEMMA NextUiInv == UiInv /\ [UiNext]_<<vars, uiVars>> => UiInv'
<1>. SUFFICES ASSUME UiInv, [UiNext]_<<vars, uiVars>> PROVE UiInv'
  OBVIOUS
<1>1. StageInv' /\ [Next]_vars
  BY NextStageInv, UiMoves DEF UiInv
<1>2. ui' \in [Challenge -> Ui] /\ restarted' \in BOOLEAN
  BY Told, Polled, UiTicked DEF UiInv, UiNext, ServerStep, uiVars
<1>3. server' = "stopped" => restarted'
  BY Told, Polled DEF UiInv, UiNext, UiTick, Tick, ServerStep, vars, uiVars
<1>. QED  BY <1>1, <1>2, <1>3, NextPages, NextNews, NextWaits DEF UiInv

\* The invariant holds in every reachable state.
THEOREM UiInvariance == UiSpec => []UiInv
<1>. QED  BY InitUiInv, NextUiInv, PTL DEF UiSpec

-----------------------------------------------------------------------------
\* The theorems.

\* The two channels tell one story: the popup never announces both outcomes, and an
\* app that was told of a failure never reads a proof (callback.html,
\* callback_github).
THEOREM ChannelsTellOneStory == UiSpec => []OneStory
<1>1. UiInv => OneStory
  <2>. SUFFICES ASSUME UiInv, NEW c \in Challenge, "failed" \in ui[c].told
                PROVE  ui[c].told = {"failed"} /\ ui[c].read # 200
    BY DEF OneStory
  <2>1. ~Answered(c, "confirmed_page")
    BY DEF UiInv, NewsHasSource, Answered, StageInv, IInv, Binding, HeldOnce, SingleUse
  <2>2. ui[c].told \subseteq {"failed", "oauth_complete"}
    BY DEF UiInv, Ui
  <2>. QED  BY <2>1, <2>2 DEF UiInv, NewsHasSource
<1>. QED  BY <1>1, UiInvariance, PTL

\* With a TTL of two polling intervals no outcome is missed: an app that still polls
\* when the outcome is recorded reads it, unless the process has ended meanwhile
\* (status_json, set_status and the sweep of create_challenge).
THEOREM OutcomesAreNotMissed == UiSpec => OutcomeIsNotMissed
<1>1. ASSUME UiInv, [UiNext]_<<vars, uiVars>>, NEW c \in Challenge,
             ui[c].read # 404, ui'[c].read = 404, TTL >= 2
      PROVE  StageOf(c) \notin {"complete", "failed"} \/ restarted
  <2>1. Poll(c)
    <3>1. \A h \in Callback : NotifyOpener(h) => ui'[c].read = ui[c].read
      BY <1>1, Told
    <3>2. \A d \in Challenge \ {c} : Poll(d) => ui'[c] = ui[c]
      BY <1>1, Polled
    <3>3. UiTick => ui'[c].read = ui[c].read
      BY <1>1, UiTicked
    <3>4. ServerStep \/ UNCHANGED <<vars, uiVars>> => ui' = ui
      BY DEF ServerStep, uiVars
    <3>. QED  BY <1>1, <3>1, <3>2, <3>3, <3>4 DEF UiNext
  <2>2. Polls(c) /\ ResultGithub(c) = 404
    BY <1>1, <2>1, Polled DEF Poll
  <2>. QED  BY <1>1, <2>2, PollFindsOutcome
<1>. DEFINE Found ==
       \A c \in Challenge :
         ui[c].read # 404 /\ ui'[c].read = 404 /\ TTL >= 2 =>
           StageOf(c) \notin {"complete", "failed"} \/ restarted
<1>2. UiInv /\ [UiNext]_<<vars, uiVars>> => [Found]_<<vars, uiVars>>
  BY <1>1
<1>3. OutcomeIsNotMissed <=> [][Found]_<<vars, uiVars>>
  BY DEF OutcomeIsNotMissed
<1>. HIDE DEF Found
<1>. QED  BY <1>2, <1>3, UiInvariance, PTL DEF UiSpec
=============================================================================
