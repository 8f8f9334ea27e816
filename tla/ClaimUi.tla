------------------------------ MODULE ClaimUi ------------------------------
(***************************************************************************)
(* The claim as the web app sees it.  Two channels bring it news: the page *)
(* served to the popup, which posts a message to the window that opened it *)
(* (src/routes/callback.html), and the result endpoint, which the app      *)
(* polls.  Neither waits for the other.                                    *)
(*                                                                         *)
(* External: the app itself, as README.md:14-33 describes it.  It polls    *)
(* its challenge from the moment it has it, at least once a tick, until it *)
(* reads something other than 202; whatever that is, it polls no more.     *)
(***************************************************************************)
EXTENDS HandleClaim

VARIABLES
  ui,        \* the app, by the challenge it waits for
  restarted  \* whether the process has ended at some time

\* An app that has not polled has read no status code.
ASSUME CodeAssumption == Absent \notin {200, 202, 404, 500}

Polling == {Absent, 202}

Ui == [told   : SUBSET {"failed", "oauth_complete"},  \* the messages it has got
       read   : Polling \cup {200, 404, 500},         \* what its last poll read
       polled : BOOLEAN]                              \* since the last tick

uiVars == <<ui, restarted>>

Polls(c) == creator[c].pc = "responded" /\ ui[c].read \in Polling

-----------------------------------------------------------------------------
\* callback.html: the phase its script posts.  The plain-text responses post
\* nothing and leave the popup open.
Message(resp) ==
  CASE resp = "failed_page"    -> {"failed"}
    [] resp = "confirmed_page" -> {"oauth_complete"}
    [] OTHER                   -> {}

UiInit ==
  /\ ui = [c \in Challenge |-> [told |-> {}, read |-> Absent, polled |-> FALSE]]
  /\ restarted = FALSE

\* The popup has loaded the page and runs its script.
NotifyOpener(h) ==
  /\ callback[h].pc = "done"
  /\ \E phase \in Message(callback[h].resp) :
       /\ phase \notin ui[callback[h].chal].told
       /\ ui' = [ui EXCEPT ![callback[h].chal].told = @ \cup {phase}]
  /\ UNCHANGED <<vars, restarted>>

\* The app polls and is answered.
Poll(c) ==
  /\ Polls(c)
  /\ server # "stopped"
  /\ ui' = [ui EXCEPT ![c] = [@ EXCEPT !.read = ResultGithub(c), !.polled = TRUE]]
  /\ UNCHANGED <<vars, restarted>>

\* An app that waits polls once a tick, as long as there is a server.
UiTick ==
  /\ \A c \in Challenge : Polls(c) /\ server # "stopped" => ui[c].polled
  /\ Tick
  /\ ui' = [c \in Challenge |-> [ui[c] EXCEPT !.polled = FALSE]]
  /\ UNCHANGED restarted

ServerStep ==
  /\ \/ \E c \in Challenge : CreatorStep(c)
     \/ \E h \in Callback : CallbackStep(h) \/ TaskStep(h)
     \/ ProcessStep
  /\ restarted' = (restarted \/ server' = "stopped")
  /\ UNCHANGED ui

UiNext ==
  \/ \E h \in Callback : NotifyOpener(h)
  \/ \E c \in Challenge : Poll(c)
  \/ UiTick
  \/ ServerStep

UiSpec == Init /\ UiInit /\ [][UiNext]_<<vars, uiVars>>

\* Time passes, and an app that waits polls.  Of the server nothing is asked.
UiFairSpec ==
  /\ UiSpec
  /\ WF_<<vars, uiVars>>(UiTick)
  /\ \A c \in Challenge : WF_<<vars, uiVars>>(Poll(c))

-----------------------------------------------------------------------------
\* The two channels tell one story, in whatever order the news arrives: the
\* popup never announces both outcomes, and an app that was told of a failure
\* never reads a proof, before or after (callback.html, callback_github).
OneStory ==
  \A c \in Challenge :
    "failed" \in ui[c].told => ui[c].told = {"failed"} /\ ui[c].read # 200

\* With a TTL of two polling intervals no outcome is missed: an app that still
\* polls when the outcome is recorded reads it, and not that its challenge is
\* unknown, unless the process has ended meanwhile.
OutcomeIsNotMissed ==
  [][\A c \in Challenge :
       ui[c].read # 404 /\ ui'[c].read = 404 /\ TTL >= 2 =>
         StageOf(c) \notin {"complete", "failed"} \/ restarted]_<<vars, uiVars>>

\* Nobody polls for ever: a flow that hangs, a callback that was refused or never
\* came, a task that panicked and a restart all end in an answer that is not 202
\* (the expiry of status_json), as long as there is a server to answer.
PollingEnds ==
  \A c \in Challenge :
    creator[c].pc = "responded" ~> ui[c].read \notin Polling \/ server = "stopped"
=============================================================================
