--------------------------- MODULE ClaimLifecycle ---------------------------
(***************************************************************************)
(* What the server promises a client about one challenge, with no process, *)
(* map, lock or sweep in it.  A claim goes through its stages in order and *)
(* never goes back; the client may read the stage for TTL after it was     *)
(* last changed, exactly that long, unless the server restarts; after that *)
(* it reads nothing, until the claim moves on.                             *)
(*                                                                         *)
(* This is the abstract specification of src/state.rs and                  *)
(* src/routes/; HandleClaim implements it.                                 *)
(***************************************************************************)
EXTENDS Naturals

CONSTANTS Challenge, TTL

VARIABLES
  stage,  \* how far each claim has got
  idle    \* time since it got there; TTL means it can no longer be read

Stage == {"unopened", "waiting_for_authorization", "oauth_complete",
          "complete", "failed"}

\* The stages a claim can reach directly from a stage.
Successors(s) ==
  CASE s = "unopened"                  -> {"waiting_for_authorization"}
    [] s = "waiting_for_authorization" -> {"oauth_complete", "failed"}
    [] s = "oauth_complete"            -> {"complete", "failed"}
    [] OTHER                           -> {}

Init ==
  /\ stage = [c \in Challenge |-> "unopened"]
  /\ idle = [c \in Challenge |-> TTL]

\* The claim moves on, and is readable from now on.
Move(c) ==
  /\ \E s \in Successors(stage[c]) : stage' = [stage EXCEPT ![c] = s]
  /\ idle' = [idle EXCEPT ![c] = 0]

Tick ==
  /\ idle' = [c \in Challenge |-> IF idle[c] < TTL THEN idle[c] + 1 ELSE TTL]
  /\ UNCHANGED stage

\* Nothing survives a restart.
Restart ==
  /\ idle' = [c \in Challenge |-> TTL]
  /\ UNCHANGED stage

Next == (\E c \in Challenge : Move(c)) \/ Tick \/ Restart

LifecycleSpec == Init /\ [][Next]_<<stage, idle>>
=============================================================================
