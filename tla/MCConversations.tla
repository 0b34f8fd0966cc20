--------------------------- MODULE MCConversations ---------------------------
(***************************************************************************)
(* The parts of a conversation that owe the user progress, checked side by *)
(* side: who holds a dialog (DialogClaims, on its own variables), the      *)
(* Telegram poller (TelegramPoller) and the loop of one agent run          *)
(* (AgentLoop), both on s1, s2, ... in the order they declare their        *)
(* variables. A behaviour is a behaviour of one of them, the one "part"    *)
(* names; the parts do not interact here, and the others stand still.      *)
(***************************************************************************)
EXTENDS DialogClaims

VARIABLES part,  \* the component of this behaviour
          s1, s2, s3, s4, s5, s6, s7, s8, s9, s10

slots == <<s1, s2, s3, s4, s5, s6, s7, s8, s9, s10>>
familyVars == <<part, claimVars, slots>>

(* TelegramPoller: a text, and a picture of an album; b sends only text. *)
Message(user, body, media, album) ==
  [user |-> user, msg |-> [forwarded |-> FALSE, body |-> body, media |-> media, album |-> album]]
Sends == {Message("a", "none", "image", 1), Message("a", "text", "none", 0), Message("b", "text", "none", 0)}

(* AgentLoop: a rate limit, a quota refusal that is also a 429, and a lost connection. *)
Failures == {<<429, "none">>, <<429, "quota">>, <<0, "none">>}

TelegramPoller == INSTANCE TelegramPoller WITH
  log <- s1, confirmed <- s2, offset <- s3, pending <- s4, worker <- s5,
  dialog <- s6, mishaps <- s7, Users <- {"a","b"}, Sends <- Sends,
  MaxUpdates <- 3, IngestSlots <- 1, MaxMishaps <- 1

AgentLoop == INSTANCE AgentLoop WITH
  pc <- s1, index <- s2, llm <- s3, order <- s4, tool <- s5, final <- s6,
  history <- s7, cancelled <- s8, outcome <- s9, leaky <- s10,
  MaxIterations <- 3, MaxCalls <- 2, max_retries <- 1, Failures <- Failures

-----------------------------------------------------------------------------
InClaims == part = "dialogClaims" /\ UNCHANGED <<part, slots>>
InPoller == part = "telegramPoller" /\ UNCHANGED <<part, claimVars, s8, s9, s10>>
InLoop == part = "agentLoop" /\ UNCHANGED <<part, claimVars>>

Init ==
  /\ ClaimsInit
  /\ \/ /\ part = "dialogClaims"
        /\ s1 = 0 /\ s2 = 0 /\ s3 = 0 /\ s4 = 0 /\ s5 = 0
        /\ s6 = 0 /\ s7 = 0 /\ s8 = 0 /\ s9 = 0 /\ s10 = 0
     \/ part = "telegramPoller" /\ TelegramPoller!Init /\ s8 = 0 /\ s9 = 0 /\ s10 = 0
     \/ part = "agentLoop" /\ AgentLoop!Init

Next ==
  \/ InClaims /\ ClaimsNext
  \/ InPoller /\ TelegramPoller!Next
  \/ InLoop /\ AgentLoop!Next

(* The fairness of each component's own specification. *)
Fairness ==
  /\ \A n \in Nodes :
       /\ WF_familyVars(InClaims /\ _runner_for_background(n))
       /\ WF_familyVars(InClaims /\ _beat_once(n))
       /\ \A t \in Threads :
            /\ WF_familyVars(InClaims /\ _drop_preempted(n, t))
            /\ WF_familyVars(InClaims /\ Rebuild(n, t))
       /\ WF_familyVars(InClaims /\ _build_runner(n))
       /\ WF_familyVars(InClaims /\ _recover_dialog(n))
       /\ WF_familyVars(InClaims /\ EvictReleases(n))
       /\ WF_familyVars(InClaims /\ Restart(n))
  /\ WF_familyVars(InClaims /\ GoesStale)
  /\ WF_familyVars(InPoller /\ TelegramPoller!_poll_once)
  /\ \A u \in {"a", "b"} :
       /\ WF_familyVars(InPoller /\ TelegramPoller!_work(u))
       /\ WF_familyVars(InPoller /\ TelegramPoller!_collect_album(u))
       /\ WF_familyVars(InPoller /\ TelegramPoller!_handle(u))
       /\ SF_familyVars(InPoller /\ TelegramPoller!AcquireSlot(u))
  /\ WF_familyVars(InLoop /\ AgentLoop!Loop)
  /\ \A c \in AgentLoop!Calls : WF_familyVars(InLoop /\ AgentLoop!ToolTimeout(c))

Spec == Init /\ [][Next]_familyVars /\ Fairness

-----------------------------------------------------------------------------
(* DialogClaims: every runner a heartbeat refreshes ends up holding the    *)
(* dialog: one whose claim moved is stood down (_beat_once,                *)
(* _drop_preempted).                                                       *)
RegisteredEndHolding == <>[](part = "dialogClaims" => RunnersHold)

(* DialogClaims: a dialog never stays without a live owner: its claim is   *)
(* kept warm, or goes stale and is adopted (_runner_for_background,        *)
(* held_elsewhere).                                                        *)
DialogStaysAdopted == []<>(part = "dialogClaims" => Adopted)

(* TelegramPoller: _collect_album: "the pictures can never be overtaken by *)
(* the question about them": entries join a dialog in the order the user   *)
(* sent them, across albums, slow media and failures; a restart may        *)
(* refetch an update the gate turned away before, and is left out.         *)
NeverOvertaken == part = "telegramPoller" => TelegramPoller!NeverOvertaken

(* TelegramPoller: everything routed is answered by words or joins the     *)
(* dialog, except a `/start <payload>` message, which the gate is expected *)
(* to have answered: no fallback of the media paths ends in silence,       *)
(* whatever the service answers and whether or not media understanding is  *)
(* wired.                                                                  *)
NoSilentRoute == part = "telegramPoller" => TelegramPoller!NoSilentRoute

(* TelegramPoller: __init__: "no dialog's slow work (download, vision,     *)
(* transcription) can stall the updates of any other user": the queue of a *)
(* user who sends only text drains even though another user's media call   *)
(* never returns.                                                          *)
TextNeverStalls ==
  \A u \in {"a", "b"} :
    (part = "telegramPoller" /\ TelegramPoller!TextWaits(u)) ~> (part = "telegramPoller" => ~TelegramPoller!TextWaits(u))

(* AgentLoop: whatever was stopped, at the start of an iteration and at    *)
(* the end of a run every assistant message is followed by exactly one     *)
(* reply per call, in its order ("history follows the call order"); a call *)
(* is told cancelled only in a run the user stopped; no tool runs on after *)
(* its run ended, but where the pump was cancelled while it waited for     *)
(* tools or the stream ended with no message; of the attempts of one model *)
(* call only the last is heard ("a retry would duplicate partial output"). *)
RunIsSound ==
  part = "agentLoop" =>
    /\ AgentLoop!TranscriptWellFormed
    /\ AgentLoop!CancelledMeansStopped
    /\ AgentLoop!NoToolOutlivesRun
    /\ AgentLoop!HeardOnce

(* AgentLoop: with a silent provider and wedged tools a stopped run still  *)
(* ends ("a user's stop is not held hostage"), and with the time limit     *)
(* every wait for tools ends ("a tool that never returns holds its         *)
(* iteration open forever").                                               *)
RunsAreNotHeld ==
  /\ (part = "agentLoop" /\ s8) ~> (part = "agentLoop" => AgentLoop!RunOver)
  /\ (part = "agentLoop" /\ AgentLoop!InTools) ~> (part = "agentLoop" => ~AgentLoop!InTools)

=============================================================================
