----------------------------- MODULE MediaIntake -----------------------------
(***************************************************************************)
(* Media that becomes text: a picture or a recording is gated by the plan, *)
(* fetched, read by a model and ledgered on the service (media/service.py, *)
(* vision/client.py, speech/client.py), asked for in process or over HTTP  *)
(* (telegram/media_client.py, server/api/media.py), and put into one       *)
(* message of the dialog (telegram/poller.py), whose pictures the          *)
(* image_look tool may go back to (agent/runner.py, vision/tools.py).      *)
(* A text is the number of the reference it was read from.                 *)
(***************************************************************************)
EXTENDS Integers, Sequences, FiniteSets, SequencesExt

CONSTANTS
  MaxPictures,   \* bound: pictures of one message
  MAX_REFS,      \* references one HTTP request may carry
  MAX_LOOK_IMAGES,
  MinSeconds, MaxSeconds,   \* the surface's bounds of a recording
  Lengths,       \* declared lengths of recordings
  MaxCalls,      \* bound: calls
  MaxMishaps     \* bound: lost or odd answers, failed metering, plan changes

Unknown == -1      \* a length the transport did not declare
Empty == 0         \* a text without words
Placeholder == -1  \* IMAGE_FAILED_PLACEHOLDER

VARIABLES
  able,       \* whether vision and speech are configured
  plan,       \* whether the plan grants the feature
  call,       \* the call in hand
  ref,        \* what became of each of its references
  told,       \* the results its caller was given
  narrative,  \* per message of the dialog, the blocks of its text
  used        \* how often each bounded event has happened

vars == <<able, plan, call, ref, told, narrative, used>>

NoCall == [kind |-> "none", via |-> "local", n |-> 0, seconds |-> Unknown, granted |-> TRUE,
           ledgered |-> 0, unmetered |-> FALSE, pc |-> "idle"]

Mishap == used.mishaps < MaxMishaps /\ used' = [used EXCEPT !.mishaps = @ + 1]
Quiet == UNCHANGED used
Mishappening(odd) == IF odd THEN Mishap ELSE Quiet

Init ==
  /\ able \in [vision : BOOLEAN, speech : BOOLEAN] /\ plan \in BOOLEAN
  /\ call = NoCall /\ ref = <<>> /\ told = <<>> /\ narrative = <<>>
  /\ used = [calls |-> 0, mishaps |-> 0]

Result(outcome, text) == [outcome |-> outcome, text |-> text]
_all(n, outcome) == [i \in 1..n |-> Result(outcome, Empty)]

ok(result) == result.outcome = "ok"
none_understood(results) == \A i \in DOMAIN results : ~ok(results[i])

-----------------------------------------------------------------------------
(* What a surface, or the image_look tool, asks for *)

Latest(said) == Min({Len(said), MAX_LOOK_IMAGES})

(* Every image of the newest message that carries one. *)
_latest_images ==
  LET pictures == SelectSeq(narrative, LAMBDA said : said.image)
  IN  IF pictures = <<>> THEN 0 ELSE Latest(Last(pictures).blocks)

Ask(kind, via, n, seconds) ==
  /\ call.pc = "idle" /\ used.calls < MaxCalls
  /\ call' = [NoCall EXCEPT !.kind = kind, !.via = via, !.n = n, !.seconds = seconds,
                            !.granted = plan, !.pc = "gate"]
  /\ ref' = [i \in 1..n |-> "waiting"] /\ told' = <<>>
  /\ used' = [used EXCEPT !.calls = @ + 1]
  /\ UNCHANGED <<able, plan, narrative>>

_submit_images == \E n \in 1..MaxPictures, via \in {"local", "http"} : Ask("describe", via, n, Unknown)
_dispatch_voice == \E seconds \in Lengths, via \in {"local", "http"} : Ask("transcribe", via, 1, seconds)
look_at_image == Ask("look", "local", _latest_images, Unknown)

SetTariff ==
  /\ Mishap /\ plan' = ~plan
  /\ UNCHANGED <<able, call, ref, told, narrative>>

-----------------------------------------------------------------------------
(* The service.  Answering(results) ends its part of the call. *)

Answering(results) == call' = [call EXCEPT !.pc = "answering"] /\ told' = results

describes_images == able.vision
transcribes_audio == able.speech

Gate(kind) == call.kind = kind /\ call.pc = "gate" /\ UNCHANGED <<able, plan, ref, narrative>> /\ Quiet

Proceed(granted) == call' = [call EXCEPT !.pc = "working", !.granted = granted] /\ UNCHANGED told

(* A request that carries too many references is refused before the call. *)
describe ==
  /\ Gate("describe")
  /\ IF ~describes_images \/ (call.via = "http" /\ call.n > MAX_REFS) THEN Answering(_all(call.n, "unavailable"))
     ELSE IF ~plan THEN Answering(_all(call.n, "refused_by_plan"))
     ELSE Proceed(TRUE)

transcribe ==
  /\ Gate("transcribe")
  /\ IF ~transcribes_audio THEN Answering(_all(1, "unavailable"))
     ELSE IF ~plan THEN Answering(_all(1, "refused_by_plan"))
     ELSE IF call.seconds # Unknown /\ call.seconds < MinSeconds THEN Answering(_all(1, "too_short"))
     ELSE IF call.seconds # Unknown /\ call.seconds > MaxSeconds THEN Answering(_all(1, "too_long"))
     ELSE Proceed(TRUE)

(* The tool: the plan as its run began, then the newest pictures. *)
execute ==
  /\ Gate("look")
  /\ IF ~call.granted THEN Answering(_all(1, "refused_by_plan"))
     ELSE IF ~describes_images \/ call.n = 0 THEN Answering(_all(1, "unavailable"))
     ELSE Proceed(TRUE)

(* The references are fetched and read concurrently; either step may fail. *)
fetch(i) ==
  /\ call.pc = "working" /\ ref[i] = "waiting"
  /\ \E to \in {"fetched", "failed"} : ref' = [ref EXCEPT ![i] = to]
  /\ UNCHANGED <<able, plan, call, told, narrative>> /\ Quiet

_describe_one(i) ==
  /\ call.pc = "working" /\ call.kind = "describe" /\ ref[i] = "fetched"
  /\ \E to \in {"read", "failed"} : ref' = [ref EXCEPT ![i] = to]
  /\ UNCHANGED <<able, plan, call, told, narrative>> /\ Quiet

(* A recording without words, or without content, has an empty text. *)
TranscribeOne(i) ==
  /\ call.pc = "working" /\ call.kind = "transcribe" /\ ref[i] = "fetched"
  /\ \E to \in {"read", "blank", "failed"} : ref' = [ref EXCEPT ![i] = to]
  /\ UNCHANGED <<able, plan, call, told, narrative>> /\ Quiet

(* One request about every picture of the message. *)
look ==
  /\ call.kind = "look" /\ call.pc = "working"
  /\ \A i \in DOMAIN ref : ref[i] = "fetched"
  /\ \E to \in {"read", "failed"} : ref' = [i \in DOMAIN ref |-> to]
  /\ UNCHANGED <<able, plan, call, told, narrative>> /\ Quiet

Read == {i \in DOMAIN ref : ref[i] \in {"read", "blank"}}
Failed == {i \in DOMAIN ref : ref[i] = "failed"}
Settled == \A i \in DOMAIN ref : ref[i] \in {"read", "blank", "failed"}

(* What is ledgered: pictures described, seconds transcribed, one look. *)
Quantity ==
  CASE call.kind = "describe" -> Cardinality(Read)
    [] call.kind = "transcribe" -> IF Read = {} \/ call.seconds = Unknown THEN 0 ELSE call.seconds
    [] OTHER -> IF Read = {} THEN 0 ELSE 1

(* Metering never breaks the message it measures. *)
_record(results) ==
  \E lost \in BOOLEAN :
    /\ lost => Quantity > 0
    /\ Mishappening(lost)
    /\ call' = [call EXCEPT !.pc = "answering", !.unmetered = lost,
                            !.ledgered = IF lost THEN 0 ELSE Quantity]
    /\ told' = results

Results == [i \in DOMAIN ref |-> CASE ref[i] = "read" -> Result("ok", i)
                                   [] ref[i] = "blank" -> Result("ok", Empty)
                                   [] OTHER -> Result("unavailable", Empty)]

Understood ==
  /\ call.pc = "working" /\ call.kind # "look" /\ Settled
  /\ _record(Results)
  /\ UNCHANGED <<able, plan, ref, narrative>>

(* gather lets the first failed fetch end the look. *)
LookEnds ==
  /\ call.pc = "working" /\ call.kind = "look" /\ (Failed # {} \/ Settled)
  /\ IF Failed = {} THEN _record(<<Result("ok", Empty)>>)
     ELSE Answering(<<Result("unavailable", Empty)>>) /\ Quiet
  /\ UNCHANGED <<able, plan, ref, narrative>>

-----------------------------------------------------------------------------
(* The answer on its way back, and the message *)

(* Answers over HTTP: as sent, none, a result short, or with an outcome    *)
(* this node does not know.                                                *)
Wire == {"whole", "lost", "short", "unknown"}

ApiDescribe(wire) ==
  CASE wire \in {"lost", "short"} -> _all(call.n, "unavailable")
    [] wire = "unknown" -> [told EXCEPT ![1] = Result("unavailable", Empty)]
    [] OTHER -> told

_post ==
  /\ call.pc = "answering" /\ call.via = "http"
  /\ \E wire \in Wire :
        /\ wire = "short" => call.kind = "describe"
        /\ Mishappening(wire # "whole")
        /\ told' = ApiDescribe(wire)
  /\ call' = [call EXCEPT !.pc = "answered"]
  /\ UNCHANGED <<able, plan, ref, narrative>>

(* In process the results are handed over as they are. *)
HandOver ==
  /\ call.pc = "answering" /\ call.via = "local"
  /\ call' = [call EXCEPT !.pc = "answered"]
  /\ UNCHANGED <<able, plan, ref, told, narrative>> /\ Quiet

(* One block for each picture, in the order they were sent. *)
_compose_images_message(results) ==
  [i \in DOMAIN results |-> IF ok(results[i]) THEN results[i].text ELSE Placeholder]

_compose_voice_message(result) == <<result.text>>

Submitted(image, blocks) ==
  narrative' = Append(narrative, [image |-> image, blocks |-> blocks, whole |-> call.n])

(* A message, or a notice, or the path without media. *)
Dispatch ==
  /\ call.pc = "answered"
  /\ CASE call.kind = "describe" /\ ~none_understood(told) -> Submitted(TRUE, _compose_images_message(told))
       [] call.kind = "transcribe" /\ ok(told[1]) /\ told[1].text # Empty ->
            Submitted(FALSE, _compose_voice_message(told[1]))
       [] OTHER -> UNCHANGED narrative
  /\ call' = [call EXCEPT !.pc = "done"]
  /\ UNCHANGED <<able, plan, ref, told>> /\ Quiet

NextMessage ==
  /\ call.pc = "done"
  /\ call' = NoCall /\ ref' = <<>> /\ told' = <<>>
  /\ UNCHANGED <<able, plan, narrative>> /\ Quiet

Next ==
  \/ _submit_images \/ _dispatch_voice \/ look_at_image \/ SetTariff
  \/ describe \/ transcribe \/ execute \/ look \/ Understood \/ LookEnds
  \/ \E i \in DOMAIN ref : fetch(i) \/ _describe_one(i) \/ TranscribeOne(i)
  \/ _post \/ HandOver \/ Dispatch \/ NextMessage

Spec == Init /\ [][Next]_vars

-----------------------------------------------------------------------------
(* Properties *)

MediaTypeOK ==
  /\ able \in [vision : BOOLEAN, speech : BOOLEAN] /\ plan \in BOOLEAN
  /\ call.pc \in {"idle", "gate", "working", "answering", "answered", "done"}
  /\ \A i \in DOMAIN ref : ref[i] \in {"waiting", "fetched", "failed", "read", "blank"}
  /\ used.calls \in 0..MaxCalls /\ used.mishaps \in 0..MaxMishaps

Told == {told[i].outcome : i \in DOMAIN told}

(* media/service.py: a refusal costs nothing.  When the caller is told that *)
(* the plan or the length stands in the way, no reference was fetched and   *)
(* nothing was ledgered, whatever the plan has become since.                *)
RefusalCostsNothing ==
  Told \cap {"refused_by_plan", "too_short", "too_long"} # {} =>
    call.ledgered = 0 /\ \A i \in DOMAIN ref : ref[i] = "waiting"

(* media/service.py and vision/tools.py: once the service has answered, the *)
(* ledger holds what the models read for the call (each picture, the        *)
(* declared seconds, one look) unless the metering itself failed; a lost    *)
(* answer or a failed fetch changes nothing about that.                     *)
SpendIsLedgered ==
  call.pc \in {"answering", "answered", "done"} /\ ~call.unmetered =>
    call.ledgered = CASE call.kind = "describe" -> Cardinality(Read)
                      [] call.kind = "transcribe" -> IF Read = {} \/ call.seconds = Unknown THEN 0 ELSE call.seconds
                      [] OTHER -> IF Read = {} \/ Failed # {} THEN 0 ELSE 1

(* telegram/poller.py: a picture whose description failed keeps its slot.   *)
(* Every message has a block for each picture it was sent with, and a block *)
(* holds the text read from its own picture or says there is none.          *)
SlotsAligned ==
  \A k \in DOMAIN narrative : narrative[k].image =>
    /\ Len(narrative[k].blocks) = narrative[k].whole
    /\ \A i \in DOMAIN narrative[k].blocks : narrative[k].blocks[i] \in {i, Placeholder}

(* What each step owes PlanBeforeLength.                                  *)
PlanBeforeLengthStep ==
    call.pc = "gate" /\ call.pc' = "answering" /\ told'[1].outcome \in {"too_short", "too_long"} => plan

(* media/service.py: the plan is answered before the length.  Nobody is     *)
(* sent away to record something shorter whom no length would have helped:  *)
(* a step that tells of the length is taken under a plan that grants it.    *)
PlanBeforeLength == [][PlanBeforeLengthStep]_vars

=============================================================================
