---------------------------- MODULE TelegramClient ----------------------------
(***************************************************************************)
(* The Bot API client (telegram client.py): one method call at a time with *)
(* its bounded retries, the plain-text fallback of a rejected markup, the  *)
(* "not modified" rule of edits, the streamed download with its size cap,  *)
(* and the long poll's reduction of entries that do not parse.             *)
(* The service may apply a call whose answer never arrives.                *)
(***************************************************************************)
EXTENDS Integers, Sequences

CONSTANTS
  RetryAfters,   \* values of parameters.retry_after the service sends
  MaxLost,       \* bound on answers lost after the service applied the call
  MaxChunks      \* bound on the chunks of a download

MAX_CALL_ATTEMPTS == 3
MAX_TOTAL_RETRY_WAIT_SECONDS == 10
TRANSIENT_RETRY_DELAY_SECONDS == 1
MAX_DOWNLOADED_FILE_BYTES == 2      \* in chunks of one unit

VARIABLES
  call,     \* the running call: method, markup, and its progress
  server,   \* what the service did for it
  result,   \* what the caller got: "none", "ok", "raised"
  updates   \* entries of a long poll and the ids get_updates returned

vars == <<call, server, result, updates>>

Sends == {"sendMessage", "sendRichMessage"}
Edits == {"editMessageText", "editMessageRich"}
Methods == Sends \cup Edits \cup {"sendChatAction", "getFile", "downloadFile", "getUpdates"}
Marked == {"sendMessage", "editMessageText"}     \* methods that carry a parse_mode

Idle == [method |-> "none", parse_mode |-> FALSE, attempt |-> 0, waited |-> 0, slept |-> 0, size |-> 0, fetching |-> FALSE]

Init == call = Idle /\ server = [applied |-> 0, lost |-> 0, odd |-> FALSE, same |-> FALSE] /\ result = "none" /\ updates = [sent |-> <<>>, got |-> {}]

attempts == IF call.method = "sendChatAction" THEN 1 ELSE MAX_CALL_ATTEMPTS

(* The caller starts a method; an edit or a send may carry a parse_mode. *)
Start(m, markup) ==
  /\ call = Idle
  /\ markup => m \in Marked
  /\ call' = [Idle EXCEPT !.method = m, !.parse_mode = markup, !.attempt = 1]
  /\ server' = [applied |-> 0, lost |-> 0, odd |-> FALSE, same |-> FALSE]
  /\ result' = "none"
  /\ updates' = [sent |-> <<>>, got |-> {}]

Running == call.method # "none" /\ result = "none"
Returns(r) == result' = r /\ call' = Idle /\ UNCHANGED updates

(* A failure worth retrying: sleep and try again while the attempts and    *)
(* the total wait allow, else the call raises.                             *)
_call(wait) ==
  IF call.attempt = attempts \/ call.waited + wait > MAX_TOTAL_RETRY_WAIT_SECONDS
    THEN Returns("raised")
    ELSE /\ call' = [call EXCEPT !.attempt = @ + 1, !.waited = @ + wait, !.slept = @ + wait, !.size = 0, !.fetching = FALSE]
         /\ UNCHANGED <<result, updates>>

Applied == server' = [server EXCEPT !.applied = @ + 1]

(* A second identical edit changes nothing: the service says so. *)
NotModified == call.method \in Edits /\ server.applied > 0
JsonCall == Running /\ call.method # "downloadFile"

-----------------------------------------------------------------------------
(* One HTTP attempt of _call_once and what the answer makes of it. *)
(* The answer is a well-formed success. *)
Ok ==
  /\ JsonCall /\ call.method # "getUpdates" /\ ~NotModified
  /\ Applied /\ Returns("ok")

(* A success whose result is not of the expected shape: the method was     *)
(* applied, yet the caller sees a TelegramApiError; an edit or a chat      *)
(* action does not look at its result.                                     *)
_result_or_raise ==
  /\ JsonCall /\ call.method \in Sends \cup {"getFile", "getUpdates"}
  /\ server' = [server EXCEPT !.applied = @ + 1, !.odd = TRUE]
  /\ Returns("raised")

(* The connection fails or times out, before or after the service acted. *)
TransportFails ==
  /\ JsonCall
  /\ \/ UNCHANGED server
     \/ /\ server.lost < MaxLost /\ ~NotModified
        /\ server' = [server EXCEPT !.applied = @ + 1, !.lost = @ + 1]
  /\ _call(TRANSIENT_RETRY_DELAY_SECONDS)

(* HTTP 5xx without a JSON object is transient; any other such body, and   *)
(* a 5xx whose body is an ordinary error object, raises.                   *)
_raise_for_non_json_response ==
  /\ JsonCall /\ UNCHANGED server
  /\ _call(TRANSIENT_RETRY_DELAY_SECONDS)

Refused == JsonCall /\ UNCHANGED server /\ Returns("raised")

(* 429 with a retry_after. *)
TooManyRequests(r) == JsonCall /\ UNCHANGED server /\ _call(r)

(* The markup is rejected: the call starts over as plain text, with a      *)
(* fresh attempt budget.                                                   *)
_call_with_parse_fallback ==
  /\ JsonCall /\ call.parse_mode /\ UNCHANGED <<server, result, updates>>
  /\ call' = [call EXCEPT !.parse_mode = FALSE, !.attempt = 1, !.waited = 0]

(* The edit is already in place. *)
Same == JsonCall /\ call.method \in Edits /\ server' = [server EXCEPT !.same = TRUE]

edit_message_text == Same /\ Returns("ok")

-----------------------------------------------------------------------------
(* The long poll: an entry that does not parse keeps only its id, and one  *)
(* without an id is dropped.                                               *)
Entries == {"valid", "poison", "idless"}

_parse_updates(sent) == {i \in DOMAIN sent : sent[i] # "idless"}

get_updates ==
  /\ JsonCall /\ call.method = "getUpdates"
  /\ \E sent \in {<<>>} \cup (Entries \X Entries) :
       updates' = [sent |-> sent, got |-> _parse_updates(sent)]
  /\ Applied
  /\ result' = "ok" /\ call' = Idle

-----------------------------------------------------------------------------
(* The download: a status line, then chunks counted against the cap. *)
Downloading == Running /\ call.method = "downloadFile"

DownloadStarts ==
  /\ Downloading /\ ~call.fetching
  /\ call' = [call EXCEPT !.fetching = TRUE]
  /\ UNCHANGED <<server, result, updates>>

DownloadFails ==
  /\ Downloading /\ UNCHANGED server
  /\ \/ _call(TRANSIENT_RETRY_DELAY_SECONDS)
     \/ ~call.fetching /\ Returns("raised")      \* another status, or a declared size over the cap

_read_capped ==
  /\ Downloading /\ call.fetching /\ call.size < MaxChunks
  /\ UNCHANGED server
  /\ IF call.size + 1 > MAX_DOWNLOADED_FILE_BYTES
       THEN Returns("raised")
       ELSE call' = [call EXCEPT !.size = @ + 1] /\ UNCHANGED <<result, updates>>

DownloadEnds == Downloading /\ call.fetching /\ Applied /\ Returns("ok")

(* The caller takes the outcome and moves on. *)
Taken == result # "none" /\ result' = "none" /\ UNCHANGED <<call, updates>>
         /\ server' = [applied |-> 0, lost |-> 0, odd |-> FALSE, same |-> FALSE]

Next ==
  \/ \E m \in Methods, markup \in BOOLEAN : Start(m, markup)
  \/ Ok \/ _result_or_raise \/ TransportFails \/ _raise_for_non_json_response \/ Refused
  \/ \E r \in RetryAfters : TooManyRequests(r)
  \/ _call_with_parse_fallback \/ edit_message_text \/ get_updates
  \/ DownloadStarts \/ DownloadFails \/ _read_capped \/ DownloadEnds
  \/ Taken

Spec == Init /\ [][Next]_vars
-----------------------------------------------------------------------------
(* Types. *)
ClientTypeOK ==
  /\ call.method \in Methods \cup {"none"} /\ call.attempt \in 0..MAX_CALL_ATTEMPTS
  /\ server.lost \in 0..MaxLost /\ result \in {"none", "ok", "raised"}

(* A message is sent again only when an answer was lost: no retry, and no  *)
(* plain-text fallback, follows a send whose success was seen.             *)
SentAgainOnlyIfUnseen == server.applied <= 1 + server.lost

(* A call never sleeps past its cap, counted per _call: with the fallback  *)
(* a marked call waits at most twice that.  A chat action never waits.     *)
WaitIsCapped ==
  /\ call.slept <= (IF call.method \in Marked /\ ~call.parse_mode THEN 2 ELSE 1) * MAX_TOTAL_RETRY_WAIT_SECONDS
  /\ call.method = "sendChatAction" => call.slept = 0

(* The poller can always move its offset past what it was sent: every      *)
(* entry with an id comes back, parsed or bare.                            *)
NoPoisonRefetched == \A i \in DOMAIN updates.sent : updates.sent[i] # "idless" => i \in updates.got

(* No more of a file is held than the cap, whatever size was declared. *)
HeldWithinCap == call.size <= MAX_DOWNLOADED_FILE_BYTES

(* A raised error never hides a change the client was told about: the      *)
(* service applied nothing, or the answer was lost or unreadable.  An edit *)
(* already in place, which is what a retried edit whose first answer was   *)
(* lost finds, is no error.                                                *)
RaisedIsHonest ==
  result = "raised" => ~server.same /\ (server.applied = 0 \/ server.lost > 0 \/ server.odd)
=============================================================================
