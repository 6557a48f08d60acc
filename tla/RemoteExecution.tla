-------------------------- MODULE RemoteExecution --------------------------
(***************************************************************************)
(* One execution of an operation against Outlook Web: the adapter methods  *)
(* of internal/owa, the client that retries and classifies                 *)
(* (internal/owa/client.go, protocol.go) and the outcome the service       *)
(* records for it (internal/application).                                  *)
(*                                                                         *)
(* A method is a plan: the service actions it calls one after the other.   *)
(* The service is not trusted to answer: a request can be lost, performed  *)
(* late (also after the client gave up on it), or performed while its      *)
(* answer is lost or unusable.                                             *)
(***************************************************************************)
EXTENDS Operations, Integers, Sequences, FiniteSets

CONSTANTS
  Runs,          \* the methods that this instance executes
  ReadAttempts,  \* Options.ReadAttempts: sends of a read before giving up
  None           \* no answer yet, not finished

\* action.go: the effect that decides about retries and classification.
ReadActions == {"FindFolder", "FindItem", "GetItem", "GetCalendarView",
                "GetUserAvailabilityInternal", "GetAttachment"}
WriteActions == {"CreateItem", "CreateCalendarEvent", "UpdateItem",
                 "UpdateCalendarEvent", "MoveItem", "DeleteItem",
                 "CreateAttachment", "SendItem"}

\* A call of a plan; "blanket": the method turns any error of it into
\* ErrWriteOutcomeUnknown.
Call(action) == [action |-> action, blanket |-> FALSE]
BlanketCall(action) == [action |-> action, blanket |-> TRUE]
Method(class, plan) == [class |-> class, plan |-> plan]

ListMessages        == Method(MailList, <<Call("FindItem")>>)
SearchMessages      == Method(MailSearch, <<Call("FindItem")>>)
ListMailFolders     == Method(MailFolders, <<Call("FindFolder")>>)
GetMessageBody      == Method(MailBody, <<Call("GetItem")>>)
GetMailAttachment   == Method(MailAttachment, <<Call("GetAttachment")>>)
CreateMailDraft     == Method(MailDraft, <<Call("CreateItem")>>)
MoveMail            == Method(MailMove, <<Call("MoveItem")>>)
SetMailReadState    == Method(MailReadState, <<Call("UpdateItem")>>)
SendMail            == Method(MailSend, <<Call("CreateItem")>>)
DeleteMail          == Method(MailDelete, <<Call("DeleteItem")>>)
ListCalendarEvents  == Method(CalendarList, <<Call("GetCalendarView")>>)
CreateCalendarEvent == Method(CalendarCreate, <<Call("CreateCalendarEvent")>>)
UpdateCalendarEvent == Method(CalendarUpdate, <<Call("UpdateCalendarEvent")>>)
CancelCalendarEvent == Method(CalendarCancel, <<Call("DeleteItem")>>)

\* A draft with attachments: every failure of createFileAttachments is unknown,
\* because the draft exists.
CreateAttachedDraft ==
  Method(MailDraft, <<Call("CreateItem"), BlanketCall("CreateAttachment")>>)

\* A message with attachments: the draft's failures are unknown; those of
\* sendExistingDraft are returned as they are.
SendAttachedMail ==
  Method(MailSend, <<BlanketCall("CreateItem"), BlanketCall("CreateAttachment"),
                     Call("SendItem")>>)

Methods == {ListMessages, SearchMessages, ListMailFolders, GetMessageBody,
            GetMailAttachment, CreateMailDraft, MoveMail, SetMailReadState,
            SendMail, DeleteMail, ListCalendarEvents, CreateCalendarEvent,
            UpdateCalendarEvent, CancelCalendarEvent, CreateAttachedDraft,
            SendAttachedMail}

\* What a response says.  ok: 2xx, Success, well formed.  refused: 2xx with an
\* explicit item-level Error.  odd: 2xx that is empty, too large, undecodable,
\* of another class or with an unexpected count.  rejected: 401, 403, 440.
\* busy: 429, 502, 503, 504.  status: any other status.
Answers == {"ok", "refused", "odd", "rejected", "busy", "status"}

ASSUME ExecutionAssumption ==
  /\ Runs \subseteq Methods
  /\ ReadAttempts \in 1..5
  /\ None \notin Answers \cup {"success", "failure", "unknown"}

VARIABLES
  run,       \* the method that executes
  step,      \* the call of its plan it is at
  attempt,   \* sends of this call, including a send that did not leave
  phase,     \* "ready", "waiting", "done"
  answer,    \* response to the current attempt on its way to the client
  cancelled, \* the caller's context is done
  network,   \* requests on their way: set of <<step, attempt>>
  sends,     \* history: requests sent for each call
  applied,   \* the service: how often each call took effect
  outcome    \* the executed event: success, failure, unknown

vars == <<run, step, attempt, phase, answer, cancelled, network, sends,
          applied, outcome>>

Current == run.plan[step]

\* Mutant of IsWriteCall: GetAttachment is registered with a write's effect.
IsWriteCallMisregistered(call) ==
  call.action \in WriteActions \cup {"GetAttachment"}

IsWriteCall(call) == call.action \in WriteActions
WriteSteps == {i \in 1..Len(run.plan) : IsWriteCall(run.plan[i])}

\* Mutant of Attempts: writes are retried like reads.
AttemptsForAll(call) == ReadAttempts

Attempts(call) == IF IsWriteCall(call) THEN 1 ELSE ReadAttempts

Init ==
  /\ run \in Runs
  /\ step = 1 /\ attempt = 1 /\ phase = "ready"
  /\ answer = None /\ cancelled = FALSE
  /\ network = {}
  /\ sends = [i \in 1..Len(run.plan) |-> 0]
  /\ applied = [i \in 1..Len(run.plan) |-> 0]
  /\ outcome = None

\* The method returns; the service classifies its error.  "uncertain" stands
\* for errors.Is(err, ErrWriteOutcomeUnknown).
Fail(uncertain) ==
  /\ phase' = "done"
  /\ outcome' = IF uncertain \/ Current.blanket THEN "unknown" ELSE "failure"
  /\ UNCHANGED <<run, step, attempt, cancelled, sends, applied>>

\* Call's loop: another attempt.
Retry ==
  /\ attempt < Attempts(Current)
  /\ attempt' = attempt + 1
  /\ phase' = "ready"
  /\ UNCHANGED <<run, step, cancelled, sends, applied, outcome>>

\* Call's loop on an error of callOnce: while the context lives it tries again
\* up to the limit; the sleep in between fails when the context ends.
RetryOrFail(uncertain) ==
  \/ ~cancelled /\ Retry
  \/ (attempt = Attempts(Current) \/ cancelled) /\ Fail(uncertain)

\* callOnce fails before anything leaves: no request ID, or the session has no
\* credentials to authorise the request with.
NotSent ==
  /\ phase = "ready"
  /\ RetryOrFail(FALSE)
  /\ UNCHANGED <<network, answer>>

Send ==
  /\ phase = "ready"
  /\ network' = network \cup {<<step, attempt>>}
  /\ sends' = [sends EXCEPT ![step] = @ + 1]
  /\ phase' = "waiting"
  /\ answer' = None
  /\ UNCHANGED <<run, step, attempt, cancelled, applied, outcome>>

\* The network drops the request.
Lose(m) ==
  /\ m \in network
  /\ network' = network \ {m}
  /\ UNCHANGED <<run, step, attempt, phase, answer, cancelled, sends, applied,
                 outcome>>

\* The service takes a request and answers; it is believed when it says that it
\* did, or explicitly did not, what was asked.  An answer to a request the
\* client no longer waits for is lost.
Serve(m, takesEffect, a) ==
  /\ m \in network
  /\ a = "ok" => takesEffect
  /\ a \in {"refused", "rejected"} => ~takesEffect
  /\ network' = network \ {m}
  /\ applied' = IF takesEffect THEN [applied EXCEPT ![m[1]] = @ + 1]
                ELSE applied
  /\ answer' = IF phase = "waiting" /\ m = <<step, attempt>> THEN a ELSE answer
  /\ UNCHANGED <<run, step, attempt, phase, cancelled, sends, outcome>>

\* Mutants of NoAnswer: the error of a write is not marked as uncertain; the
\* HTTP client has no timeout of its own.
NoAnswerUnclassified ==
  /\ phase = "waiting"
  /\ answer' = None
  /\ RetryOrFail(FALSE)
  /\ UNCHANGED network

NoAnswerWithoutTimeout ==
  /\ phase = "waiting" /\ cancelled
  /\ answer' = None
  /\ RetryOrFail(IsWriteCall(Current))
  /\ UNCHANGED network

\* http.Do fails: timeout, broken connection, cancelled context; also when an
\* answer is on its way.
NoAnswer ==
  /\ phase = "waiting"
  /\ answer' = None
  /\ RetryOrFail(IsWriteCall(Current))
  /\ UNCHANGED network

Advance ==
  /\ IF step < Len(run.plan)
     THEN /\ step' = step + 1 /\ attempt' = 1 /\ phase' = "ready"
          /\ UNCHANGED outcome
     ELSE /\ phase' = "done" /\ outcome' = "success"
          /\ UNCHANGED <<step, attempt>>
  /\ UNCHANGED <<run, cancelled, sends, applied>>

\* Mutant of Receive: a 2xx response is a success whatever it contains.
ReceiveUnchecked ==
  /\ phase = "waiting"
  /\ answer' = None
  /\ \/ answer \in {"ok", "odd"} /\ Advance
     \/ answer \in {"refused", "rejected"} /\ Fail(FALSE)
     \/ answer = "status" /\ Fail(IsWriteCall(Current))
     \/ answer = "busy" /\ RetryOrFail(IsWriteCall(Current))
  /\ UNCHANGED network

\* Call reads the response and the method checks it (checkWriteResponse,
\* checkResponse).  Only a busy service is asked again, and only for a read.
Receive ==
  /\ phase = "waiting"
  /\ answer' = None
  /\ \/ answer = "ok" /\ Advance
     \/ answer \in {"refused", "rejected"} /\ Fail(FALSE)
     \/ answer \in {"odd", "status"} /\ Fail(IsWriteCall(Current))
     \/ answer = "busy" /\ RetryOrFail(IsWriteCall(Current))
  /\ UNCHANGED network

Cancel ==
  /\ ~cancelled /\ phase # "done"
  /\ cancelled' = TRUE
  /\ UNCHANGED <<run, step, attempt, phase, answer, network, sends, applied,
                 outcome>>

Client == NotSent \/ Send \/ NoAnswer \/ Receive

Next ==
  \/ Client
  \/ Cancel
  \/ \E m \in network : Lose(m)
  \/ \E m \in network, takesEffect \in BOOLEAN, a \in Answers :
       Serve(m, takesEffect, a)

Spec == Init /\ [][Next]_vars

\* The client has a timeout on every request and only counts up: it goes on.
\* Nothing is assumed of the network and the service.
FairSpec == Spec /\ WF_vars(Client)

----------------------------------------------------------------------------

\* The state of an execution has its type; the outcome is one that its class of
\* operation can have: "unknown", which the services of reads would record as a
\* failure, comes from writes only.
ExecutionTypeOK ==
  /\ run \in Runs
  /\ step \in 1..Len(run.plan)
  /\ attempt \in 1..ReadAttempts
  /\ phase \in {"ready", "waiting", "done"}
  /\ answer \in Answers \cup {None}
  /\ cancelled \in BOOLEAN
  /\ network \subseteq (1..Len(run.plan)) \X (1..ReadAttempts)
  /\ sends \in [1..Len(run.plan) -> 0..ReadAttempts]
  /\ applied \in [1..Len(run.plan) -> 0..ReadAttempts]
  /\ outcome \in Outcomes(run.class) \cup {None}

\* A write is sent once, whatever the service answers or fails to answer, so
\* that it takes effect at most once ("never retry a write with an ambiguous
\* remote outcome", docs/threat-model.md).
WriteTakesEffectAtMostOnce ==
  \A i \in WriteSteps :
    applied[i] + Cardinality({m \in network : m[1] = i}) <= 1

\* What an execution is recorded and reported as is true of the mailbox.  After
\* a success all of its writes were done, each of them once.  After a failure
\* nothing was changed and no request is on its way that could: trying again is
\* safe; anything else is ErrWriteOutcomeUnknown ("a remote write may have
\* committed before its response became unavailable", application/audit.go:11).
\* Only the last call of SendAttachedMail fails plainly although the draft it
\* was to send exists (mail_send.go, sendExistingDraft).
OutcomeIsTrue ==
  /\ outcome = "success" => \A i \in WriteSteps : applied[i] = 1
  /\ outcome = "failure" /\ run # SendAttachedMail =>
       \A i \in WriteSteps : applied[i] = 0 /\ ~ \E m \in network : m[1] = i

\* Every execution ends, with a service that never answers and a context that
\* is never cancelled.
ExecutionEnds == <>(outcome # None)
=============================================================================
