----------------------- MODULE RemoteExecutionProofs -----------------------
(***************************************************************************)
(* Theorems about RemoteExecution, for every set of methods, any number of *)
(* read attempts and any behaviour of network and service.                 *)
(*                                                                         *)
(* The argument counts: what took effect and what is still on its way was  *)
(* sent (CountInv); a write is sent once, so that its answer, when it says *)
(* anything, tells what happened (TruthInv).                               *)
(***************************************************************************)
EXTENDS RemoteExecution, FiniteSetTheorems, TLAPS

Places == 1..Len(run.plan)

\* The requests of one call that are on their way.
Msgs(i) == {m \in network : m[1] = i}

\* Nothing was changed by this call and nothing can be.
Untouched(i) == applied[i] = 0 /\ Msgs(i) = {}

\* What took effect or may yet was sent; a write is sent once.
CountInv ==
  /\ \A i \in Places : /\ IsFiniteSet(Msgs(i))
                       /\ applied[i] + Cardinality(Msgs(i)) <= sends[i]
  /\ \A i \in Places : i > step => sends[i] = 0
  /\ attempt <= Attempts(Current)
  /\ sends[step] <= (IF phase = "ready" THEN attempt - 1 ELSE attempt)
  /\ \A i \in WriteSteps : sends[i] <= 1

\* What the client knows of the calls of its plan is true.
TruthInv ==
  /\ answer # None => phase = "waiting"
  /\ phase = "done" <=> outcome # None
  /\ \A i \in WriteSteps : i < step => applied[i] = 1
  /\ step \in WriteSteps /\ answer # None => Msgs(step) = {}
  /\ step \in WriteSteps /\ answer = "ok" => applied[step] = 1
  /\ step \in WriteSteps /\ answer \in {"refused", "rejected"} => applied[step] = 0
  /\ outcome = "success" => \A i \in WriteSteps : applied[i] = 1
  /\ outcome = "failure" /\ run # SendAttachedMail =>
       \A i \in WriteSteps : Untouched(i)

ExecutionInv == ExecutionTypeOK /\ CountInv /\ TruthInv

----------------------------------------------------------------------------

\* What the proofs need of a method's plan: only writes have calls that write
\* or whose failure is unknown, and behind its first call a method turns every
\* failure into an unknown one.
FineCall(m, i) ==
  /\ m.plan[i].blanket \in BOOLEAN
  /\ IsWriteCall(m.plan[i]) \/ m.plan[i].blanket = TRUE => IsWrite(m.class.effect)
  /\ i = 1 \/ m = SendAttachedMail \/ m.plan[i].blanket = TRUE

Fine(m) ==
  /\ Len(m.plan) \in 1..3
  /\ \A i \in 1..Len(m.plan) : FineCall(m, i)

\* A method of the adapter that makes one call, of the class of its operation.
LEMMA OneCallFine ==
  ASSUME NEW class, NEW action, action \in WriteActions => IsWrite(class.effect)
  PROVE  Fine(Method(class, <<Call(action)>>))
<1> DEFINE m == Method(class, <<Call(action)>>)
<1>1. /\ Len(m.plan) = 1 /\ m.plan[1].blanket = FALSE
      /\ m.plan[1].action = action /\ m.class = class
  BY DEF Method, Call
<1> HIDE DEF m
<1>2. /\ Len(m.plan) \in 1..3
      /\ \A i \in 1..Len(m.plan) : i = 1
  BY <1>1
<1>3. m.plan[1].blanket \in BOOLEAN /\ m.plan[1].blanket # TRUE
  BY <1>1
<1>4. FineCall(m, 1)
  BY <1>1, <1>3 DEF FineCall, IsWriteCall
<1>5. Fine(m)
  BY <1>2, <1>4 DEF Fine
<1> QED
  BY <1>5 DEF m

\* The plans of the methods (the adapter methods of internal/owa).
LEMMA PlanFacts ==
  ASSUME NEW m \in Methods
  PROVE  Fine(m)
<1> USE DEF WriteActions, IsWrite, Writes, Class
<1>1. /\ Fine(ListMessages) /\ Fine(SearchMessages) /\ Fine(ListMailFolders)
      /\ Fine(GetMessageBody) /\ Fine(GetMailAttachment) /\ Fine(ListCalendarEvents)
  BY OneCallFine
  DEF ListMessages, SearchMessages, ListMailFolders, GetMessageBody,
      GetMailAttachment, ListCalendarEvents
<1>2. /\ Fine(CreateMailDraft) /\ Fine(MoveMail) /\ Fine(SetMailReadState)
      /\ Fine(SendMail) /\ Fine(DeleteMail)
  BY OneCallFine
  DEF CreateMailDraft, MoveMail, SetMailReadState, SendMail, DeleteMail,
      MailDraft, MailMove, MailReadState, MailSend, MailDelete
<1>3. /\ Fine(CreateCalendarEvent) /\ Fine(UpdateCalendarEvent)
      /\ Fine(CancelCalendarEvent)
  BY OneCallFine
  DEF CreateCalendarEvent, UpdateCalendarEvent, CancelCalendarEvent,
      CalendarCreate, CalendarUpdate, CalendarCancel
<1>4. Fine(CreateAttachedDraft)
  <2> DEFINE x == CreateAttachedDraft
  <2>1. /\ Len(x.plan) = 2 /\ x.plan[1].blanket = FALSE /\ x.plan[2].blanket = TRUE
        /\ x.class.effect = "reversible_write"
    BY DEF CreateAttachedDraft, Method, Call, BlanketCall, MailDraft
  <2> HIDE DEF x
  <2>2. /\ Len(x.plan) \in 1..3
        /\ \A i \in 1..Len(x.plan) : i = 1 \/ i = 2
    BY <2>1
  <2>3. x.plan[1].blanket \in BOOLEAN /\ x.plan[2].blanket \in BOOLEAN
    BY <2>1
  <2>4. FineCall(x, 1) /\ FineCall(x, 2)
    BY <2>1, <2>3 DEF FineCall
  <2>5. Fine(x)
    BY <2>2, <2>4 DEF Fine
  <2> QED
    BY <2>5 DEF x
<1>5. Fine(SendAttachedMail)
  <2> DEFINE x == SendAttachedMail
  <2>1. /\ Len(x.plan) = 3 /\ x.plan[1].blanket = TRUE /\ x.plan[2].blanket = TRUE
        /\ x.plan[3].blanket = FALSE /\ x.class.effect = "external_write"
    BY DEF SendAttachedMail, Method, Call, BlanketCall, MailSend
  <2> HIDE DEF x
  <2>2. /\ Len(x.plan) \in 1..3
        /\ \A i \in 1..Len(x.plan) : i = 1 \/ i = 2 \/ i = 3
    BY <2>1
  <2>3. /\ x.plan[1].blanket \in BOOLEAN /\ x.plan[2].blanket \in BOOLEAN
        /\ x.plan[3].blanket \in BOOLEAN
    BY <2>1
  <2>4. FineCall(x, 1) /\ FineCall(x, 2) /\ FineCall(x, 3)
    BY <2>1, <2>3 DEF FineCall, x
  <2>5. Fine(x)
    BY <2>2, <2>4 DEF Fine
  <2> QED
    BY <2>5 DEF x
<1> QED
  BY <1>1, <1>2, <1>3, <1>4, <1>5 DEF Methods

\* The same of the method that runs.
LEMMA RunFacts ==
  ASSUME ExecutionTypeOK
  PROVE  /\ Len(run.plan) \in 1..3 /\ step \in Places /\ Places \subseteq Nat
         /\ WriteSteps \subseteq Places
         /\ Current.blanket \in BOOLEAN
         /\ step \in WriteSteps <=> IsWriteCall(Current)
         /\ IsWriteCall(Current) \/ Current.blanket = TRUE => IsWrite(run.class.effect)
         /\ step = 1 \/ run = SendAttachedMail \/ Current.blanket = TRUE
         /\ Attempts(Current) \in 1..ReadAttempts
         /\ step \in WriteSteps => Attempts(Current) = 1
         /\ ReadAttempts \in Nat
<1>1. run \in Methods /\ step \in 1..Len(run.plan)
  BY ExecutionAssumption DEF ExecutionTypeOK
<1>2. Len(run.plan) \in 1..3 /\ FineCall(run, step)
  BY <1>1, PlanFacts DEF Fine
<1>3. /\ Current.blanket \in BOOLEAN
      /\ IsWriteCall(Current) \/ Current.blanket = TRUE => IsWrite(run.class.effect)
      /\ step = 1 \/ run = SendAttachedMail \/ Current.blanket = TRUE
  BY <1>2 DEF Current, FineCall
<1>4. /\ step \in WriteSteps <=> IsWriteCall(Current)
      /\ step \in Places /\ Places \subseteq Nat /\ WriteSteps \subseteq Places
  BY <1>1, <1>2 DEF Places, WriteSteps, Current
<1>5. /\ Attempts(Current) \in 1..ReadAttempts /\ ReadAttempts \in Nat
      /\ step \in WriteSteps => Attempts(Current) = 1
  BY <1>4, ExecutionAssumption DEF Attempts
<1> QED
  BY <1>2, <1>3, <1>4, <1>5

----------------------------------------------------------------------------

\* How a method that fails is recorded.
LEMMA FailOutcome ==
  ASSUME ExecutionTypeOK, NEW u \in BOOLEAN, Fail(u), u => IsWriteCall(Current)
  PROVE  /\ outcome' \in Outcomes(run.class)
         /\ outcome' \in {"unknown", "failure"}
         /\ outcome' = "failure" => ~u /\ (step = 1 \/ run = SendAttachedMail)
<1>1. /\ Current.blanket \in BOOLEAN
      /\ u \/ Current.blanket = TRUE => IsWrite(run.class.effect)
      /\ step = 1 \/ run = SendAttachedMail \/ Current.blanket = TRUE
  BY RunFacts
<1>2. CASE u \/ Current.blanket = TRUE
  <2>1. outcome' = "unknown"
    BY <1>2, Zenon DEF Fail
  <2> QED
    BY <1>1, <1>2, <2>1 DEF Outcomes
<1>3. CASE ~u /\ Current.blanket = FALSE
  <2>1. outcome' = "failure"
    BY <1>3, Zenon DEF Fail
  <2> QED
    BY <1>1, <1>3, <2>1 DEF Outcomes
<1> QED
  BY <1>1, <1>2, <1>3

\* A write that waits for nothing, or was answered with a refusal, has changed
\* nothing.
LEMMA CleanCall ==
  ASSUME ExecutionInv, step \in WriteSteps,
         phase = "ready" \/ answer \in {"refused", "rejected"}
  PROVE  Untouched(step)
<1>1. /\ IsFiniteSet(Msgs(step)) /\ Cardinality(Msgs(step)) \in Nat
      /\ applied[step] + Cardinality(Msgs(step)) <= sends[step]
      /\ applied[step] \in Nat /\ sends[step] \in Nat
  <2>1. step \in Places
    BY RunFacts DEF ExecutionInv
  <2> QED
    BY <2>1, FS_CardinalityType, ExecutionAssumption
    DEF ExecutionInv, CountInv, ExecutionTypeOK, Places
<1>2. CASE phase = "ready"
  <2>1. attempt \in Nat /\ attempt <= 1
    <3>1. attempt \in 1..ReadAttempts /\ attempt <= Attempts(Current)
      BY DEF ExecutionInv, CountInv, ExecutionTypeOK
    <3>2. Attempts(Current) = 1 /\ ReadAttempts \in Nat
      BY RunFacts DEF ExecutionInv
    <3> QED
      BY <3>1, <3>2
  <2>2. sends[step] <= attempt - 1
    BY <1>2 DEF ExecutionInv, CountInv
  <2>3. sends[step] <= 0
    BY <1>1, <2>1, <2>2
  <2>4. applied[step] = 0 /\ Cardinality(Msgs(step)) = 0
    BY <1>1, <2>3
  <2> QED
    BY <1>1, <2>4, FS_EmptySet DEF Untouched
<1>3. CASE answer \in {"refused", "rejected"}
  BY <1>3, ExecutionAssumption DEF ExecutionInv, TruthInv, Untouched, Answers
<1> QED
  BY <1>2, <1>3

\* The calls behind the current one have sent nothing.
LEMMA NotReached ==
  ASSUME ExecutionInv, NEW i \in Places, i > step
  PROVE  Untouched(i) /\ sends[i] = 0
<1>1. /\ IsFiniteSet(Msgs(i)) /\ Cardinality(Msgs(i)) \in Nat
      /\ applied[i] + Cardinality(Msgs(i)) <= sends[i]
      /\ applied[i] \in Nat /\ sends[i] = 0
  <2>1. IsFiniteSet(Msgs(i)) /\ applied[i] + Cardinality(Msgs(i)) <= sends[i]
    BY DEF ExecutionInv, CountInv
  <2>2. sends[i] = 0
    BY DEF ExecutionInv, CountInv
  <2>3. applied[i] \in Nat
    BY ExecutionAssumption DEF ExecutionInv, ExecutionTypeOK, Places
  <2> QED
    BY <2>1, <2>2, <2>3, FS_CardinalityType
<1>2. applied[i] = 0 /\ Cardinality(Msgs(i)) = 0
  BY <1>1
<1> QED
  BY <1>1, <1>2, FS_EmptySet DEF Untouched

\* A step of the client that sends nothing keeps the counts of what was sent.
LEMMA SilentStep ==
  ASSUME ExecutionInv, UNCHANGED <<run, step, network, sends, applied>>,
         attempt' \in Int, attempt <= attempt', attempt' <= Attempts(Current),
         phase' = "ready" => attempt' = attempt + 1
  PROVE  CountInv'
<1>1. attempt \in Nat /\ sends[step] \in Nat
  BY RunFacts, ExecutionAssumption DEF ExecutionInv, ExecutionTypeOK, Places
<1>2. sends[step] <= attempt
  BY <1>1 DEF ExecutionInv, CountInv
<1>3. sends[step] <= (IF phase' = "ready" THEN attempt' - 1 ELSE attempt')
  BY <1>1, <1>2
<1> QED
  BY <1>3 DEF ExecutionInv, CountInv, Places, Msgs, WriteSteps, Current, Attempts

\* The method returns an error.
LEMMA FailKeepsInv ==
  ASSUME ExecutionInv, NEW u \in BOOLEAN, Fail(u), u => IsWriteCall(Current),
         ~u /\ step \in WriteSteps => Untouched(step),
         phase # "done", network' = network, answer' = None
  PROVE  ExecutionInv'
<1>1. /\ outcome' \in Outcomes(run.class)
      /\ outcome' \in {"unknown", "failure"}
      /\ outcome' = "failure" => ~u /\ (step = 1 \/ run = SendAttachedMail)
  BY FailOutcome DEF ExecutionInv
<1>2. ExecutionTypeOK'
  BY <1>1 DEF ExecutionInv, ExecutionTypeOK, Fail
<1>3. CountInv'
  <2>1. attempt \in Int /\ attempt <= attempt /\ attempt <= Attempts(Current)
    BY ExecutionAssumption DEF ExecutionInv, ExecutionTypeOK, CountInv
  <2> QED
    BY <2>1, SilentStep DEF Fail
<1>4. TruthInv'
  <2>1. ASSUME outcome' = "failure", run # SendAttachedMail, NEW i \in WriteSteps
        PROVE  Untouched(i)
    <3>1. i \in Places /\ i \in Nat /\ i >= 1 /\ step = 1
      BY <1>1, <2>1, RunFacts DEF ExecutionInv, Places
    <3>2. CASE i = step
      BY <1>1, <2>1, <3>2
    <3>3. CASE i > step
      BY <3>1, <3>3, NotReached
    <3> QED
      BY <3>1, <3>2, <3>3
  <2>2. outcome' # "success" /\ outcome' # None
    BY <1>1, ExecutionAssumption
  <2>3. UNCHANGED <<run, step, applied, network>> /\ phase' = "done"
    BY DEF Fail
  <2>4. \A i \in WriteSteps : i < step => applied[i] = 1
    BY DEF ExecutionInv, TruthInv
  <2> QED
    BY <2>1, <2>2, <2>3, <2>4, ExecutionAssumption
    DEF TruthInv, WriteSteps, Untouched, Msgs, Answers
<1> QED
  BY <1>2, <1>3, <1>4 DEF ExecutionInv

\* The client tries again.
LEMMA RetryKeepsInv ==
  ASSUME ExecutionInv, Retry, phase # "done", network' = network, answer' = None
  PROVE  ExecutionInv'
<1>1. /\ attempt \in 1..ReadAttempts /\ ReadAttempts \in Nat
      /\ Attempts(Current) \in 1..ReadAttempts
  BY RunFacts DEF ExecutionInv, ExecutionTypeOK
<1>2. ExecutionTypeOK'
  BY <1>1 DEF ExecutionInv, ExecutionTypeOK, Retry
<1>3. CountInv'
  BY <1>1, SilentStep DEF Retry
<1>4. TruthInv'
  BY ExecutionAssumption
  DEF ExecutionInv, TruthInv, Retry, WriteSteps, Untouched, Msgs, Answers
<1> QED
  BY <1>2, <1>3, <1>4 DEF ExecutionInv

\* An answer that is retried or reported: retryable reads go on, the others end.
LEMMA RetryOrFailKeepsInv ==
  ASSUME ExecutionInv, NEW u \in BOOLEAN, RetryOrFail(u), u => IsWriteCall(Current),
         ~u /\ step \in WriteSteps => Untouched(step),
         phase # "done", network' = network, answer' = None
  PROVE  ExecutionInv'
BY RetryKeepsInv, FailKeepsInv DEF RetryOrFail

\* A call failed before anything left.
LEMMA NotSentKeepsInv ==
  ASSUME ExecutionInv, NotSent
  PROVE  ExecutionInv'
<1>1. answer = None /\ phase # "done"
  BY DEF ExecutionInv, TruthInv, NotSent
<1>2. step \in WriteSteps => Untouched(step)
  BY CleanCall DEF NotSent
<1> QED
  BY <1>1, <1>2, RetryOrFailKeepsInv DEF NotSent

\* No answer arrives.
LEMMA NoAnswerKeepsInv ==
  ASSUME ExecutionInv, NoAnswer
  PROVE  ExecutionInv'
<1>1. IsWriteCall(Current) \in BOOLEAN
  BY DEF IsWriteCall
<1>2. step \in WriteSteps => IsWriteCall(Current)
  BY RunFacts DEF ExecutionInv
<1>3. /\ RetryOrFail(IsWriteCall(Current))
      /\ phase # "done" /\ network' = network /\ answer' = None
  BY DEF NoAnswer
<1> DEFINE u == IsWriteCall(Current)
<1> HIDE DEF u
<1>4. /\ u \in BOOLEAN /\ (u => IsWriteCall(Current)) /\ RetryOrFail(u)
      /\ ~u /\ step \in WriteSteps => Untouched(step)
  BY <1>1, <1>2, <1>3 DEF u
<1> QED
  BY <1>3, <1>4, RetryOrFailKeepsInv

\* A call succeeded: the next one, or the end.
LEMMA AdvanceKeepsInv ==
  ASSUME ExecutionInv, Advance, answer = "ok", network' = network, answer' = None
  PROVE  ExecutionInv'
<1>0. /\ phase = "waiting" /\ outcome = None
      /\ \A i \in WriteSteps : i < step => applied[i] = 1
      /\ step \in WriteSteps => applied[step] = 1
  BY ExecutionAssumption DEF ExecutionInv, TruthInv, Answers
<1>1. /\ Len(run.plan) \in Nat /\ step \in 1..Len(run.plan)
      /\ WriteSteps \subseteq 1..Len(run.plan) /\ ReadAttempts \in 1..5
  BY RunFacts, ExecutionAssumption DEF ExecutionInv, Places
<1>2. UNCHANGED <<run, cancelled, sends, applied>>
  BY DEF Advance
<1>3. CASE step < Len(run.plan)
  <2>1. step' = step + 1 /\ attempt' = 1 /\ phase' = "ready" /\ outcome' = outcome
    BY <1>3 DEF Advance
  <2>2. ExecutionTypeOK'
    BY <1>1, <1>2, <1>3, <2>1 DEF ExecutionInv, ExecutionTypeOK
  <2>3. CountInv'
    <3>1. step + 1 \in Places /\ sends[step + 1] = 0
      BY <1>1, <1>3 DEF ExecutionInv, CountInv, Places
    <3>2. attempt' <= Attempts(Current)'
      BY <1>1, <2>1 DEF Attempts
    <3>3. sends'[step'] <= (IF phase' = "ready" THEN attempt' - 1 ELSE attempt')
      BY <1>2, <2>1, <3>1
    <3>4. \A i \in Places : i > step' => sends[i] = 0
      BY <1>1, <2>1 DEF ExecutionInv, CountInv, Places
    <3> QED
      BY <1>2, <3>2, <3>3, <3>4 DEF ExecutionInv, CountInv, Places, Msgs, WriteSteps
  <2>4. \A i \in WriteSteps : i < step' => applied[i] = 1
    BY <1>0, <1>1, <2>1
  <2>5. TruthInv'
    BY <1>0, <1>2, <2>1, <2>4, ExecutionAssumption DEF TruthInv, WriteSteps, Answers
  <2> QED
    BY <2>2, <2>3, <2>5 DEF ExecutionInv
<1>4. CASE ~(step < Len(run.plan))
  <2>1. UNCHANGED <<step, attempt>> /\ phase' = "done" /\ outcome' = "success"
    BY <1>4 DEF Advance
  <2>2. ExecutionTypeOK'
    BY <1>2, <2>1 DEF ExecutionInv, ExecutionTypeOK, Outcomes
  <2>3. CountInv'
    <3>1. attempt \in Int /\ attempt <= attempt /\ attempt <= Attempts(Current)
      BY ExecutionAssumption DEF ExecutionInv, ExecutionTypeOK, CountInv
    <3> QED
      BY <1>2, <2>1, <3>1, SilentStep
  <2>4. \A i \in WriteSteps : applied[i] = 1
    BY <1>0, <1>1, <1>4
  <2>5. TruthInv'
    BY <1>0, <1>2, <2>1, <2>4, ExecutionAssumption DEF TruthInv, WriteSteps, Answers
  <2> QED
    BY <2>2, <2>3, <2>5 DEF ExecutionInv
<1> QED
  BY <1>3, <1>4

\* The client reads an answer.
LEMMA ReceiveKeepsInv ==
  ASSUME ExecutionInv, Receive
  PROVE  ExecutionInv'
<1>1. phase # "done" /\ network' = network /\ answer' = None
  BY DEF Receive
<1>2. CASE answer = "ok" /\ Advance
  BY <1>1, <1>2, AdvanceKeepsInv
<1>3. CASE answer \in {"refused", "rejected"} /\ Fail(FALSE)
  BY <1>1, <1>3, CleanCall, FailKeepsInv
<1> DEFINE u == IsWriteCall(Current)
<1>4. u \in BOOLEAN /\ (step \in WriteSteps => u)
  BY RunFacts DEF ExecutionInv, IsWriteCall
<1>5. CASE Fail(u) \/ RetryOrFail(u)
  <2>1. u => IsWriteCall(Current)
    OBVIOUS
  <2> HIDE DEF u
  <2> QED
    BY <1>1, <1>4, <1>5, <2>1, FailKeepsInv, RetryOrFailKeepsInv
<1> QED
  BY <1>2, <1>3, <1>5 DEF Receive

\* The context ends.
LEMMA CancelKeepsInv ==
  ASSUME ExecutionInv, Cancel
  PROVE  ExecutionInv'
BY DEF ExecutionInv, ExecutionTypeOK, CountInv, TruthInv, Cancel, Places, Msgs,
       WriteSteps, Current, Untouched

\* One request more.
LEMMA OneMore ==
  ASSUME NEW S, IsFiniteSet(S), NEW x
  PROVE  /\ IsFiniteSet(S \cup {x})
         /\ Cardinality(S \cup {x}) <= Cardinality(S) + 1
         /\ Cardinality(S \cup {x}) \in Nat
<1>1. /\ IsFiniteSet(S \cup {x}) /\ Cardinality(S) \in Nat
      /\ Cardinality(S \cup {x}) = IF x \in S THEN Cardinality(S) ELSE Cardinality(S)+1
  BY FS_AddElement, FS_CardinalityType
<1> QED
  BY <1>1

\* A request leaves.
LEMMA SendKeepsInv ==
  ASSUME ExecutionInv, Send
  PROVE  ExecutionInv'
<1> DEFINE m == <<step, attempt>>
<1>1. /\ UNCHANGED <<run, step, attempt, cancelled, applied, outcome>>
      /\ network' = network \cup {m} /\ sends' = [sends EXCEPT ![step] = @ + 1]
      /\ phase = "ready" /\ phase' = "waiting" /\ answer' = None
  BY DEF Send
<1>2. /\ step \in Places /\ Places \subseteq Nat /\ WriteSteps \subseteq Places
      /\ attempt \in 1..ReadAttempts /\ ReadAttempts \in Nat
      /\ sends \in [Places -> 0..ReadAttempts]
      /\ applied \in [Places -> 0..ReadAttempts]
      /\ attempt <= Attempts(Current) /\ sends[step] <= attempt - 1
      /\ step \in WriteSteps => Attempts(Current) = 1
  <2>1. sends[step] <= attempt - 1 /\ attempt <= Attempts(Current)
    BY <1>1 DEF ExecutionInv, CountInv
  <2> QED
    BY <2>1, RunFacts DEF ExecutionInv, ExecutionTypeOK, Places
<1>3. /\ sends'[step] = sends[step] + 1
      /\ \A i \in Places : i # step => sends'[i] = sends[i]
      /\ sends' \in [Places -> 0..ReadAttempts]
  BY <1>1, <1>2
<1>4. ExecutionTypeOK'
  <2>1. m \in (1..Len(run.plan)) \X (1..ReadAttempts)
    BY <1>2 DEF Places
  <2> HIDE DEF m
  <2>2. network' \subseteq (1..Len(run.plan)) \X (1..ReadAttempts)
    BY <1>1, <2>1 DEF ExecutionInv, ExecutionTypeOK
  <2> QED
    BY <1>1, <1>3, <2>2 DEF ExecutionInv, ExecutionTypeOK, Places
<1>5. \A i \in Places :
        Msgs(i)' = IF i = step THEN Msgs(i) \cup {m} ELSE Msgs(i)
  BY <1>1 DEF Msgs
<1>6. CountInv'
  <2>1. ASSUME NEW i \in Places
        PROVE  IsFiniteSet(Msgs(i)') /\ applied[i] + Cardinality(Msgs(i)') <= sends'[i]
    <3>1. /\ IsFiniteSet(Msgs(i)) /\ applied[i] + Cardinality(Msgs(i)) <= sends[i]
          /\ Cardinality(Msgs(i)) \in Nat
      BY FS_CardinalityType DEF ExecutionInv, CountInv
    <3>2. CASE i = step
      <4> HIDE DEF m
      <4>1. /\ IsFiniteSet(Msgs(i) \cup {m})
            /\ Cardinality(Msgs(i) \cup {m}) <= Cardinality(Msgs(i)) + 1
            /\ Cardinality(Msgs(i) \cup {m}) \in Nat
        BY <3>1, OneMore
      <4>2. applied[i] \in Nat /\ sends[i] \in Nat
        BY <1>2
      <4>3. sends'[i] = sends[i] + 1 /\ Msgs(i)' = Msgs(i) \cup {m}
        BY <1>3, <1>5, <3>2
      <4> QED
        BY <3>1, <4>1, <4>2, <4>3
    <3>3. CASE i # step
      BY <1>3, <1>5, <3>1, <3>3
    <3> QED
      BY <3>2, <3>3
  <2>2. \A i \in Places : i > step => sends'[i] = 0
    BY <1>2, <1>3 DEF ExecutionInv, CountInv
  <2>3. sends'[step] <= attempt
    BY <1>2, <1>3
  <2>4. ASSUME NEW i \in WriteSteps
        PROVE  sends'[i] <= 1
    <3>1. CASE i = step
      BY <1>2, <1>3, <3>1
    <3>2. CASE i # step
      BY <1>2, <1>3, <3>2 DEF ExecutionInv, CountInv
    <3> QED
      BY <3>1, <3>2
  <2>5. Places' = Places /\ WriteSteps' = WriteSteps /\ Current' = Current
    BY <1>1 DEF Places, WriteSteps, Current
  <2>6. Attempts(Current)' = Attempts(Current)
    BY <2>5 DEF Attempts
  <2> QED
    BY <1>1, <1>2, <2>1, <2>2, <2>3, <2>4, <2>5, <2>6 DEF CountInv
<1>7. TruthInv'
  <2>1. outcome = None
    BY <1>1 DEF ExecutionInv, TruthInv
  <2> QED
    BY <1>1, <2>1, ExecutionAssumption DEF ExecutionInv, TruthInv, WriteSteps, Answers
<1> QED
  BY <1>4, <1>6, <1>7 DEF ExecutionInv

\* A request that is no longer on its way: "n" of its effects are new.
LEMMA OneLess ==
  ASSUME ExecutionInv, NEW m \in network, network' = network \ {m},
         UNCHANGED <<run, step, attempt, phase, sends>>, NEW n \in {0, 1},
         applied' = [applied EXCEPT ![m[1]] = @ + n]
  PROVE  /\ CountInv' /\ applied' \in [Places -> 0..ReadAttempts]
         /\ \A i \in Places : /\ i # m[1] => applied'[i] = applied[i]
                              /\ Msgs(i) = {} => Msgs(i)' = {} /\ i # m[1]
         /\ \A i \in Places : Untouched(i) => Untouched(i)'
         /\ \A i \in WriteSteps : applied[i] = 1 => applied'[i] = 1
         /\ \A i \in WriteSteps : i = m[1] => Msgs(i)' = {} /\ applied'[i] = n
<1> DEFINE j == m[1]
<1>0. /\ j \in Places /\ Places \subseteq Nat /\ WriteSteps \subseteq Places
      /\ applied \in [Places -> 0..ReadAttempts]
      /\ sends \in [Places -> 0..ReadAttempts] /\ ReadAttempts \in Nat
  BY RunFacts DEF ExecutionInv, ExecutionTypeOK, Places
<1>1. \A i \in Places : Msgs(i)' = IF i = j THEN Msgs(i) \ {m} ELSE Msgs(i)
  BY DEF Msgs
<1>2. /\ \A i \in Places : applied'[i] = IF i = j THEN applied[i] + n ELSE applied[i]
      /\ DOMAIN applied' = Places /\ applied' = [i \in Places |-> applied'[i]]
  BY <1>0
<1>3. /\ IsFiniteSet(Msgs(j)) /\ m \in Msgs(j)
      /\ applied[j] + Cardinality(Msgs(j)) <= sends[j]
  BY <1>0 DEF ExecutionInv, CountInv, Msgs
<1>4. /\ IsFiniteSet(Msgs(j) \ {m})
      /\ Cardinality(Msgs(j) \ {m}) = Cardinality(Msgs(j)) - 1
      /\ Cardinality(Msgs(j) \ {m}) \in Nat /\ Cardinality(Msgs(j)) \in Nat
  BY <1>3, FS_RemoveElement, FS_CardinalityType
<1>5. ASSUME NEW i \in Places
      PROVE  /\ IsFiniteSet(Msgs(i)')
             /\ applied'[i] + Cardinality(Msgs(i)') <= sends[i]
             /\ applied'[i] \in 0..ReadAttempts
  <2>1. CASE i = j
    <3> HIDE DEF j
    <3>1. applied[j] \in Nat /\ sends[j] \in 0..ReadAttempts
      BY <1>0
    <3>2. applied'[i] = applied[j] + n /\ Msgs(i)' = Msgs(j) \ {m}
      BY <1>1, <1>2, <2>1
    <3> QED
      BY <1>0, <1>3, <1>4, <2>1, <3>1, <3>2
  <2>2. CASE i # j
    BY <1>0, <1>1, <1>2, <2>2 DEF ExecutionInv, CountInv
  <2> QED
    BY <2>1, <2>2
<1>6. applied' \in [Places -> 0..ReadAttempts]
  BY <1>2, <1>5
<1>7. CountInv'
  BY <1>5 DEF ExecutionInv, CountInv, Places, WriteSteps, Current, Attempts
<1>8. \A i \in Places : Untouched(i) => i # j
  BY <1>3 DEF Untouched
<1>9. \A i \in WriteSteps : sends[i] <= 1
  BY DEF ExecutionInv, CountInv
<1>10. ASSUME NEW i \in WriteSteps, i = j
       PROVE  applied[i] = 0 /\ Msgs(i)' = {} /\ applied'[i] = n
  <2>1. applied[i] \in Nat /\ sends[i] \in Nat /\ sends[i] <= 1
    BY <1>0, <1>9
  <2> HIDE DEF j
  <2>2. applied[i] = 0 /\ Cardinality(Msgs(j) \ {m}) = 0
    BY <1>3, <1>4, <1>10, <2>1
  <2>3. Msgs(i)' = {}
    BY <1>0, <1>1, <1>4, <1>10, <2>2, FS_EmptySet
  <2> QED
    BY <1>0, <1>2, <1>10, <2>2, <2>3
<1>11. \A i \in Places : Msgs(i) = {} => Msgs(i)' = {} /\ i # j
  BY <1>1, <1>3
<1>12. ASSUME NEW i \in WriteSteps, applied[i] = 1
       PROVE  applied'[i] = 1
  <2>1. i # j
    BY <1>10, <1>12
  <2> QED
    BY <1>0, <1>2, <1>12, <2>1
<1> QED
  BY <1>0, <1>2, <1>6, <1>7, <1>8, <1>10, <1>11, <1>12 DEF Untouched

\* The network drops a request.
LEMMA LoseKeepsInv ==
  ASSUME ExecutionInv, NEW m \in network, Lose(m)
  PROVE  ExecutionInv'
<1>1. /\ network' = network \ {m}
      /\ UNCHANGED <<run, step, attempt, phase, answer, cancelled, sends, applied,
                     outcome>>
  BY DEF Lose
<1>2. applied' = [applied EXCEPT ![m[1]] = @ + 0]
  <2>1. applied \in [Places -> 0..ReadAttempts] /\ ReadAttempts \in Nat
    BY ExecutionAssumption DEF ExecutionInv, ExecutionTypeOK, Places
  <2>2. m[1] \in Places
    BY DEF ExecutionInv, ExecutionTypeOK, Places
  <2> QED
    BY <1>1, <2>1, <2>2
<1>3. /\ CountInv'
      /\ \A i \in Places : /\ Msgs(i) = {} => Msgs(i)' = {}
                           /\ Untouched(i) => Untouched(i)'
  BY <1>1, <1>2, OneLess
<1>4. WriteSteps' = WriteSteps /\ WriteSteps \subseteq Places /\ step \in Places
  BY <1>1, RunFacts DEF WriteSteps, ExecutionInv
<1>5. Msgs(step)' = {} \/ Msgs(step) # {}
  BY <1>1, <1>3, <1>4 DEF Msgs
<1>6. TruthInv'
  BY <1>1, <1>3, <1>4, <1>5 DEF ExecutionInv, TruthInv
<1>7. ExecutionTypeOK'
  BY <1>1 DEF ExecutionInv, ExecutionTypeOK
<1> QED
  BY <1>3, <1>6, <1>7 DEF ExecutionInv

\* The service takes a request and answers.
LEMMA ServeKeepsInv ==
  ASSUME ExecutionInv, NEW m \in network, NEW takesEffect \in BOOLEAN,
         NEW a \in Answers, Serve(m, takesEffect, a)
  PROVE  ExecutionInv'
<1> DEFINE n == IF takesEffect THEN 1 ELSE 0
<1>1. /\ network' = network \ {m} /\ n \in {0, 1}
      /\ UNCHANGED <<run, step, attempt, phase, cancelled, sends, outcome>>
      /\ a = "ok" => n = 1
      /\ a \in {"refused", "rejected"} => n = 0
  BY DEF Serve
<1>2. applied' = [applied EXCEPT ![m[1]] = @ + n]
  <2>1. applied \in [Places -> 0..ReadAttempts] /\ ReadAttempts \in Nat
    BY ExecutionAssumption DEF ExecutionInv, ExecutionTypeOK, Places
  <2>2. m[1] \in Places
    BY DEF ExecutionInv, ExecutionTypeOK, Places
  <2>3. CASE takesEffect
    BY <2>1, <2>2, <2>3 DEF Serve
  <2>4. CASE ~takesEffect
    <3>1. n = 0 /\ applied' = applied
      BY <2>4 DEF Serve
    <3> QED
      BY <2>1, <2>2, <3>1
  <2> QED
    BY <2>3, <2>4
<1> HIDE DEF n
<1>3. /\ CountInv' /\ applied' \in [Places -> 0..ReadAttempts]
      /\ \A i \in Places : /\ i # m[1] => applied'[i] = applied[i]
                           /\ Msgs(i) = {} => Msgs(i)' = {} /\ i # m[1]
                           /\ Untouched(i) => Untouched(i)'
      /\ \A i \in WriteSteps : applied[i] = 1 => applied'[i] = 1
      /\ \A i \in WriteSteps : i = m[1] => Msgs(i)' = {} /\ applied'[i] = n
  BY <1>1, <1>2, OneLess
<1>4. WriteSteps' = WriteSteps /\ WriteSteps \subseteq Places /\ step \in Places
  BY <1>1, RunFacts DEF WriteSteps, ExecutionInv
<1>5. \/ phase = "waiting" /\ m = <<step, attempt>> /\ answer' = a
      \/ answer' = answer
  BY DEF Serve
<1>6. Msgs(step)' = {x \in network' : x[1] = step}
  BY <1>1 DEF Msgs
<1>7. /\ answer' # None => phase = "waiting"
      /\ step \in WriteSteps /\ answer' # None => Msgs(step)' = {}
      /\ step \in WriteSteps /\ answer' = "ok" => applied'[step] = 1
      /\ step \in WriteSteps /\ answer' \in {"refused", "rejected"} =>
           applied'[step] = 0
  <2>1. CASE phase = "waiting" /\ m = <<step, attempt>> /\ answer' = a
    <3>1. m[1] = step
      BY <2>1
    <3>2. step \in WriteSteps =>
            {x \in network' : x[1] = step} = {} /\ applied'[step] = n
      BY <1>3, <3>1 DEF Msgs
    <3> QED
      BY <1>1, <1>6, <2>1, <3>2
  <2>2. CASE answer' = answer
    <3>1. step \in WriteSteps /\ answer # None =>
            /\ {x \in network' : x[1] = step} = {}
            /\ applied'[step] = applied[step]
      BY <1>3, <1>4 DEF ExecutionInv, TruthInv, Msgs
    <3>2. None \notin {"ok", "refused", "rejected"}
      BY ExecutionAssumption DEF Answers
    <3> QED
      BY <1>6, <2>2, <3>1, <3>2 DEF ExecutionInv, TruthInv
  <2> QED
    BY <1>5, <2>1, <2>2
<1>8. TruthInv'
  BY <1>1, <1>3, <1>4, <1>7 DEF ExecutionInv, TruthInv
<1>9. ExecutionTypeOK'
  BY <1>1, <1>3, <1>5 DEF ExecutionInv, ExecutionTypeOK, Places
<1> QED
  BY <1>3, <1>8, <1>9 DEF ExecutionInv

\* ExecutionInv holds in every state: the theorems below are its consequences.
LEMMA ExecutionInvariant == Spec => []ExecutionInv
<1>1. Init => ExecutionInv
  <2> SUFFICES ASSUME Init
               PROVE  ExecutionInv
    OBVIOUS
  <2>1. run \in Methods /\ ReadAttempts \in 1..5
    BY ExecutionAssumption DEF Init
  <2>2. Len(run.plan) \in 1..3
    BY <2>1, PlanFacts DEF Fine
  <2>3. ExecutionTypeOK
    <3>1. /\ sends \in [1..Len(run.plan) -> 0..ReadAttempts]
          /\ applied \in [1..Len(run.plan) -> 0..ReadAttempts]
          /\ step \in 1..Len(run.plan) /\ attempt \in 1..ReadAttempts
      BY <2>1, <2>2 DEF Init
    <3> QED
      BY <3>1 DEF Init, ExecutionTypeOK
  <2>4. \A i : Msgs(i) = {}
    BY DEF Init, Msgs
  <2>5. CountInv
    <3>1. \A i \in Places : sends[i] = 0 /\ applied[i] = 0
      BY DEF Init, Places
    <3>2. attempt <= Attempts(Current)
      BY <2>1 DEF Init, Attempts
    <3>3. step \in Places /\ WriteSteps \subseteq Places
      BY <2>3, RunFacts
    <3>4. sends[step] <= (IF phase = "ready" THEN attempt - 1 ELSE attempt)
      BY <3>1, <3>3 DEF Init
    <3> QED
      BY <2>4, <3>1, <3>2, <3>3, <3>4, FS_EmptySet DEF CountInv
  <2>6. TruthInv
    <3>1. WriteSteps \subseteq Places /\ Places \subseteq Nat \ {0}
      BY <2>2, <2>3, RunFacts DEF Places
    <3> QED
      BY <3>1, ExecutionAssumption DEF Init, TruthInv, Answers
  <2> QED
    BY <2>3, <2>5, <2>6 DEF ExecutionInv
<1>2. ExecutionInv /\ [Next]_vars => ExecutionInv'
  <2> SUFFICES ASSUME ExecutionInv, [Next]_vars
               PROVE  ExecutionInv'
    OBVIOUS
  <2>1. CASE Client
    BY <2>1, NotSentKeepsInv, SendKeepsInv, NoAnswerKeepsInv, ReceiveKeepsInv DEF Client
  <2>2. CASE Cancel
    BY <2>2, CancelKeepsInv
  <2>3. CASE \E m \in network : Lose(m)
    BY <2>3, LoseKeepsInv
  <2>4. CASE \E m \in network, takesEffect \in BOOLEAN, a \in Answers :
               Serve(m, takesEffect, a)
    BY <2>4, ServeKeepsInv
  <2>5. CASE UNCHANGED vars
    BY <2>5 DEF vars, ExecutionInv, ExecutionTypeOK, CountInv, TruthInv, Places,
                Msgs, WriteSteps, Current, Untouched
  <2> QED
    BY <2>1, <2>2, <2>3, <2>4, <2>5 DEF Next
<1> QED
  BY <1>1, <1>2, PTL DEF Spec

\* Type correctness; in it, that an unknown outcome comes from writes only
\* (mail_read.go and the other read services never ask for
\* ErrWriteOutcomeUnknown; mail_send.go, client.go).
THEOREM ExecutionTyping == Spec => []ExecutionTypeOK
<1>1. ExecutionInv => ExecutionTypeOK
  BY DEF ExecutionInv
<1> QED
  BY <1>1, ExecutionInvariant, PTL

\* A write takes effect at most once, whatever network and service do
\* (client.go, Call: the attempts of a write; protocol.go).
THEOREM WritesAreNotRepeated == Spec => []WriteTakesEffectAtMostOnce
<1>1. ExecutionInv => WriteTakesEffectAtMostOnce
  <2> SUFFICES ASSUME ExecutionInv, NEW i \in WriteSteps
               PROVE  applied[i] + Cardinality(Msgs(i)) <= 1
    BY DEF WriteTakesEffectAtMostOnce, Msgs
  <2>1. i \in Places /\ ReadAttempts \in Nat
    BY RunFacts DEF ExecutionInv
  <2>2. /\ applied[i] + Cardinality(Msgs(i)) <= sends[i]
        /\ IsFiniteSet(Msgs(i))
    BY <2>1 DEF ExecutionInv, CountInv
  <2>3. sends[i] <= 1
    BY DEF ExecutionInv, CountInv
  <2>4. applied[i] \in Nat /\ sends[i] \in Nat
    <3>1. /\ applied \in [Places -> 0..ReadAttempts]
          /\ sends \in [Places -> 0..ReadAttempts]
      BY DEF ExecutionInv, ExecutionTypeOK, Places
    <3> QED
      BY <2>1, <3>1
  <2>5. Cardinality(Msgs(i)) \in Nat
    BY <2>2, FS_CardinalityType
  <2> QED
    BY <2>2, <2>3, <2>4, <2>5
<1> QED
  BY <1>1, ExecutionInvariant, PTL

\* What an execution is recorded and reported as is true of the mailbox
\* (client.go, Call and callOnce; mail_send.go; the outcome of the services'
\* execute methods, application/audit.go).
THEOREM OutcomesAreTrue == Spec => []OutcomeIsTrue
<1>1. ExecutionInv => OutcomeIsTrue
  BY DEF ExecutionInv, TruthInv, OutcomeIsTrue, Untouched, Msgs
<1> QED
  BY <1>1, ExecutionInvariant, PTL
==============================================================================
