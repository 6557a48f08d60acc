--------------------------- MODULE AdaptersProofs ---------------------------
(***************************************************************************)
(* Proofs about Adapters: what a command or a tool reports is true of the  *)
(* mailbox, what ran was reviewed or allowed, and the slots of a server    *)
(* count the calls it works on - for every number of processes, jobs,      *)
(* slots and connections, whatever is lost, abandoned or replaced.         *)
(***************************************************************************)
EXTENDS Adapters, FiniteSetTheorems, TLAPS

(* The inductive invariant.                                                *)

RunRecord == [at : Process, token : Approval \cup {None}]

JobRecord ==
  [at : {"idle", "dial", "waiting", "answered", "done"},
   class : Catalogue \cup {None},
   accepts : {"result", "either", "preview", "any", None},
   approve : BOOLEAN,
   method : {"prepare", "commit", None},
   token : Approval \cup {None},
   cred : Process \cup {None},
   answer : Answers \cup {None},
   result : Results \cup {None}]

CallRecord ==
  [stage : {"none", "arriving", "running", "returning"},
   to : Process \cup {None},
   authorized : BOOLEAN,
   method : {"prepare", "commit", None},
   token : Approval \cup {None},
   answer : Answers \cup {None}]

\* An answer that has been given; a preview comes with its token.
Meant(answer, token) ==
  answer \in Answers /\ (answer = "preview" => token \in Approval)

\* The shapes of the locals of a job and of a call, which AdaptersTypeOK leaves
\* to the fields that are read.
TypeInv ==
  /\ owner \in Process \cup {None} /\ credential \in Process \cup {None}
  /\ fresh \subseteq Process
  /\ setup \in Setups
  /\ opened \in [Adapter -> Process \cup {None}]
  /\ job \in [Job -> JobRecord]
  /\ \A j \in Job : job[j].class \in Used[j] \cup {None}
  /\ call \in [Job -> CallRecord]
  /\ \A j \in Job : Stage(j, "none") \/ call[j].to \in Process
  /\ \A j \in Job : At(j, "answered") => Meant(job[j].answer, job[j].token)
  /\ \A j \in Job : Stage(j, "returning") => Meant(call[j].answer, call[j].token)
  /\ slots \in [Process -> Nat]
  /\ approvals \subseteq Approval /\ shown \subseteq Approval
  /\ runs \in [Job -> Seq(RunRecord)]

\* Where a job is, where its call is, and whether its operation has run.
AnswerTells(answer, ran) ==
  /\ answer = "result" => ran # <<>>
  /\ answer \in {"preview", "refused"} => ran = <<>>

Progress(j) ==
  /\ job[j].at \in {"idle", "dial"} => Stage(j, "none") /\ runs[j] = <<>>
  /\ call[j].stage \in {"arriving", "running"} => runs[j] = <<>>
  /\ Stage(j, "returning") => AnswerTells(call[j].answer, runs[j])
  /\ At(j, "answered") =>
       /\ Stage(j, "none")
       /\ AnswerTells(job[j].answer, runs[j])
  /\ At(j, "done") <=> job[j].result # None
  /\ job[j].result \in {"success", "preview", "refused"} => Stage(j, "none")

ProgressInv == \A j \in Job : Progress(j)

SlotInv ==
  \A p \in Process :
    /\ IsFiniteSet(Running(p))
    /\ slots[p] = Cardinality(Running(p))
    /\ slots[p] <= Slots

\* The token a job is about to commit has been shown.
Shown(j) ==
  /\ At(j, "dial") /\ job[j].method = "commit" => job[j].token \in shown
  /\ call[j].stage \in {"arriving", "running"} /\ call[j].method = "commit" =>
       call[j].token \in shown

\* What ReviewedBeforeRun says of one execution, but for what openDaemon adds;
\* the job that asked for the approval has begun, and its tool no longer changes.
Allowed(class, who) ==
  RunsOn(class, Policy(setup[who].rules)!Evaluate(class.effect))

RunFine(j, r) ==
  /\ setup[r.at].protocol = setup[Caller(j)].protocol
  /\ IF r.token = None
     THEN Allowed(job[j].class, r.at)
     ELSE /\ r.token \in shown
          /\ Caller(r.token.by) = Caller(j)
          /\ job[r.token.by].class = job[j].class
          /\ ~At(r.token.by, "idle")
          /\ r.at = r.token.owner

ReviewInv ==
  /\ \A j \in Job : Shown(j)
  /\ \A t \in approvals : ~At(t.by, "idle")
  /\ \A j \in Job : \A i \in 1..Len(runs[j]) : RunFine(j, runs[j][i])

\* openDaemon vouches for one owner, and is not asked again.
OpenedInv ==
  \A a \in Adapter :
    opened[a] # None =>
      /\ setup[opened[a]].protocol = setup[a].protocol
      /\ setup[opened[a]].digest = setup[a].digest

AdaptersInv ==
  /\ TypeInv
  /\ ProgressInv /\ ReportIsTrue
  /\ SlotInv
  /\ OpenedInv /\ ReviewInv

----------------------------------------------------------------------------
(* Records.                                                                *)

\* What Begin and End write is a job's locals.
LEMMA IdleJobShape == IdleJob \in JobRecord
BY DEF IdleJob, JobRecord

\* NoCall: a call the server knows nothing of.
LEMMA NoCallShape == NoCall \in CallRecord
BY DEF NoCall, CallRecord

\* End: the locals are forgotten, the tool and --approve are kept.
LEMMA EndShape ==
  ASSUME TypeInv, NEW j \in Job, NEW result \in Results, End(j, result)
  PROVE  /\ job' \in [Job -> JobRecord]
         /\ At(j, "done")' /\ job'[j].result = result
         /\ job'[j].class = job[j].class /\ job'[j].approve = job[j].approve
         /\ job'[j].answer = None
         /\ \A i \in Job \ {j} : job'[i] = job[i]
<1> DEFINE ended == [IdleJob EXCEPT !.at = "done", !.class = job[j].class,
                                    !.approve = job[j].approve, !.result = result]
<1>1. job[j] \in JobRecord BY DEF TypeInv
<1>2. ended \in JobRecord
  BY <1>1, IdleJobShape DEF JobRecord
<1>3. /\ ended.at = "done" /\ ended.result = result /\ ended.class = job[j].class
      /\ ended.approve = job[j].approve /\ ended.answer = None
  BY DEF IdleJob
<1>4. job' = [job EXCEPT ![j] = ended] BY DEF End
<1> HIDE DEF ended
<1> QED BY <1>2, <1>3, <1>4 DEF TypeInv, At

\* A job that goes on to another call.
LEMMA DialShape ==
  ASSUME TypeInv, NEW j \in Job, NEW locals \in JobRecord, LoadCredential(j, locals)
  PROVE  /\ job' \in [Job -> JobRecord]
         /\ \A i \in Job \ {j} : job'[i] = job[i]
         /\ \/ /\ End(j, "refused")
            \/ /\ At(j, "dial")' /\ job'[j].class = locals.class
               /\ job'[j].method = locals.method /\ job'[j].token = locals.token
               /\ job'[j].result = locals.result
<1>1. CASE credential = None
  <2>1. End(j, "refused") BY <1>1 DEF LoadCredential
  <2> QED BY <2>1, EndShape DEF Results
<1>2. CASE credential # None
  <2> DEFINE dialling == [locals EXCEPT !.at = "dial", !.cred = credential]
  <2>1. dialling \in JobRecord BY DEF JobRecord, TypeInv
  <2>2. /\ dialling.at = "dial" /\ dialling.class = locals.class
        /\ dialling.method = locals.method /\ dialling.token = locals.token
        /\ dialling.result = locals.result
    BY DEF JobRecord
  <2>3. job' = [job EXCEPT ![j] = dialling] BY <1>2 DEF LoadCredential
  <2> HIDE DEF dialling
  <2> QED BY <2>1, <2>2, <2>3 DEF TypeInv, At
<1> QED BY <1>1, <1>2

\* The adapters' methods and what they can go on from.
LEMMA CommandShape ==
  ASSUME NEW command \in Commands
  PROVE  command.accepts \in {"result", "either", "preview"}
BY DEF Commands, Command, MailFoldersCommand, MailListCommand, MailSearchCommand,
       MailMoveCommand, MailMarkCommand, MailDeleteCommand, MailBodyCommand,
       MailAttachmentCommand, MailDraftCommand, MailSendCommand,
       CalendarListCommand, CalendarCreateCommand, CalendarUpdateCommand,
       CalendarCancelCommand

\* Tools (internal/mcpserver): each of them prepares or commits.
LEMMA ToolShape ==
  ASSUME NEW tool \in Tools
  PROVE  tool.call \in {"prepare", "commit"}
<1>1. \A class, call_ : Tool(class, call_).call = call_ BY DEF Tool
<1> HIDE DEF Tool
<1> QED
  BY <1>1 DEF Tools, ToolAndCommit, CalendarListTools, CalendarCreateTools,
       CalendarUpdateTools, CalendarCancelTools, MailFoldersTools, MailBodyTools,
       MailAttachmentTools, MailDraftTools, MailSendTools, MailListTools,
       MailSearchTools, MailMoveTools, MailReadStateTools, MailDeleteTools
\* RunCommand and CallTool: the locals a job begins with.
LEMMA BeginLocals ==
  ASSUME AdapterAssumption, TypeInv, NEW j \in Job, RunCommand(j) \/ CallTool(j)
  PROVE  \E locals \in JobRecord :
           /\ Begin(j, locals)
           /\ locals.class \in Used[j] /\ locals.result = None
           /\ locals.method = "commit" => locals.token \in shown
<1>1. Used[j] \subseteq Catalogue BY DEF AdapterAssumption
<1>2. CASE RunCommand(j)
  <2>1. PICK command \in Commands, approve \in BOOLEAN :
          /\ command.class \in Used[j]
          /\ Begin(j, [IdleJob EXCEPT !.class = command.class, !.approve = approve,
                         !.accepts = command.accepts, !.method = "prepare"])
    BY <1>2 DEF RunCommand
  <2> DEFINE locals == [IdleJob EXCEPT !.class = command.class, !.approve = approve,
                          !.accepts = command.accepts, !.method = "prepare"]
  <2>2. locals \in JobRecord
    BY <1>1, <2>1, CommandShape, IdleJobShape DEF JobRecord
  <2>3. locals.class = command.class /\ locals.result = None /\ locals.method = "prepare"
    BY DEF IdleJob
  <2> HIDE DEF locals
  <2> QED BY <2>1, <2>2, <2>3 DEF locals
<1>3. CASE CallTool(j)
  <2>1. PICK tool \in Tools :
          /\ tool.class \in Used[j]
          /\ \E token \in IF tool.call = "commit" THEN Disclosed ELSE {None} :
               Begin(j, [IdleJob EXCEPT !.class = tool.class, !.accepts = "any",
                           !.method = tool.call, !.token = token])
    BY <1>3 DEF CallTool
  <2>2. PICK token \in IF tool.call = "commit" THEN Disclosed ELSE {None} :
          Begin(j, [IdleJob EXCEPT !.class = tool.class, !.accepts = "any",
                      !.method = tool.call, !.token = token])
    BY <2>1
  <2>3. /\ tool.call = "commit" => token \in shown
        /\ token \in Approval \cup {None}
    BY <2>2 DEF Disclosed, TypeInv
  <2> DEFINE locals == [IdleJob EXCEPT !.class = tool.class, !.accepts = "any",
                          !.method = tool.call, !.token = token]
  <2>4. locals \in JobRecord
    BY <1>1, <2>1, <2>3, ToolShape, IdleJobShape DEF JobRecord
  <2>5. /\ locals.class = tool.class /\ locals.result = None
        /\ locals.method = tool.call /\ locals.token = token
    BY DEF IdleJob
  <2> HIDE DEF locals
  <2> QED BY <2>1, <2>2, <2>3, <2>4, <2>5 DEF locals
<1> QED BY <1>2, <1>3

\* Answered: the job that waits has its answer, any other is left alone.
LEMMA AnsweredShape ==
  ASSUME TypeInv, NEW j \in Job, NEW answer \in Answers,
         NEW token \in Approval \cup {None}, Answered(j, answer, token)
  PROVE  /\ job' \in [Job -> JobRecord]
         /\ \A i \in Job \ {j} : job'[i] = job[i]
         /\ job'[j].class = job[j].class /\ job'[j].method = job[j].method
         /\ job'[j].result = job[j].result
         /\ At(j, "waiting") =>
              /\ At(j, "answered")' /\ job'[j].answer = answer
              /\ answer = "preview" => job'[j].token = token
         /\ ~At(j, "waiting") => job'[j] = job[j]
<1>1. CASE At(j, "waiting")
  <2> DEFINE given == [job[j] EXCEPT !.at = "answered", !.answer = answer,
                         !.token = IF answer = "preview" THEN token ELSE @]
  <2>1. job[j] \in JobRecord BY DEF TypeInv
  <2>2. given \in JobRecord BY <2>1 DEF JobRecord
  <2>3. /\ given.at = "answered" /\ given.answer = answer
        /\ given.class = job[j].class /\ given.method = job[j].method
        /\ given.result = job[j].result
        /\ answer = "preview" => given.token = token
    BY <2>1 DEF JobRecord
  <2>4. job' = [job EXCEPT ![j] = given] BY <1>1 DEF Answered, TypeInv
  <2> HIDE DEF given
  <2> QED BY <1>1, <2>2, <2>3, <2>4 DEF TypeInv, At
<1>2. CASE ~At(j, "waiting")
  BY <1>2 DEF Answered, TypeInv
<1> QED BY <1>1, <1>2

\* Dispatched: the call has its answer, and keeps where it is and its method.
LEMMA DispatchedShape ==
  ASSUME TypeInv, NEW j \in Job, NEW answer \in Answers,
         NEW token \in Approval \cup {None}, Dispatched(j, answer, token)
  PROVE  /\ call' \in [Job -> CallRecord]
         /\ \A i \in Job \ {j} : call'[i] = call[i]
         /\ Stage(j, "returning")' /\ call'[j].to = call[j].to
         /\ call'[j].answer = answer /\ call'[j].token = token
         /\ call'[j].method = call[j].method
<1> DEFINE sent == [call[j] EXCEPT !.stage = "returning", !.answer = answer,
                                   !.token = token]
<1>1. call[j] \in CallRecord BY DEF TypeInv
<1>2. sent \in CallRecord BY <1>1 DEF CallRecord
<1>3. /\ sent.stage = "returning" /\ sent.answer = answer /\ sent.to = call[j].to
      /\ sent.method = call[j].method /\ sent.token = token
  BY <1>1 DEF CallRecord
<1>4. call' = [call EXCEPT ![j] = sent] BY DEF Dispatched, TypeInv
<1> HIDE DEF sent
<1> QED BY <1>2, <1>3, <1>4 DEF TypeInv, Stage

\* Return, TurnAway: the server has forgotten the call.
LEMMA ForgottenShape ==
  ASSUME TypeInv, NEW j \in Job, call' = [call EXCEPT ![j] = NoCall]
  PROVE  /\ call' \in [Job -> CallRecord]
         /\ \A i \in Job \ {j} : call'[i] = call[i]
         /\ Stage(j, "none")'
<1>1. NoCall.stage = "none" BY DEF NoCall
<1> QED BY <1>1, NoCallShape DEF TypeInv, Stage

\* Dial: the request, if there is an owner to listen.
LEMMA DialledShape ==
  ASSUME AdapterAssumption, TypeInv, NEW j \in Job, Dial(j)
  PROVE  \/ owner = None /\ End(j, "refused") /\ UNCHANGED call
         \/ /\ owner # None
            /\ job' \in [Job -> JobRecord]
            /\ \A i \in Job \ {j} : job'[i] = job[i] /\ call'[i] = call[i]
            /\ At(j, "waiting")' /\ job'[j].class = job[j].class
            /\ job'[j].method = job[j].method /\ job'[j].result = job[j].result
            /\ call' \in [Job -> CallRecord]
            /\ Stage(j, "arriving")' /\ call'[j].to = owner
            /\ call'[j].method = job[j].method /\ call'[j].token = job[j].token
<1>1. CASE owner = None
  BY <1>1 DEF Dial
<1>2. CASE owner # None
  <2> DEFINE authorized == job[j].cred = owner
             request == [NoCall EXCEPT !.stage = "arriving", !.to = owner,
                           !.authorized = authorized,
                           !.method = job[j].method, !.token = job[j].token]
             waiting == [job[j] EXCEPT !.at = "waiting", !.cred = None]
  <2>1. job[j] \in JobRecord BY DEF TypeInv
  <2>2. waiting \in JobRecord BY <2>1 DEF JobRecord
  <2>3. /\ waiting.at = "waiting" /\ waiting.class = job[j].class
        /\ waiting.method = job[j].method /\ waiting.result = job[j].result
    BY <2>1 DEF JobRecord
  <2>4. authorized \in BOOLEAN OBVIOUS
  <2>5. call' = [call EXCEPT ![j] = request] /\ job' = [job EXCEPT ![j] = waiting]
    BY <1>2 DEF Dial, TypeInv
  <2> HIDE DEF authorized
  <2>6. request \in CallRecord
    BY <1>2, <2>1, <2>4, NoCallShape DEF CallRecord, JobRecord, TypeInv
  <2>7. /\ request.stage = "arriving" /\ request.to = owner
        /\ request.method = job[j].method /\ request.token = job[j].token
    BY DEF NoCall
  <2> HIDE DEF request, waiting
  <2> QED BY <1>2, <2>2, <2>3, <2>5, <2>6, <2>7 DEF TypeInv, At, Stage
<1> QED BY <1>1, <1>2

\* Admit: the call is worked on.
LEMMA AdmittedShape ==
  ASSUME TypeInv, NEW j \in Job, Admit(j)
  PROVE  /\ call' \in [Job -> CallRecord]
         /\ \A i \in Job \ {j} : call'[i] = call[i]
         /\ Stage(j, "running")' /\ call'[j].to = call[j].to
         /\ call'[j].method = call[j].method /\ call'[j].token = call[j].token
<1> DEFINE admitted == [call[j] EXCEPT !.stage = "running"]
<1>1. call[j] \in CallRecord BY DEF TypeInv
<1>2. admitted \in CallRecord BY <1>1 DEF CallRecord
<1>3. /\ admitted.stage = "running" /\ admitted.to = call[j].to
      /\ admitted.method = call[j].method /\ admitted.token = call[j].token
  BY <1>1 DEF CallRecord
<1>4. call' = [call EXCEPT ![j] = admitted] BY DEF Admit, TypeInv
<1> HIDE DEF admitted
<1> QED BY <1>2, <1>3, <1>4 DEF TypeInv, Stage

\* Exit: the calls of the process are gone, the others as they were.
LEMMA ExitShape ==
  ASSUME TypeInv, NEW p \in Process, Exit(p)
  PROVE  /\ call' \in [Job -> CallRecord]
         /\ \A j \in Job : IF call[j].to = p THEN Stage(j, "none")'
                                            ELSE call'[j] = call[j]
<1>1. NoCall.stage = "none" BY DEF NoCall
<1> QED BY <1>1, NoCallShape DEF TypeInv, Stage, Exit

\* Perform: one more execution, here, and an answer that says so or an error.
LEMMA PerformShape ==
  ASSUME TypeInv, NEW j \in Job, NEW token \in Approval \cup {None},
         Stage(j, "running"), Perform(j, token)
  PROVE  /\ call' \in [Job -> CallRecord]
         /\ \A i \in Job \ {j} : call'[i] = call[i] /\ runs'[i] = runs[i]
         /\ Stage(j, "returning")' /\ call'[j].to = call[j].to
         /\ call'[j].answer \in {"result", "failed"}
         /\ runs' \in [Job -> Seq(RunRecord)]
         /\ runs'[j] = Append(runs[j], [at |-> call[j].to, token |-> token])
<1>1. PICK answer \in {"result", "failed"} : Dispatched(j, answer, None)
  BY DEF Perform
<1>2. answer \in Answers BY DEF Answers
<1>3. [at |-> call[j].to, token |-> token] \in RunRecord
  <2>1. call[j].to \in Process BY DEF TypeInv, Stage
  <2> QED BY <2>1 DEF RunRecord
<1>4. runs' = [runs EXCEPT ![j] = Append(runs[j], [at |-> call[j].to, token |-> token])]
  BY DEF Perform, TypeInv
<1> QED BY <1>1, <1>2, <1>3, <1>4, DispatchedShape DEF TypeInv
----------------------------------------------------------------------------
(* Types.                                                                  *)

\* The variables a step of the server leaves to TypeInv.
LEMMA TypingFrame ==
  ASSUME TypeInv, NEW j \in Job,
         UNCHANGED <<ownershipVars, setup, opened>>,
         job' \in [Job -> JobRecord], call' \in [Job -> CallRecord],
         job'[j].class \in Used[j] \cup {None},
         \A i \in Job \ {j} : job'[i] = job[i] /\ call'[i] = call[i],
         Stage(j, "none")' \/ call'[j].to \in Process,
         At(j, "answered")' => Meant(job'[j].answer, job'[j].token),
         Stage(j, "returning")' => Meant(call'[j].answer, call'[j].token),
         slots' \in [Process -> Nat],
         approvals' \subseteq Approval, shown' \subseteq Approval,
         runs' \in [Job -> Seq(RunRecord)]
  PROVE  TypeInv'
<1>1. \A i \in Job : job'[i].class \in Used[i] \cup {None}
  BY DEF TypeInv
<1>2. \A i \in Job : Stage(i, "none")' \/ call'[i].to \in Process
  BY DEF TypeInv, Stage
<1>3. \A i \in Job : At(i, "answered")' => Meant(job'[i].answer, job'[i].token)
  <2> TAKE i \in Job
  <2>1. CASE i = j BY <2>1
  <2>2. CASE i # j
    <3>1. job'[i] = job[i] BY <2>2
    <3>2. At(i, "answered") => Meant(job[i].answer, job[i].token) BY DEF TypeInv
    <3> QED BY <3>1, <3>2 DEF At, Meant
  <2> QED BY <2>1, <2>2
<1>4. \A i \in Job : Stage(i, "returning")' => Meant(call'[i].answer, call'[i].token)
  <2> TAKE i \in Job
  <2>1. CASE i = j BY <2>1
  <2>2. CASE i # j
    <3>1. call'[i] = call[i] BY <2>2
    <3>2. Stage(i, "returning") => Meant(call[i].answer, call[i].token) BY DEF TypeInv
    <3> QED BY <3>1, <3>2 DEF Stage, Meant
  <2> QED BY <2>1, <2>2
<1>5. /\ (\A i \in Job : At(i, "answered") => Meant(job[i].answer, job[i].token))'
      /\ (\A i \in Job : Stage(i, "returning") => Meant(call[i].answer, call[i].token))'
  BY <1>3, <1>4 DEF Meant
<1> QED BY <1>1, <1>2, <1>5 DEF TypeInv, ownershipVars, Stage, At

\* The same, of a step in which only a job goes on, and not to an answer.
LEMMA JobTypingFrame ==
  ASSUME TypeInv, NEW j \in Job,
         UNCHANGED <<ownershipVars, setup, opened, call, slots, approvals, runs>>,
         job' \in [Job -> JobRecord],
         job'[j].class \in Used[j] \cup {None},
         \A i \in Job \ {j} : job'[i] = job[i],
         At(j, "done")' \/ At(j, "dial")',
         shown' \subseteq Approval
  PROVE  TypeInv'
<1>1. ~At(j, "answered")' BY DEF At
<1>2. Stage(j, "none")' \/ call'[j].to \in Process BY DEF TypeInv, Stage
<1>3. Stage(j, "returning")' => Meant(call'[j].answer, call'[j].token)
  BY DEF TypeInv, Stage
<1>4. /\ call' \in [Job -> CallRecord] /\ slots' \in [Process -> Nat]
      /\ approvals' \subseteq Approval /\ runs' \in [Job -> Seq(RunRecord)]
      /\ \A i \in Job \ {j} : call'[i] = call[i]
  BY DEF TypeInv
<1>5. UNCHANGED <<ownershipVars, setup, opened>> OBVIOUS
<1> QED BY <1>1, <1>2, <1>3, <1>4, <1>5, TypingFrame

\* RunCommand, CallTool, Dial, ShowReview, Report and GiveUp: the adapters.
LEMMA AdapterKeepsTyping ==
  ASSUME AdapterAssumption, TypeInv, NEW j \in Job,
         \/ RunCommand(j) \/ CallTool(j) \/ Dial(j)
         \/ ShowReview(j) \/ Report(j) \/ GiveUp(j)
  PROVE  TypeInv'
<1>0. /\ job[j] \in JobRecord /\ job[j].class \in Used[j] \cup {None}
      /\ shown \subseteq Approval
      /\ {"refused", "lost"} \subseteq Results
  BY DEF TypeInv, Results
<1>1. CASE RunCommand(j) \/ CallTool(j)
  <2>1. PICK locals \in JobRecord :
          Begin(j, locals) /\ locals.class \in Used[j]
    BY <1>1, BeginLocals
  <2>2. /\ LoadCredential(j, locals)
        /\ UNCHANGED <<ownershipVars, setup, opened, call, slots, approvals, shown, runs>>
    BY <2>1 DEF Begin
  <2>3. CASE End(j, "refused")
    BY <1>0, <2>2, <2>3, EndShape, JobTypingFrame
  <2>4. CASE ~End(j, "refused")
    BY <1>0, <2>1, <2>2, <2>4, DialShape, JobTypingFrame
  <2> QED BY <2>3, <2>4
<1>2. CASE Dial(j)
  <2>1. UNCHANGED <<ownershipVars, setup, opened, slots, approvals, shown, runs>>
    BY <1>2 DEF Dial
  <2>2. CASE End(j, "refused") /\ UNCHANGED call
    BY <1>0, <2>1, <2>2, EndShape, JobTypingFrame
  <2>3. CASE ~(End(j, "refused") /\ UNCHANGED call)
    <3>1. /\ owner \in Process
          /\ job' \in [Job -> JobRecord]
          /\ \A i \in Job \ {j} : job'[i] = job[i] /\ call'[i] = call[i]
          /\ At(j, "waiting")' /\ job'[j].class = job[j].class
          /\ call' \in [Job -> CallRecord]
          /\ Stage(j, "arriving")' /\ call'[j].to = owner
      BY <1>2, <2>3, DialledShape DEF TypeInv
    <3>2. ~At(j, "answered")' /\ ~Stage(j, "returning")'
      BY <3>1 DEF At, Stage
    <3>3. /\ slots' \in [Process -> Nat] /\ approvals' \subseteq Approval
          /\ runs' \in [Job -> Seq(RunRecord)]
      BY <2>1 DEF TypeInv
    <3> QED BY <1>0, <2>1, <3>1, <3>2, <3>3, TypingFrame
  <2> QED BY <2>2, <2>3
<1>3. CASE ShowReview(j)
  <2> DEFINE locals == [job[j] EXCEPT !.method = "commit", !.answer = None]
  <2>1. /\ LoadCredential(j, locals)
        /\ shown' = shown \cup {job[j].token}
        /\ UNCHANGED <<ownershipVars, setup, opened, call, slots, approvals, runs>>
        /\ At(j, "answered") /\ job[j].answer = "preview"
    BY <1>3 DEF ShowReview, Commit, Reviews
  <2>2. locals \in JobRecord /\ locals.class = job[j].class
    BY <1>0 DEF JobRecord
  <2> HIDE DEF locals
  <2>3. job[j].token \in Approval
    BY <2>1 DEF TypeInv, Meant
  <2>4. shown' \subseteq Approval BY <1>0, <2>1, <2>3
  <2>5. CASE End(j, "refused")
    BY <1>0, <2>1, <2>4, <2>5, EndShape, JobTypingFrame
  <2>6. CASE ~End(j, "refused")
    BY <1>0, <2>1, <2>2, <2>4, <2>6, DialShape, JobTypingFrame
  <2> QED BY <2>5, <2>6
<1>4. CASE Report(j)
  <2>1. /\ End(j, Reported(j))
        /\ shown' = shown \cup (IF job[j].answer = "preview" THEN {job[j].token} ELSE {})
        /\ UNCHANGED <<ownershipVars, setup, opened, call, slots, approvals, runs>>
        /\ At(j, "answered")
    BY <1>4 DEF Report
  <2>2. Meant(job[j].answer, job[j].token) BY <2>1 DEF TypeInv
  <2>3. Reported(j) \in Results BY <2>2 DEF Reported, Meant, Answers, Results
  <2>4. shown' \subseteq Approval BY <2>1, <2>2 DEF TypeInv, Meant
  <2>5. TypeInv => /\ job' \in [Job -> JobRecord] /\ At(j, "done")'
                   /\ job'[j].class = job[j].class
                   /\ \A i \in Job \ {j} : job'[i] = job[i]
    BY <2>1, <2>3, EndShape
  <2> QED BY <1>0, <2>1, <2>4, <2>5, JobTypingFrame
<1>5. CASE GiveUp(j)
  <2>1. /\ End(j, "lost")
        /\ UNCHANGED <<ownershipVars, setup, opened, call, slots, approvals, shown, runs>>
    BY <1>5 DEF GiveUp
  <2> QED BY <1>0, <2>1, EndShape, JobTypingFrame
<1> QED BY <1>1, <1>2, <1>3, <1>4, <1>5

\* A call that is worked on holds a slot.
LEMMA HoldsASlot ==
  ASSUME TypeInv, SlotInv, NEW j \in Job, NEW p \in Process, j \in Running(p)
  PROVE  slots[p] \in Nat \ {0}
<1>1. IsFiniteSet(Running(p)) /\ slots[p] = Cardinality(Running(p))
  BY DEF SlotInv
<1>2. Cardinality(Running(p)) \in Nat /\ Cardinality(Running(p)) # 0
  BY <1>1, FS_CardinalityType, FS_EmptySet
<1> QED BY <1>1, <1>2

\* TurnAway, Admit and the handlers: the server of an owner.
LEMMA ServerKeepsTyping ==
  ASSUME AdapterAssumption, TypeInv, SlotInv, NEW j \in Job, ServerStep(j)
  PROVE  TypeInv'
<1>0. /\ job \in [Job -> JobRecord] /\ job[j].class \in Used[j] \cup {None}
      /\ call \in [Job -> CallRecord] /\ slots \in [Process -> Nat]
      /\ approvals \subseteq Approval /\ shown \subseteq Approval
      /\ runs \in [Job -> Seq(RunRecord)]
      /\ At(j, "answered") => Meant(job[j].answer, job[j].token)
      /\ Stage(j, "returning") => Meant(call[j].answer, call[j].token)
      /\ ~Stage(j, "none") => call[j].to \in Process
      /\ call[j].token \in Approval \cup {None}
      /\ None \in Approval \cup {None}
      /\ {"refused", "failed", "preview"} \subseteq Answers
  BY DEF TypeInv, Answers, CallRecord
<1>a. ASSUME NEW answer \in Answers, NEW token \in Approval \cup {None},
             Meant(answer, token), Answered(j, answer, token)
      PROVE  /\ job' \in [Job -> JobRecord]
             /\ \A i \in Job \ {j} : job'[i] = job[i]
             /\ job'[j].class = job[j].class
             /\ At(j, "answered")' => Meant(job'[j].answer, job'[j].token)
  <2>1. CASE At(j, "waiting")
    BY <1>a, <2>1, AnsweredShape DEF Meant
  <2>2. CASE ~At(j, "waiting")
    <3>1. job' = job BY <1>a, <2>2 DEF Answered
    <3> QED BY <1>0, <3>1 DEF At, Meant
  <2> QED BY <2>1, <2>2
<1>b. ASSUME UNCHANGED job
      PROVE  At(j, "answered")' => Meant(job'[j].answer, job'[j].token)
  BY <1>0, <1>b DEF At, Meant
<1>1. CASE TurnAway(j)
  <2>1. /\ Answered(j, "refused", None)
        /\ call' = [call EXCEPT ![j] = NoCall]
        /\ UNCHANGED <<ownershipVars, setup, opened, slots, approvals, shown, runs>>
    BY <1>1 DEF TurnAway
  <2>2. Meant("refused", None) BY <1>0 DEF Meant
  <2>3. ~Stage(j, "returning")' BY <2>1, ForgottenShape DEF Stage
  <2>4. /\ call' \in [Job -> CallRecord] /\ Stage(j, "none")'
        /\ \A i \in Job \ {j} : call'[i] = call[i]
    BY <2>1, ForgottenShape
  <2>5. /\ job' \in [Job -> JobRecord]
        /\ \A i \in Job \ {j} : job'[i] = job[i]
        /\ job'[j].class = job[j].class
        /\ At(j, "answered")' => Meant(job'[j].answer, job'[j].token)
    BY <1>0, <1>a, <2>1, <2>2
  <2> QED BY <1>0, <2>1, <2>3, <2>4, <2>5, TypingFrame
<1>2. CASE Admit(j)
  <2>1. /\ slots' = [slots EXCEPT ![call[j].to] = @ + 1] /\ Stage(j, "arriving")
        /\ UNCHANGED <<ownershipVars, setup, opened, job, approvals, shown, runs>>
    BY <1>2 DEF Admit
  <2>2. call[j].to \in Process BY <1>0, <2>1 DEF Stage
  <2>3. slots' \in [Process -> Nat] BY <1>0, <2>1, <2>2
  <2>4. ~Stage(j, "returning")' BY <1>2, AdmittedShape DEF Stage
  <2> QED BY <1>0, <1>2, <1>b, <2>1, <2>2, <2>3, <2>4, AdmittedShape, TypingFrame
<1>c. ASSUME NEW answer \in Answers, NEW token \in Approval \cup {None},
             Meant(answer, token), Dispatched(j, answer, token), Stage(j, "running"),
             UNCHANGED <<ownershipVars, setup, opened, job, slots, shown>>,
             approvals' \subseteq Approval, runs' \in [Job -> Seq(RunRecord)]
      PROVE  TypeInv'
  <2>1. /\ call' \in [Job -> CallRecord]
        /\ \A i \in Job \ {j} : call'[i] = call[i]
        /\ call'[j].to = call[j].to
        /\ call'[j].answer = answer /\ call'[j].token = token
    BY <1>c, DispatchedShape
  <2>2. call'[j].to \in Process BY <1>0, <1>c, <2>1 DEF Stage
  <2>3. Meant(call'[j].answer, call'[j].token) BY <1>c, <2>1
  <2> QED BY <1>0, <1>b, <1>c, <2>1, <2>2, <2>3, TypingFrame
<1>3. CASE Reject(j)
  <2>1. Meant("refused", None) BY <1>0 DEF Meant
  <2> QED BY <1>0, <1>3, <1>c, <2>1 DEF Reject
<1>4. CASE Fail(j)
  <2>1. Meant("failed", None) BY <1>0 DEF Meant
  <2> QED BY <1>0, <1>4, <1>c, <2>1 DEF Fail
<1>5. CASE HandOutPreview(j)
  <2> DEFINE token == [by |-> j, owner |-> call[j].to]
  <2>1. /\ Stage(j, "running") /\ Dispatched(j, "preview", token)
        /\ approvals' = approvals \cup {token}
        /\ UNCHANGED <<ownershipVars, setup, opened, job, slots, shown, runs>>
    BY <1>5 DEF HandOutPreview, Handling
  <2>2. call[j].to \in Process BY <1>0, <2>1 DEF Stage
  <2>3. token \in Approval BY <2>2 DEF Approval
  <2> HIDE DEF token
  <2>4. Meant("preview", token) BY <1>0, <2>3 DEF Meant
  <2>5. approvals' \subseteq Approval BY <1>0, <2>1, <2>3
  <2> QED BY <1>0, <1>c, <2>1, <2>3, <2>4, <2>5
<1>d. ASSUME NEW token \in Approval \cup {None}, Stage(j, "running"), Perform(j, token)
      PROVE  /\ \E answer \in {"result", "failed"} : Dispatched(j, answer, None)
             /\ Meant("result", None) /\ Meant("failed", None)
             /\ runs' \in [Job -> Seq(RunRecord)]
  BY <1>d, PerformShape DEF Perform, Meant, Answers
<1>6. CASE RunAtOnce(j)
  <2>1. /\ Stage(j, "running") /\ Perform(j, None)
        /\ UNCHANGED <<ownershipVars, setup, opened, job, slots, approvals, shown>>
    BY <1>6 DEF RunAtOnce, Handling
  <2> QED BY <1>0, <1>c, <1>d, <2>1 DEF Meant
<1>7. CASE RunApproved(j)
  <2>1. /\ Stage(j, "running") /\ Perform(j, call[j].token)
        /\ approvals' = approvals \ {call[j].token}
        /\ UNCHANGED <<ownershipVars, setup, opened, job, slots, shown>>
    BY <1>7 DEF RunApproved, Handling
  <2> QED BY <1>0, <1>c, <1>d, <2>1 DEF Meant
<1>8. CASE Return(j)
  <2>1. /\ Answered(j, call[j].answer, call[j].token) /\ Stage(j, "returning")
        /\ call' = [call EXCEPT ![j] = NoCall]
        /\ slots' = [slots EXCEPT ![call[j].to] = @ - 1]
        /\ UNCHANGED <<ownershipVars, setup, opened, approvals, shown, runs>>
    BY <1>8 DEF Return
  <2>2. Meant(call[j].answer, call[j].token) /\ call[j].answer \in Answers
    BY <1>0, <2>1 DEF Meant
  <2>3. ~Stage(j, "returning")' BY <2>1, ForgottenShape DEF Stage
  <2>4. /\ call' \in [Job -> CallRecord] /\ Stage(j, "none")'
        /\ \A i \in Job \ {j} : call'[i] = call[i]
    BY <2>1, ForgottenShape
  <2>5. /\ job' \in [Job -> JobRecord]
        /\ \A i \in Job \ {j} : job'[i] = job[i]
        /\ job'[j].class = job[j].class
        /\ At(j, "answered")' => Meant(job'[j].answer, job'[j].token)
    BY <1>0, <1>a, <2>1, <2>2
  <2>6. call[j].to \in Process BY <1>0, <2>1 DEF Stage
  <2>7. slots[call[j].to] \in Nat \ {0}
    BY <2>1, <2>6, HoldsASlot DEF Running, Stage
  <2>8. slots' \in [Process -> Nat] BY <1>0, <2>1, <2>6, <2>7
  <2> QED BY <1>0, <2>1, <2>3, <2>4, <2>5, <2>8, TypingFrame
<1> QED BY <1>1, <1>2, <1>3, <1>4, <1>5, <1>6, <1>7, <1>8 DEF ServerStep, Handle
\* OpenDaemon, Exit, Lapse and the owners coming and going.
LEMMA OwnersKeepTyping ==
  ASSUME TypeInv,
         \/ \E a \in Adapter : OpenDaemon(a)
         \/ \E p \in Process : Exit(p)
         \/ Lapse \/ Ownership
  PROVE  TypeInv'
<1>1. CASE \E a \in Adapter : OpenDaemon(a)
  <2>1. PICK a \in Adapter : OpenDaemon(a) BY <1>1
  <2>2. /\ opened' = [opened EXCEPT ![a] = owner] /\ owner \in Process
        /\ UNCHANGED <<ownershipVars, setup, job, call, slots, approvals, shown, runs>>
    BY <2>1 DEF OpenDaemon, TypeInv
  <2>3. opened' \in [Adapter -> Process \cup {None}] BY <2>2 DEF TypeInv
  <2> QED BY <2>2, <2>3 DEF TypeInv, ownershipVars, Stage, At
<1>2. CASE \E p \in Process : Exit(p)
  <2>1. PICK p \in Process : Exit(p) BY <1>2
  <2>2. /\ UNCHANGED <<ownershipVars, setup, opened, job, shown, runs>>
        /\ slots' = [slots EXCEPT ![p] = 0] /\ approvals' \subseteq approvals
    BY <2>1 DEF Exit
  <2>3. call' \in [Job -> CallRecord] BY <2>1, ExitShape
  <2>4. \A j \in Job : Stage(j, "none")' \/ call'[j] = call[j]
    BY <2>1, ExitShape
  <2>5. \A j \in Job : Stage(j, "none")' \/ call'[j].to \in Process
    BY <2>4 DEF TypeInv, Stage
  <2>6. \A j \in Job : Stage(j, "returning")' => Meant(call'[j].answer, call'[j].token)
    BY <2>4 DEF TypeInv, Stage
  <2>7. slots' \in [Process -> Nat] BY <2>2 DEF TypeInv
  <2> QED BY <2>2, <2>3, <2>5, <2>6, <2>7 DEF TypeInv, ownershipVars, At, Meant
<1>3. CASE Lapse
  <2>1. /\ UNCHANGED <<ownershipVars, setup, opened, job, call, slots, shown, runs>>
        /\ approvals' \subseteq approvals
    BY <1>3 DEF Lapse
  <2> QED BY <2>1 DEF TypeInv, ownershipVars, Stage, At
<1>4. CASE Ownership
  <2>1. /\ OwnershipNext
        /\ UNCHANGED <<setup, opened, job, call, slots, approvals, shown, runs>>
    BY <1>4 DEF Ownership
  <2>2. /\ owner' \in Process \cup {None} /\ credential' \in Process \cup {None}
        /\ fresh' \subseteq Process
    BY <2>1 DEF OwnershipNext, Acquire, Renounce, Publish, Withdraw, Release, TypeInv
  <2> QED BY <2>1, <2>2 DEF TypeInv, Stage, At
<1> QED BY <1>1, <1>2, <1>3, <1>4
----------------------------------------------------------------------------
(* Slots.                                                                  *)

\* A step that takes no slot and gives none back.
LEMMA SlotFrame ==
  ASSUME SlotInv, UNCHANGED slots, \A p \in Process : Running(p)' = Running(p)
  PROVE  SlotInv'
<1> SUFFICES ASSUME NEW p \in Process
             PROVE  /\ IsFiniteSet(Running(p)') /\ slots'[p] = Cardinality(Running(p)')
                    /\ slots'[p] <= Slots
  BY DEF SlotInv
<1> QED BY DEF SlotInv

\* The same, of a step with one call.
LEMMA OneCallSlotFrame ==
  ASSUME SlotInv, UNCHANGED slots, NEW j \in Job,
         \A i \in Job \ {j} : call'[i] = call[i],
         \A p \in Process : j \in Running(p)' <=> j \in Running(p)
  PROVE  SlotInv'
<1>1. ASSUME NEW p \in Process PROVE Running(p)' = Running(p)
  <2>1. \A i \in Job \ {j} : i \in Running(p)' <=> i \in Running(p)
    BY DEF Running
  <2>2. \A i : i \in Running(p)' <=> i \in Running(p)
    BY <1>1, <2>1 DEF Running
  <2> QED BY <2>2
<1> QED BY <1>1, SlotFrame

\* Dial: the call that is replaced by a new one took no slot.
LEMMA DialKeepsSlots ==
  ASSUME AdapterAssumption, TypeInv, ProgressInv, SlotInv, NEW j \in Job, Dial(j)
  PROVE  SlotInv'
<1>1. UNCHANGED slots /\ At(j, "dial") BY DEF Dial
<1>2. Stage(j, "none") BY <1>1 DEF ProgressInv, Progress, At
<1>3. CASE UNCHANGED call
  BY <1>1, <1>3, SlotFrame DEF Running
<1>4. CASE ~UNCHANGED call
  <2>1. Stage(j, "arriving")' /\ \A i \in Job \ {j} : call'[i] = call[i]
    BY <1>4, DialledShape
  <2>2. \A p \in Process : j \in Running(p)' <=> j \in Running(p)
    BY <1>2, <2>1 DEF Running, Stage
  <2> QED BY <1>1, <2>1, <2>2, OneCallSlotFrame
<1> QED BY <1>3, <1>4

\* Admit: one slot more is taken, and there was one.
LEMMA AdmitKeepsSlots ==
  ASSUME AdapterAssumption, TypeInv, SlotInv, NEW j \in Job, Admit(j)
  PROVE  SlotInv'
<1>2. PICK q \in Process : q = call[j].to BY DEF TypeInv, Admit, Stage
<1>1. /\ Stage(j, "arriving") /\ slots[q] < Slots
      /\ slots' = [slots EXCEPT ![q] = @ + 1]
  BY <1>2 DEF Admit, Welcome
<1>3. /\ \A i \in Job \ {j} : call'[i] = call[i]
      /\ Stage(j, "running")' /\ call'[j].to = q
  BY <1>2, AdmittedShape
<1>4. j \notin Running(q) BY <1>1 DEF Running, Stage
<1>5. \A p \in Process : p = q => Running(p)' = Running(p) \cup {j}
  BY <1>3 DEF Running, Stage
<1>6. \A p \in Process \ {q} : Running(p)' = Running(p)
  BY <1>1, <1>2, <1>3 DEF Running, Stage
<1>7. slots \in [Process -> Nat] /\ Slots \in Nat
  BY DEF TypeInv, AdapterAssumption
<1> SUFFICES ASSUME NEW p \in Process
             PROVE  /\ IsFiniteSet(Running(p)') /\ slots'[p] = Cardinality(Running(p)')
                    /\ slots'[p] <= Slots
  BY DEF SlotInv
<1>8. CASE p = q
  <2>1. IsFiniteSet(Running(q)) /\ slots[q] = Cardinality(Running(q))
    BY <1>2 DEF SlotInv
  <2>2. /\ IsFiniteSet(Running(q) \cup {j})
        /\ Cardinality(Running(q) \cup {j}) = Cardinality(Running(q)) + 1
    BY <1>4, <2>1, FS_AddElement
  <2>3. slots'[q] = slots[q] + 1 /\ slots[q] \in Nat BY <1>1, <1>2, <1>7
  <2>4. slots'[q] <= Slots BY <1>1, <1>7, <2>3
  <2> QED BY <1>5, <1>8, <2>1, <2>2, <2>3, <2>4
<1>9. CASE p # q
  <2>1. slots'[p] = slots[p] BY <1>1, <1>7, <1>9
  <2> QED BY <1>6, <1>9, <2>1 DEF SlotInv
<1> QED BY <1>8, <1>9

\* Return: the slot of the call is given back, whoever waits for the answer.
LEMMA ReturnKeepsSlots ==
  ASSUME AdapterAssumption, TypeInv, SlotInv, NEW j \in Job, Return(j)
  PROVE  SlotInv'
<1>2. PICK q \in Process : q = call[j].to BY DEF TypeInv, Return, Stage
<1>1. /\ Stage(j, "returning") /\ call' = [call EXCEPT ![j] = NoCall]
      /\ slots' = [slots EXCEPT ![q] = @ - 1]
  BY <1>2 DEF Return
<1>3. Stage(j, "none")' /\ \A i \in Job \ {j} : call'[i] = call[i]
  BY <1>1, ForgottenShape
<1>4. j \in Running(q) BY <1>1, <1>2 DEF Running, Stage
<1>5. \A p \in Process : p = q => Running(p)' = Running(p) \ {j}
  BY <1>3 DEF Running, Stage
<1>6. \A p \in Process \ {q} : Running(p)' = Running(p)
  BY <1>1, <1>2, <1>3 DEF Running, Stage
<1>7. slots \in [Process -> Nat] /\ Slots \in Nat
  BY DEF TypeInv, AdapterAssumption
<1> SUFFICES ASSUME NEW p \in Process
             PROVE  /\ IsFiniteSet(Running(p)') /\ slots'[p] = Cardinality(Running(p)')
                    /\ slots'[p] <= Slots
  BY DEF SlotInv
<1>8. CASE p = q
  <2>1. /\ IsFiniteSet(Running(q)) /\ slots[q] = Cardinality(Running(q))
        /\ slots[q] <= Slots
    BY <1>2 DEF SlotInv
  <2>2. /\ IsFiniteSet(Running(q) \ {j})
        /\ Cardinality(Running(q) \ {j}) = Cardinality(Running(q)) - 1
    BY <1>4, <2>1, FS_RemoveElement
  <2>3. slots'[q] = slots[q] - 1 /\ slots[q] \in Nat BY <1>1, <1>2, <1>7
  <2>4. slots'[q] <= Slots BY <1>7, <2>1, <2>3
  <2> QED BY <1>5, <1>8, <2>1, <2>2, <2>3, <2>4
<1>9. CASE p # q
  <2>1. slots'[p] = slots[p] BY <1>1, <1>7, <1>9
  <2> QED BY <1>6, <1>9, <2>1 DEF SlotInv
<1> QED BY <1>8, <1>9

\* Exit: the slots of the process go with its calls, and no other.
LEMMA ExitKeepsSlots ==
  ASSUME AdapterAssumption, TypeInv, SlotInv, NEW q \in Process, Exit(q)
  PROVE  SlotInv'
<1>1. slots' = [slots EXCEPT ![q] = 0] BY DEF Exit
<1>2. \A p \in Process : p = q => Running(p)' = {}
  BY ExitShape DEF Running, Stage
<1>3. \A p \in Process \ {q} : Running(p)' = Running(p)
  BY ExitShape DEF Running, Stage
<1>4. slots \in [Process -> Nat] /\ Slots \in Nat
  BY DEF TypeInv, AdapterAssumption
<1> SUFFICES ASSUME NEW p \in Process
             PROVE  /\ IsFiniteSet(Running(p)') /\ slots'[p] = Cardinality(Running(p)')
                    /\ slots'[p] <= Slots
  BY DEF SlotInv
<1>5. CASE p = q
  <2>1. slots'[p] = 0 BY <1>1, <1>4, <1>5
  <2>2. Running(p)' = {} BY <1>2, <1>5
  <2>3. IsFiniteSet(Running(p)') /\ Cardinality(Running(p)') = 0
    BY <2>2, FS_EmptySet
  <2>4. 0 <= Slots BY DEF AdapterAssumption
  <2> QED BY <2>1, <2>3, <2>4
<1>6. CASE p # q
  <2>1. slots'[p] = slots[p] BY <1>1, <1>4, <1>6
  <2> QED BY <1>3, <1>6, <2>1 DEF SlotInv
<1> QED BY <1>5, <1>6

\* A handler answers its call in the slot it has.
LEMMA DispatchKeepsSlots ==
  ASSUME TypeInv, SlotInv, NEW j \in Job, Stage(j, "running"),
         NEW answer \in Answers, NEW token \in Approval \cup {None},
         Dispatched(j, answer, token), UNCHANGED slots
  PROVE  SlotInv'
<1>1. /\ Stage(j, "returning")' /\ call'[j].to = call[j].to
      /\ \A i \in Job \ {j} : call'[i] = call[i]
  BY DispatchedShape
<1>2. \A p \in Process : j \in Running(p)' <=> j \in Running(p)
  BY <1>1 DEF Running, Stage
<1> QED BY <1>1, <1>2, OneCallSlotFrame

\* Reject, RunAtOnce, HandOutPreview, RunApproved and Fail answer in their slot.
LEMMA HandlersKeepSlots ==
  ASSUME TypeInv, SlotInv, NEW j \in Job,
         Reject(j) \/ RunAtOnce(j) \/ HandOutPreview(j) \/ RunApproved(j) \/ Fail(j)
  PROVE  SlotInv'
<1>1. Stage(j, "running") /\ UNCHANGED slots
  BY DEF Reject, RunAtOnce, HandOutPreview, RunApproved, Fail, Handling
<1>2. \E answer \in Answers : \E token \in Approval \cup {None} :
        Dispatched(j, answer, token)
  <2>1. {"refused", "failed", "preview", "result"} \subseteq Answers
    BY DEF Answers
  <2>2. [by |-> j, owner |-> call[j].to] \in Approval
    BY <1>1 DEF Approval, TypeInv, Stage
  <2> QED
    BY <2>1, <2>2 DEF Reject, RunAtOnce, HandOutPreview, RunApproved, Fail, Perform
<1> QED BY <1>1, <1>2, DispatchKeepsSlots

\* Every slot that is taken is taken by a call that is worked on.
LEMMA SlotInvariant ==
  ASSUME AdapterAssumption, TypeInv, ProgressInv, SlotInv, Next
  PROVE  SlotInv'
<1>1. ASSUME UNCHANGED <<call, slots>> PROVE SlotInv'
  BY <1>1, SlotFrame DEF Running
<1>2. ASSUME NEW j \in Job, TurnAway(j) PROVE SlotInv'
  <2>1. /\ Stage(j, "arriving") /\ UNCHANGED slots
        /\ Stage(j, "none")' /\ \A i \in Job \ {j} : call'[i] = call[i]
    BY <1>2, ForgottenShape DEF TurnAway
  <2>2. \A p \in Process : j \in Running(p)' <=> j \in Running(p)
    BY <2>1 DEF Running, Stage
  <2> QED BY <2>1, <2>2, OneCallSlotFrame
<1>3. ASSUME NEW j \in Job, RunCommand(j) \/ CallTool(j) PROVE UNCHANGED <<call, slots>>
  BY <1>3, BeginLocals DEF Begin
<1>4. ASSUME NEW j \in Job, ShowReview(j) \/ Report(j) \/ GiveUp(j) \/ Broken(j)
      PROVE  UNCHANGED <<call, slots>>
  BY <1>4 DEF ShowReview, Report, GiveUp, Broken
<1>5. ASSUME (\E a \in Adapter : OpenDaemon(a)) \/ Lapse \/ Ownership
      PROVE  UNCHANGED <<call, slots>>
  BY <1>5 DEF OpenDaemon, Lapse, Ownership
<1> QED
  BY <1>1, <1>2, <1>3, <1>4, <1>5, DialKeepsSlots, AdmitKeepsSlots, ReturnKeepsSlots,
     ExitKeepsSlots, HandlersKeepSlots
  DEF Next, JobStep, ServerStep, Handle
----------------------------------------------------------------------------
(* Reports.                                                                *)

\* What ReportIsTrue says of one job, and how far the job is.
Honest(j) ==
  /\ Progress(j)
  /\ Len(runs[j]) <= 1
  /\ job[j].result = "success" => runs[j] # <<>>
  /\ job[j].result \in {"preview", "refused"} => runs[j] = <<>>

\* The invariant says of every job what ReportIsTrue says of all.
LEMMA HonestyIsReport == ProgressInv /\ ReportIsTrue <=> \A j \in Job : Honest(j)
BY DEF ProgressInv, ReportIsTrue, Honest

\* A job that a step leaves alone.
LEMMA HonestFrame ==
  ASSUME NEW j \in Job, Honest(j),
         job'[j] = job[j], call'[j] = call[j], runs'[j] = runs[j]
  PROVE  Honest(j)'
BY DEF Honest, Progress, AnswerTells, At, Stage

\* End: what a job reports when it ends.
LEMMA EndIsHonest ==
  ASSUME AdapterAssumption, TypeInv, NEW j \in Job, Honest(j),
         NEW result \in Results, End(j, result), UNCHANGED <<call, runs>>,
         result \in {"success", "preview", "refused"} => Stage(j, "none"),
         result = "success" => runs[j] # <<>>,
         result \in {"preview", "refused"} => runs[j] = <<>>
  PROVE  Honest(j)'
<1>1. At(j, "done")' /\ job'[j].result = result BY EndShape
<1>2. result # None BY DEF AdapterAssumption
<1> QED BY <1>1, <1>2 DEF Honest, Progress, AnswerTells, At, Stage

\* LoadCredential: a job that makes a call, with nothing done so far.
LEMMA CallIsHonest ==
  ASSUME AdapterAssumption, TypeInv, NEW j \in Job, Honest(j),
         NEW locals \in JobRecord, locals.result = None, LoadCredential(j, locals),
         UNCHANGED <<call, runs>>, Stage(j, "none"), runs[j] = <<>>
  PROVE  Honest(j)'
<1>1. CASE End(j, "refused")
  <2>1. "refused" \in Results BY DEF Results
  <2> QED BY <1>1, <2>1, EndIsHonest
<1>2. CASE ~End(j, "refused")
  <2>1. At(j, "dial")' /\ job'[j].result = None BY <1>2, DialShape
  <2>2. None \notin Results BY DEF AdapterAssumption
  <2>3. job'[j].result \notin {"success", "preview", "refused"}
    BY <2>1, <2>2 DEF Results
  <2> QED BY <2>1, <2>3 DEF Honest, Progress, AnswerTells, At, Stage
<1> QED BY <1>1, <1>2

\* Report: what is said of the answer is what the answer says of the mailbox.
LEMMA ReportIsHonest ==
  ASSUME AdapterAssumption, TypeInv, NEW j \in Job, Honest(j), Report(j)
  PROVE  Honest(j)'
<1>1. At(j, "answered") /\ End(j, Reported(j)) /\ UNCHANGED <<call, runs>>
  BY DEF Report
<1>2. Stage(j, "none") /\ AnswerTells(job[j].answer, runs[j])
  BY <1>1 DEF Honest, Progress
<1>4. job[j].answer \in Answers
  BY <1>1 DEF TypeInv, Meant
<1>3. /\ Reported(j) \in Results
      /\ Reported(j) = "success" => runs[j] # <<>>
      /\ Reported(j) \in {"preview", "refused"} => runs[j] = <<>>
  BY <1>2, <1>4 DEF Reported, AnswerTells, Answers, Results
<1> QED BY <1>1, <1>2, <1>3, EndIsHonest

\* ShowReview: nothing has run when a preview is committed.
LEMMA ReviewIsHonest ==
  ASSUME AdapterAssumption, TypeInv, NEW j \in Job, Honest(j), ShowReview(j)
  PROVE  Honest(j)'
<1> DEFINE locals == [job[j] EXCEPT !.method = "commit", !.answer = None]
<1>1. /\ LoadCredential(j, locals) /\ UNCHANGED <<call, runs>>
      /\ At(j, "answered") /\ job[j].answer = "preview"
  BY DEF ShowReview, Commit, Reviews
<1>2. Stage(j, "none") /\ runs[j] = <<>>
  BY <1>1 DEF Honest, Progress, AnswerTells
<1>3. job[j].result = None BY <1>1 DEF Honest, Progress, At
<1>4. locals \in JobRecord /\ locals.result = None
  <2>1. job[j] \in JobRecord BY DEF TypeInv
  <2>2. locals \in JobRecord BY <2>1 DEF JobRecord
  <2>3. locals.result = job[j].result BY <2>1 DEF JobRecord
  <2> QED BY <1>3, <2>2, <2>3
<1> HIDE DEF locals
<1> QED BY <1>1, <1>2, <1>4, CallIsHonest

\* Dial.
LEMMA DialIsHonest ==
  ASSUME AdapterAssumption, TypeInv, NEW j \in Job, Honest(j), Dial(j)
  PROVE  Honest(j)'
<1>1. At(j, "dial") /\ UNCHANGED runs BY DEF Dial
<1>2. Stage(j, "none") /\ runs[j] = <<>> /\ job[j].result = None
  BY <1>1 DEF Honest, Progress, At
<1>3. CASE End(j, "refused") /\ UNCHANGED call
  <2>1. "refused" \in Results BY DEF Results
  <2> QED BY <1>1, <1>2, <1>3, <2>1, EndIsHonest
<1>4. CASE ~(End(j, "refused") /\ UNCHANGED call)
  <2>1. At(j, "waiting")' /\ job'[j].result = None /\ Stage(j, "arriving")'
    BY <1>2, <1>4, DialledShape
  <2>2. None \notin Results BY DEF AdapterAssumption
  <2>3. job'[j].result \notin {"success", "preview", "refused"}
    BY <2>1, <2>2 DEF Results
  <2> QED BY <1>1, <1>2, <2>1, <2>3 DEF Honest, Progress, AnswerTells, At, Stage
<1> QED BY <1>3, <1>4

\* Answered: an answer that tells what the owner did, to whoever waits for it.
LEMMA AnswerIsHonest ==
  ASSUME AdapterAssumption, TypeInv, NEW j \in Job, Honest(j),
         NEW answer \in Answers, NEW token \in Approval \cup {None},
         Answered(j, answer, token), call' = [call EXCEPT ![j] = NoCall],
         UNCHANGED runs, ~Stage(j, "none"), AnswerTells(answer, runs[j])
  PROVE  Honest(j)'
<1>1. Stage(j, "none")' BY ForgottenShape
<1>2. job'[j].result = job[j].result BY AnsweredShape
<1>3. CASE At(j, "waiting")
  <2>1. At(j, "answered")' /\ job'[j].answer = answer BY <1>3, AnsweredShape
  <2> QED BY <1>1, <1>2, <1>3, <2>1 DEF Honest, Progress, AnswerTells, At, Stage
<1>4. CASE ~At(j, "waiting")
  <2>1. job'[j] = job[j] BY <1>4, AnsweredShape
  <2>2. ~At(j, "answered") BY DEF Honest, Progress
  <2> QED BY <1>1, <1>2, <2>1, <2>2 DEF Honest, Progress, AnswerTells, At, Stage
<1> QED BY <1>3, <1>4

\* Admit.
LEMMA AdmitIsHonest ==
  ASSUME AdapterAssumption, TypeInv, NEW j \in Job, Honest(j), Admit(j)
  PROVE  Honest(j)'
<1>1. Stage(j, "arriving") /\ UNCHANGED <<job, runs>> BY DEF Admit
<1>2. Stage(j, "running")' BY AdmittedShape
<1> QED BY <1>1, <1>2 DEF Honest, Progress, AnswerTells, At, Stage

\* A handler that has not run the operation says so.
LEMMA RefusalIsHonest ==
  ASSUME AdapterAssumption, TypeInv, NEW j \in Job, Honest(j), Stage(j, "running"),
         NEW answer \in Answers \ {"result"}, NEW token \in Approval \cup {None},
         Dispatched(j, answer, token), UNCHANGED <<job, runs>>
  PROVE  Honest(j)'
<1>1. Stage(j, "returning")' /\ call'[j].answer = answer
  BY DispatchedShape
<1> QED BY <1>1 DEF Honest, Progress, AnswerTells, At, Stage

\* Perform: the operation runs for the first time, and nobody denies it.
LEMMA ExecutionIsHonest ==
  ASSUME AdapterAssumption, TypeInv, NEW j \in Job, Honest(j), Stage(j, "running"),
         NEW token \in Approval \cup {None}, Perform(j, token), UNCHANGED job
  PROVE  Honest(j)'
<1> DEFINE run == [at |-> call[j].to, token |-> token]
<1>1. /\ Stage(j, "returning")' /\ call'[j].answer \in {"result", "failed"}
      /\ runs'[j] = Append(runs[j], run)
  BY PerformShape
<1>2. runs[j] = <<>> BY DEF Honest, Progress, Stage
<1> HIDE DEF run
<1>3. Len(runs'[j]) = 1 /\ runs'[j] # <<>> BY <1>1, <1>2
<1>4. job[j].result \notin {"success", "preview", "refused"}
  BY DEF Honest, Progress, Stage
<1>5. ~At(j, "answered") /\ job[j].at \notin {"idle", "dial"}
  BY DEF Honest, Progress, Stage
<1> QED BY <1>1, <1>3, <1>4, <1>5 DEF Honest, Progress, AnswerTells, At, Stage
\* Exit: a call that breaks off leaves what has run as it is.
LEMMA ExitIsHonest ==
  ASSUME AdapterAssumption, TypeInv, NEW p \in Process, Exit(p),
         NEW j \in Job, Honest(j)
  PROVE  Honest(j)'
<1>1. job'[j] = job[j] /\ runs'[j] = runs[j] BY DEF Exit
<1>2. CASE call'[j] = call[j] BY <1>1, <1>2, HonestFrame
<1>3. CASE call'[j] # call[j]
  <2>1. Stage(j, "none")' BY <1>3, ExitShape
  <2> QED BY <1>1, <2>1 DEF Honest, Progress, AnswerTells, At, Stage
<1> QED BY <1>2, <1>3

\* What a step of one job or of one call leaves of the others.
LEMMA OneJobAtATime ==
  ASSUME AdapterAssumption, TypeInv, NEW j \in Job,
         \/ RunCommand(j) \/ CallTool(j) \/ JobStep(j) \/ GiveUp(j) \/ ServerStep(j)
  PROVE  \A i \in Job \ {j} : job'[i] = job[i] /\ call'[i] = call[i] /\ runs'[i] = runs[i]
<1>0. {"refused", "lost", "failed"} \subseteq Results BY DEF Results
<1>1. CASE RunCommand(j) \/ CallTool(j)
  BY <1>1, BeginLocals, DialShape DEF Begin
<1>2. CASE Dial(j)
  <2>1. UNCHANGED runs BY <1>2 DEF Dial
  <2> QED BY <1>0, <1>2, <2>1, DialledShape, EndShape
<1>3. CASE ShowReview(j)
  <2>1. [job[j] EXCEPT !.method = "commit", !.answer = None] \in JobRecord
    <3>1. job[j] \in JobRecord BY DEF TypeInv
    <3> QED BY <3>1 DEF JobRecord
  <2> QED BY <1>3, <2>1, DialShape DEF ShowReview, Commit
<1>4. CASE Report(j)
  BY <1>4 DEF Report, End, TypeInv
<1>5. CASE GiveUp(j) \/ Broken(j)
  BY <1>5 DEF Broken, GiveUp, End, TypeInv
<1>6. CASE TurnAway(j) \/ Return(j)
  BY <1>6 DEF TurnAway, Return, Answered, TypeInv
<1>7. CASE Admit(j)
  BY <1>7 DEF Admit, TypeInv
<1>8. CASE Reject(j) \/ HandOutPreview(j) \/ Fail(j)
  BY <1>8 DEF Reject, HandOutPreview, Fail, Dispatched, TypeInv
<1>9. CASE RunAtOnce(j) \/ RunApproved(j)
  BY <1>9 DEF RunAtOnce, RunApproved, Perform, Dispatched, TypeInv
<1> QED
  BY <1>1, <1>2, <1>3, <1>4, <1>5, <1>6, <1>7, <1>8, <1>9
  DEF JobStep, ServerStep, Handle

\* What is reported is true, step by step.
LEMMA HonestStep ==
  ASSUME AdapterAssumption, TypeInv, NEW j \in Job, Honest(j),
         \/ RunCommand(j) \/ CallTool(j) \/ JobStep(j) \/ GiveUp(j) \/ ServerStep(j)
  PROVE  Honest(j)'
<1>0. /\ {"refused", "lost", "failed", "preview"} \subseteq Results
      /\ {"refused", "failed", "preview"} \subseteq Answers \ {"result"}
      /\ None \in Approval \cup {None}
      /\ call[j].token \in Approval \cup {None}
  BY DEF Results, Answers, TypeInv, CallRecord
<1>1. CASE RunCommand(j) \/ CallTool(j)
  <2>1. PICK locals \in JobRecord : Begin(j, locals) /\ locals.result = None
    BY <1>1, BeginLocals
  <2>2. /\ LoadCredential(j, locals) /\ UNCHANGED <<call, runs>>
        /\ Stage(j, "none") /\ runs[j] = <<>>
    BY <2>1 DEF Begin, Honest, Progress, At
  <2> QED BY <2>1, <2>2, CallIsHonest
<1>2. CASE GiveUp(j) \/ Broken(j)
  <2>1. End(j, "lost") /\ UNCHANGED <<call, runs>> BY <1>2 DEF GiveUp, Broken
  <2> QED BY <1>0, <2>1, EndIsHonest
<1>3. CASE TurnAway(j)
  <2>1. /\ Answered(j, "refused", None) /\ call' = [call EXCEPT ![j] = NoCall]
        /\ UNCHANGED runs /\ Stage(j, "arriving")
    BY <1>3 DEF TurnAway
  <2>2. AnswerTells("refused", runs[j]) /\ ~Stage(j, "none")
    BY <2>1 DEF AnswerTells, Honest, Progress, Stage
  <2> QED BY <1>0, <2>1, <2>2, AnswerIsHonest
<1>4. CASE Return(j)
  <2>1. /\ Answered(j, call[j].answer, call[j].token)
        /\ call' = [call EXCEPT ![j] = NoCall]
        /\ UNCHANGED runs /\ Stage(j, "returning")
    BY <1>4 DEF Return
  <2>2. call[j].answer \in Answers BY <2>1 DEF TypeInv, Meant
  <2>3. AnswerTells(call[j].answer, runs[j]) /\ ~Stage(j, "none")
    BY <2>1 DEF Honest, Progress, Stage
  <2> QED BY <1>0, <2>1, <2>2, <2>3, AnswerIsHonest
<1>5. CASE Reject(j) \/ Fail(j) \/ HandOutPreview(j)
  <2>1. Stage(j, "running") /\ UNCHANGED <<job, runs>>
    BY <1>5 DEF Reject, Fail, HandOutPreview, Handling
  <2>2. [by |-> j, owner |-> call[j].to] \in Approval
    BY <2>1 DEF TypeInv, Stage, Approval
  <2> QED
    BY <1>0, <1>5, <2>1, <2>2, RefusalIsHonest DEF Reject, Fail, HandOutPreview
<1>6. CASE RunAtOnce(j) \/ RunApproved(j)
  <2>1. Stage(j, "running") /\ UNCHANGED job
    BY <1>6 DEF RunAtOnce, RunApproved, Handling
  <2> QED
    BY <1>0, <1>6, <2>1, ExecutionIsHonest DEF RunAtOnce, RunApproved
<1> QED
  BY <1>1, <1>2, <1>3, <1>4, <1>5, <1>6, DialIsHonest, ReviewIsHonest,
     ReportIsHonest, AdmitIsHonest
  DEF JobStep, ServerStep, Handle

\* Every step keeps every report true.
LEMMA HonestInvariant ==
  ASSUME AdapterAssumption, TypeInv, \A j \in Job : Honest(j), Next
  PROVE  \A j \in Job : Honest(j)'
<1> TAKE j \in Job
<1>1. CASE \E i \in Job : RunCommand(i) \/ CallTool(i) \/ JobStep(i) \/ GiveUp(i)
                         \/ ServerStep(i)
  <2>1. PICK i \in Job : RunCommand(i) \/ CallTool(i) \/ JobStep(i) \/ GiveUp(i)
                         \/ ServerStep(i)
    BY <1>1
  <2>2. CASE i = j BY <2>1, <2>2, HonestStep
  <2>3. CASE i # j BY <2>1, <2>3, OneJobAtATime, HonestFrame
  <2> QED BY <2>2, <2>3
<1>2. CASE \E p \in Process : Exit(p) BY <1>2, ExitIsHonest
<1>3. CASE (\E a \in Adapter : OpenDaemon(a)) \/ Lapse \/ Ownership
  <2>1. UNCHANGED <<job, call, runs>> BY <1>3 DEF OpenDaemon, Lapse, Ownership
  <2> QED BY <2>1, HonestFrame
<1> QED BY <1>1, <1>2, <1>3 DEF Next
----------------------------------------------------------------------------
(* Reviews.                                                                *)

\* openDaemon: the owner it vouches for has the build and the digest.
LEMMA OpenedInvariant ==
  ASSUME TypeInv, OpenedInv, Next
  PROVE  OpenedInv'
<1>1. ASSUME UNCHANGED <<opened, setup>> PROVE OpenedInv'
  BY <1>1 DEF OpenedInv
<1>2. ASSUME NEW a \in Adapter, OpenDaemon(a) PROVE OpenedInv'
  BY <1>2 DEF OpenedInv, OpenDaemon, TypeInv
<1>3. ASSUME NEW j \in Job, RunCommand(j) \/ CallTool(j)
      PROVE  UNCHANGED <<opened, setup>>
  BY <1>3 DEF RunCommand, CallTool, Begin
<1>4. ASSUME NEW j \in Job, JobStep(j) \/ GiveUp(j) PROVE UNCHANGED <<opened, setup>>
  BY <1>4 DEF JobStep, Dial, ShowReview, Report, Broken, GiveUp
<1>5. ASSUME NEW j \in Job, ServerStep(j) PROVE UNCHANGED <<opened, setup>>
  BY <1>5 DEF ServerStep, TurnAway, Admit, Handle, Reject, RunAtOnce,
       HandOutPreview, RunApproved, Fail, Return
<1>6. ASSUME (\E p \in Process : Exit(p)) \/ Lapse \/ Ownership
      PROVE  UNCHANGED <<opened, setup>>
  BY <1>6 DEF Exit, Lapse, Ownership
<1> QED BY <1>1, <1>2, <1>3, <1>4, <1>5, <1>6 DEF Next

\* A review that was shown has been shown, and nobody is started anew.
LEMMA ShownGrows ==
  ASSUME Next
  PROVE  shown \subseteq shown' /\ UNCHANGED setup
<1>1. ASSUME NEW j \in Job, RunCommand(j) \/ CallTool(j)
      PROVE  UNCHANGED <<shown, setup>>
  BY <1>1 DEF RunCommand, CallTool, Begin
<1>2. ASSUME NEW j \in Job, JobStep(j) \/ GiveUp(j)
      PROVE  shown \subseteq shown' /\ UNCHANGED setup
  BY <1>2 DEF JobStep, Dial, ShowReview, Report, Broken, GiveUp
<1>3. ASSUME NEW j \in Job, ServerStep(j) PROVE UNCHANGED <<shown, setup>>
  BY <1>3 DEF ServerStep, TurnAway, Admit, Handle, Reject, RunAtOnce,
       HandOutPreview, RunApproved, Fail, Return
<1>4. ASSUME \/ \E p \in Process : Exit(p)
             \/ \E a \in Adapter : OpenDaemon(a)
             \/ Lapse \/ Ownership
      PROVE  UNCHANGED <<shown, setup>>
  BY <1>4 DEF Exit, OpenDaemon, Lapse, Ownership
<1> QED BY <1>1, <1>2, <1>3, <1>4 DEF Next

\* What a job is about does not change once it has begun.
LEMMA ToolsAreKept ==
  ASSUME AdapterAssumption, TypeInv, Next, NEW j \in Job, ~At(j, "idle")
  PROVE  job'[j].class = job[j].class /\ ~At(j, "idle")'
<1>0. {"refused", "lost", "failed"} \subseteq Results /\ job[j] \in JobRecord
  BY DEF Results, TypeInv
<1>a. ASSUME NEW result, End(j, result)
      PROVE  job'[j].class = job[j].class /\ ~At(j, "idle")'
  <2>1. job'[j] = [IdleJob EXCEPT !.at = "done", !.class = job[j].class,
                     !.approve = job[j].approve, !.result = result]
    BY <1>a DEF End, TypeInv
  <2> QED BY <2>1 DEF IdleJob, At
<1>b. ASSUME job'[j] = job[j]
      PROVE  job'[j].class = job[j].class /\ ~At(j, "idle")'
  BY <1>b DEF At
<1>c. ASSUME NEW answer, NEW token, Answered(j, answer, token)
      PROVE  job'[j].class = job[j].class /\ ~At(j, "idle")'
  <2>1. CASE At(j, "waiting")
    <3>1. job'[j] = [job[j] EXCEPT !.at = "answered", !.answer = answer,
                       !.token = IF answer = "preview" THEN token ELSE @]
      BY <1>c, <2>1 DEF Answered, TypeInv
    <3> QED BY <1>0, <3>1 DEF JobRecord, At
  <2>2. CASE ~At(j, "waiting")
    BY <1>b, <1>c, <2>2 DEF Answered
  <2> QED BY <2>1, <2>2
<1>1. CASE \E i \in Job : RunCommand(i) \/ CallTool(i) \/ JobStep(i) \/ GiveUp(i)
                         \/ ServerStep(i)
  <2>1. PICK i \in Job : RunCommand(i) \/ CallTool(i) \/ JobStep(i) \/ GiveUp(i)
                         \/ ServerStep(i)
    BY <1>1
  <2>2. CASE i # j BY <1>b, <2>1, <2>2, OneJobAtATime
  <2>3. CASE i = j
    <3>1. ~(RunCommand(j) \/ CallTool(j)) BY BeginLocals DEF Begin
    <3>2. CASE Dial(j)
      <4>1. CASE End(j, "refused") BY <1>a, <4>1
      <4>2. CASE ~End(j, "refused") BY <3>2, <4>2, DialledShape DEF At
      <4> QED BY <4>1, <4>2
    <3>3. CASE ShowReview(j)
      <4> DEFINE locals == [job[j] EXCEPT !.method = "commit", !.answer = None]
      <4>1. locals \in JobRecord /\ locals.class = job[j].class
        BY <1>0 DEF JobRecord
      <4>2. LoadCredential(j, locals) BY <3>3 DEF ShowReview, Commit
      <4> HIDE DEF locals
      <4>3. CASE End(j, "refused") BY <1>a, <4>3
      <4>4. CASE ~End(j, "refused") BY <4>1, <4>2, <4>4, DialShape DEF At
      <4> QED BY <4>3, <4>4
    <3>4. CASE Report(j) BY <1>a, <3>4 DEF Report
    <3>5. CASE GiveUp(j) \/ Broken(j) BY <1>a, <3>5 DEF GiveUp, Broken
    <3>6. CASE TurnAway(j) \/ Return(j) BY <1>c, <3>6 DEF TurnAway, Return
    <3>7. CASE Admit(j) \/ Reject(j) \/ RunAtOnce(j) \/ HandOutPreview(j)
               \/ RunApproved(j) \/ Fail(j)
      BY <1>b, <3>7 DEF Admit, Reject, RunAtOnce, HandOutPreview, RunApproved, Fail
    <3> QED
      BY <2>1, <2>3, <3>1, <3>2, <3>3, <3>4, <3>5, <3>6, <3>7
      DEF JobStep, ServerStep, Handle
  <2> QED BY <2>2, <2>3
<1>2. CASE \/ \E p \in Process : Exit(p)
           \/ \E a \in Adapter : OpenDaemon(a)
           \/ Lapse \/ Ownership
  BY <1>2, <1>b DEF Exit, OpenDaemon, Lapse, Ownership
<1> QED BY <1>1, <1>2 DEF Next

\* A job that a step leaves alone.
LEMMA ShownFrame ==
  ASSUME NEW j \in Job, Shown(j), shown \subseteq shown',
         job'[j] = job[j], call'[j] = call[j]
  PROVE  Shown(j)'
BY DEF Shown, At

\* Only what has been shown is committed: a host hands in what a tool or a
\* command gave it, a command commits the review it has just written.
LEMMA ShownStep ==
  ASSUME AdapterAssumption, TypeInv, NEW j \in Job, Shown(j), shown \subseteq shown',
         \/ RunCommand(j) \/ CallTool(j) \/ JobStep(j) \/ GiveUp(j) \/ ServerStep(j)
  PROVE  Shown(j)'
<1>0. /\ {"refused", "lost", "failed", "preview"} \subseteq Results
      /\ {"refused", "failed", "preview"} \subseteq Answers
      /\ call[j].token \in Approval \cup {None} /\ job[j] \in JobRecord
  BY DEF Results, Answers, TypeInv, CallRecord
<1>a. ASSUME UNCHANGED call, ~At(j, "dial")' PROVE Shown(j)'
  BY <1>a DEF Shown
<1>b. ASSUME NEW locals \in JobRecord, LoadCredential(j, locals), UNCHANGED call,
             locals.method = "commit" => locals.token \in shown'
      PROVE  Shown(j)'
  <2>1. CASE End(j, "refused")
    <3>1. ~At(j, "dial")' BY <1>0, <2>1, EndShape DEF At
    <3> QED BY <1>a, <1>b, <3>1
  <2>2. CASE ~End(j, "refused")
    <3>1. job'[j].method = locals.method /\ job'[j].token = locals.token
      BY <1>b, <2>2, DialShape
    <3> QED BY <1>b, <3>1 DEF Shown
  <2> QED BY <2>1, <2>2
<1>c. ASSUME call'[j].stage \notin {"arriving", "running"},
             ~At(j, "dial")' \/ job'[j] = job[j]
      PROVE  Shown(j)'
  BY <1>c DEF Shown, At
<1>1. CASE RunCommand(j) \/ CallTool(j)
  <2>1. PICK locals \in JobRecord :
          Begin(j, locals) /\ (locals.method = "commit" => locals.token \in shown)
    BY <1>1, BeginLocals
  <2> QED BY <1>b, <2>1 DEF Begin
<1>2. CASE Dial(j)
  <2>0. At(j, "dial") BY <1>2 DEF Dial
  <2>1. CASE End(j, "refused") /\ UNCHANGED call
    <3>1. ~At(j, "dial")' BY <1>0, <2>1, EndShape DEF At
    <3> QED BY <1>a, <2>1, <3>1
  <2>2. CASE ~(End(j, "refused") /\ UNCHANGED call)
    <3>1. /\ At(j, "waiting")'
          /\ call'[j].method = job[j].method /\ call'[j].token = job[j].token
      BY <1>2, <2>2, DialledShape
    <3> QED BY <2>0, <3>1 DEF Shown, At
  <2> QED BY <2>1, <2>2
<1>3. CASE ShowReview(j)
  <2> DEFINE locals == [job[j] EXCEPT !.method = "commit", !.answer = None]
  <2>1. LoadCredential(j, locals) /\ UNCHANGED call /\ job[j].token \in shown'
    BY <1>3 DEF ShowReview, Commit
  <2>2. locals \in JobRecord /\ locals.token = job[j].token
    BY <1>0 DEF JobRecord
  <2> HIDE DEF locals
  <2> QED BY <1>b, <2>1, <2>2
<1>4. CASE Report(j) \/ GiveUp(j) \/ Broken(j)
  <2>1. UNCHANGED call /\ \E result : End(j, result)
    BY <1>4 DEF Report, GiveUp, Broken
  <2>2. PICK result : End(j, result) BY <2>1
  <2>3. job'[j] = [IdleJob EXCEPT !.at = "done", !.class = job[j].class,
                     !.approve = job[j].approve, !.result = result]
    BY <2>2 DEF End, TypeInv
  <2>4. ~At(j, "dial")' BY <2>3 DEF IdleJob, At
  <2> QED BY <1>a, <2>1, <2>4
<1>5. CASE TurnAway(j) \/ Return(j)
  <2>1. /\ call' = [call EXCEPT ![j] = NoCall]
        /\ \E answer, token : Answered(j, answer, token)
    BY <1>5 DEF TurnAway, Return
  <2>2. call'[j].stage \notin {"arriving", "running"}
    BY <2>1, ForgottenShape DEF Stage
  <2>3. PICK answer, token : Answered(j, answer, token) BY <2>1
  <2>4. CASE At(j, "waiting")
    <3>1. job'[j] = [job[j] EXCEPT !.at = "answered", !.answer = answer,
                       !.token = IF answer = "preview" THEN token ELSE @]
      BY <2>3, <2>4 DEF Answered, TypeInv
    <3>2. ~At(j, "dial")' BY <1>0, <3>1 DEF JobRecord, At
    <3> QED BY <1>c, <2>2, <3>2
  <2>5. CASE ~At(j, "waiting")
    BY <1>c, <2>2, <2>3, <2>5 DEF Answered
  <2> QED BY <2>4, <2>5
<1>6. CASE Admit(j)
  <2>1. Stage(j, "arriving") /\ UNCHANGED job BY <1>6 DEF Admit
  <2> QED BY <1>6, <2>1, AdmittedShape DEF Shown, At, Stage
<1>7. CASE Reject(j) \/ RunAtOnce(j) \/ HandOutPreview(j) \/ RunApproved(j) \/ Fail(j)
  <2>1. UNCHANGED job /\ \E answer, token : Dispatched(j, answer, token)
    BY <1>7 DEF Reject, RunAtOnce, HandOutPreview, RunApproved, Fail, Perform
  <2>2. PICK answer, token : Dispatched(j, answer, token) BY <2>1
  <2>3. call'[j] = [call[j] EXCEPT !.stage = "returning", !.answer = answer,
                                   !.token = token]
    BY <2>2 DEF Dispatched, TypeInv
  <2>4. call[j] \in CallRecord BY DEF TypeInv
  <2>5. call'[j].stage = "returning" BY <2>3, <2>4 DEF CallRecord
  <2> QED BY <1>c, <2>1, <2>5
<1> QED BY <1>1, <1>2, <1>3, <1>4, <1>5, <1>6, <1>7 DEF JobStep, ServerStep, Handle
\* An approval is asked for by a job that has begun.
LEMMA ApprovalsAreOfBegun ==
  ASSUME AdapterAssumption, TypeInv, ProgressInv, Next,
         \A t \in approvals : ~At(t.by, "idle")
  PROVE  \A t \in approvals' : ~At(t.by, "idle")'
<1>1. ASSUME NEW t \in approvals PROVE ~At(t.by, "idle")'
  <2>1. t.by \in Job BY DEF TypeInv, Approval
  <2> QED BY <2>1, ToolsAreKept
<1>2. ASSUME approvals' \subseteq approvals PROVE \A t \in approvals' : ~At(t.by, "idle")'
  BY <1>1, <1>2
<1>3. ASSUME NEW j \in Job, HandOutPreview(j)
      PROVE  \A t \in approvals' : ~At(t.by, "idle")'
  <2>1. approvals' = approvals \cup {[by |-> j, owner |-> call[j].to]}
    BY <1>3 DEF HandOutPreview
  <2>2. Stage(j, "running") BY <1>3 DEF HandOutPreview, Handling
  <2>3. ~At(j, "idle") BY <2>2 DEF ProgressInv, Progress, At, Stage
  <2>4. ~At(j, "idle")' BY <2>3, ToolsAreKept
  <2> QED BY <1>1, <2>1, <2>4
<1>4. ASSUME NEW j \in Job, RunCommand(j) \/ CallTool(j) \/ JobStep(j) \/ GiveUp(j)
      PROVE  approvals' \subseteq approvals
  BY <1>4 DEF RunCommand, CallTool, Begin, JobStep, Dial, ShowReview, Report, Broken,
       GiveUp
<1>5. ASSUME NEW j \in Job, ServerStep(j), ~HandOutPreview(j)
      PROVE  approvals' \subseteq approvals
  BY <1>5 DEF ServerStep, TurnAway, Admit, Handle, Reject, RunAtOnce, RunApproved,
       Fail, Return
<1>6. ASSUME \/ \E p \in Process : Exit(p)
             \/ \E a \in Adapter : OpenDaemon(a)
             \/ Lapse \/ Ownership
      PROVE  approvals' \subseteq approvals
  BY <1>6 DEF Exit, OpenDaemon, Lapse, Ownership
<1> QED BY <1>2, <1>3, <1>4, <1>5, <1>6 DEF Next

\* An execution stays what it was: the tools of its jobs do not change.
LEMMA RunStaysFine ==
  ASSUME AdapterAssumption, TypeInv, Next, NEW j \in Job, ~At(j, "idle"),
         NEW r \in RunRecord, RunFine(j, r)
  PROVE  RunFine(j, r)'
<1>1. job'[j].class = job[j].class BY ToolsAreKept
<1>2. setup' = setup /\ shown \subseteq shown' BY ShownGrows
<1>3. CASE r.token = None
  BY <1>1, <1>2, <1>3 DEF RunFine, Allowed, Caller
<1>4. CASE r.token # None
  <2>1. r.token.by \in Job BY <1>4 DEF RunRecord, Approval
  <2>2. ~At(r.token.by, "idle") BY <1>4 DEF RunFine
  <2>3. job'[r.token.by].class = job[r.token.by].class /\ ~At(r.token.by, "idle")'
    BY <2>1, <2>2, ToolsAreKept
  <2> QED BY <1>1, <1>2, <1>4, <2>3 DEF RunFine, Caller
<1> QED BY <1>3, <1>4

\* Perform: what runs is allowed here, or was reviewed.
LEMMA WhatRunsIsFine ==
  ASSUME AdapterAssumption, TypeInv, ReviewInv, NEW j \in Job,
         RunAtOnce(j) \/ RunApproved(j)
  PROVE  \E r \in RunRecord : runs'[j] = Append(runs[j], r) /\ RunFine(j, r)'
<1>0. call[j].to \in Process /\ UNCHANGED <<setup, job, shown>>
  BY DEF RunAtOnce, RunApproved, Handling, TypeInv, Stage
<1>1. CASE RunAtOnce(j)
  <2> DEFINE r == [at |-> call[j].to, token |-> None]
  <2>1. /\ Stage(j, "running") /\ SameProtocol(j) /\ Perform(j, None)
        /\ RunsOn(job[j].class, Verdict(j))
    BY <1>1 DEF RunAtOnce, Handling
  <2>2. runs'[j] = Append(runs[j], r) BY <2>1, PerformShape
  <2>3. r \in RunRecord BY <1>0 DEF RunRecord
  <2>4. Allowed(job[j].class, call[j].to) BY <2>1 DEF Verdict, Allowed
  <2>5. setup[call[j].to].protocol = setup[Caller(j)].protocol
    BY <2>1 DEF SameProtocol
  <2>6. PICK q \in Process : q = call[j].to BY <1>0
  <2>7. RunFine(j, [at |-> q, token |-> None])'
    BY <1>0, <2>4, <2>5, <2>6 DEF RunFine, Allowed, Caller
  <2> QED BY <2>2, <2>3, <2>6, <2>7
<1>2. CASE RunApproved(j)
  <2>1. /\ Stage(j, "running") /\ SameProtocol(j) /\ call[j].method = "commit"
        /\ Redeemable(j) /\ Perform(j, call[j].token)
    BY <1>2 DEF RunApproved, Handling
  <2>2. PICK t \in approvals : t = call[j].token BY <2>1 DEF Redeemable
  <2>3. PICK q \in Process : q = call[j].to BY <1>0
  <2> DEFINE r == [at |-> q, token |-> t]
  <2>4. t \in Approval /\ t # None BY DEF TypeInv, AdapterAssumption
  <2>5. /\ t.owner = q /\ Caller(t.by) = Caller(j) /\ job[t.by].class = job[j].class
        /\ ~At(t.by, "idle")
    BY <2>1, <2>2, <2>3 DEF Redeemable, ReviewInv
  <2>6. t \in shown BY <2>1, <2>2 DEF ReviewInv, Shown, Stage
  <2>7. setup[q].protocol = setup[Caller(j)].protocol
    BY <2>1, <2>3 DEF SameProtocol
  <2>8. runs'[j] = Append(runs[j], r) BY <2>1, <2>2, <2>3, <2>4, PerformShape
  <2>9. r \in RunRecord BY <2>4 DEF RunRecord
  <2>10. RunFine(j, r)'
    BY <1>0, <2>4, <2>5, <2>6, <2>7 DEF RunFine, Caller, At
  <2> QED BY <2>8, <2>9, <2>10
<1> QED BY <1>1, <1>2

\* What a step leaves of the executions.
LEMMA RunsGrowByPerform ==
  ASSUME AdapterAssumption, TypeInv, Next, NEW j \in Job,
         ~(RunAtOnce(j) \/ RunApproved(j))
  PROVE  runs'[j] = runs[j]
<1>1. CASE \E i \in Job : RunCommand(i) \/ CallTool(i) \/ JobStep(i) \/ GiveUp(i)
                         \/ ServerStep(i)
  <2>1. PICK i \in Job : RunCommand(i) \/ CallTool(i) \/ JobStep(i) \/ GiveUp(i)
                         \/ ServerStep(i)
    BY <1>1
  <2>2. CASE i # j BY <2>1, <2>2, OneJobAtATime
  <2>3. CASE i = j
    <3>1. CASE RunCommand(j) \/ CallTool(j) \/ JobStep(j) \/ GiveUp(j)
      BY <3>1 DEF RunCommand, CallTool, Begin, JobStep, Dial, ShowReview, Report,
           Broken, GiveUp
    <3>2. CASE ServerStep(j)
      BY <3>2 DEF ServerStep, TurnAway, Admit, Handle, Reject, HandOutPreview, Fail,
           Return
    <3> QED BY <2>1, <2>3, <3>1, <3>2
  <2> QED BY <2>2, <2>3
<1>2. CASE \/ \E p \in Process : Exit(p)
           \/ \E a \in Adapter : OpenDaemon(a)
           \/ Lapse \/ Ownership
  BY <1>2 DEF Exit, OpenDaemon, Lapse, Ownership
<1> QED BY <1>1, <1>2 DEF Next

\* Every step keeps what ran reviewed or allowed.
LEMMA ReviewInvariant ==
  ASSUME AdapterAssumption, TypeInv, TypeInv', \A j \in Job : Honest(j), ReviewInv,
         Next
  PROVE  ReviewInv'
<1>1. ProgressInv BY HonestyIsReport
<1>2. \A j \in Job : Shown(j)'
  <2> TAKE j \in Job
  <2>1. Shown(j) BY DEF ReviewInv
  <2>2. shown \subseteq shown' BY ShownGrows
  <2>3. CASE \E i \in Job : RunCommand(i) \/ CallTool(i) \/ JobStep(i) \/ GiveUp(i)
                           \/ ServerStep(i)
    <3>1. PICK i \in Job : RunCommand(i) \/ CallTool(i) \/ JobStep(i) \/ GiveUp(i)
                           \/ ServerStep(i)
      BY <2>3
    <3>2. CASE i = j BY <2>1, <2>2, <3>1, <3>2, ShownStep
    <3>3. CASE i # j BY <2>1, <2>2, <3>1, <3>3, OneJobAtATime, ShownFrame
    <3> QED BY <3>2, <3>3
  <2>4. CASE \E p \in Process : Exit(p)
    <3>1. PICK p \in Process : Exit(p) BY <2>4
    <3>2. job'[j] = job[j] /\ (call'[j] = call[j] \/ Stage(j, "none")')
      BY <3>1, ExitShape DEF Exit
    <3> QED BY <2>1, <2>2, <3>2 DEF Shown, At, Stage
  <2>5. CASE (\E a \in Adapter : OpenDaemon(a)) \/ Lapse \/ Ownership
    <3>1. UNCHANGED <<job, call>> BY <2>5 DEF OpenDaemon, Lapse, Ownership
    <3> QED BY <2>1, <2>2, <3>1, ShownFrame
  <2> QED BY <2>3, <2>4, <2>5 DEF Next
<1>3. \A t \in approvals' : ~At(t.by, "idle")'
  BY <1>1, ApprovalsAreOfBegun DEF ReviewInv
<1>4. ASSUME NEW j \in Job, NEW i \in 1..Len(runs'[j]), NEW r \in RunRecord,
             r = runs'[j][i]
      PROVE  RunFine(j, r)'
  <2>1. runs[j] \in Seq(RunRecord) BY DEF TypeInv
  <2>2. ASSUME i \in 1..Len(runs[j]), r = runs[j][i]
        PROVE  RunFine(j, r)'
    <3>1. ~At(j, "idle")
      <4>1. runs[j] # <<>> BY <2>1, <2>2
      <4> QED BY <4>1 DEF Honest, Progress, At
    <3>2. RunFine(j, r) BY <2>2 DEF ReviewInv
    <3> QED BY <3>1, <3>2, RunStaysFine
  <2>3. CASE runs'[j] = runs[j] BY <1>4, <2>2, <2>3
  <2>4. CASE runs'[j] # runs[j]
    <3>1. RunAtOnce(j) \/ RunApproved(j) BY <2>4, RunsGrowByPerform
    <3>2. PICK s \in RunRecord : runs'[j] = Append(runs[j], s) /\ RunFine(j, s)'
      BY <3>1, WhatRunsIsFine
    <3>3. CASE i \in 1..Len(runs[j])
      <4>1. runs'[j][i] = runs[j][i] BY <2>1, <3>2, <3>3
      <4> QED BY <1>4, <2>2, <3>3, <4>1
    <3>4. CASE i \notin 1..Len(runs[j])
      <4>1. r = s BY <1>4, <2>1, <3>2, <3>4
      <4> QED BY <3>2, <4>1
    <3> QED BY <3>3, <3>4
  <2> QED BY <2>3, <2>4
<1>5. (\A j \in Job : \A i \in 1..Len(runs[j]) : RunFine(j, runs[j][i]))'
  <2> SUFFICES ASSUME NEW j \in Job, NEW i \in 1..Len(runs'[j])
               PROVE  RunFine(j, runs[j][i])'
    OBVIOUS
  <2>1. runs'[j] \in Seq(RunRecord) BY DEF TypeInv
  <2>2. PICK r \in RunRecord : r = runs'[j][i] BY <2>1
  <2>3. RunFine(j, r)' BY <1>4, <2>2
  <2> QED BY <2>2, <2>3 DEF RunFine, Allowed
<1> QED BY <1>2, <1>3, <1>5 DEF ReviewInv
----------------------------------------------------------------------------
(* The theorems.                                                           *)

\* Nobody has begun, and nothing has run.
LEMMA AdaptersBegin ==
  ASSUME AdapterAssumption, Init
  PROVE  AdaptersInv
<1>0. /\ IdleJob.at = "idle" /\ IdleJob.class = None /\ IdleJob.result = None
      /\ NoCall.stage = "none"
  BY DEF IdleJob, NoCall
<1>1. TypeInv
  <2>1. job \in [Job -> JobRecord] /\ call \in [Job -> CallRecord]
    BY IdleJobShape, NoCallShape DEF Init
  <2>2. /\ \A j \in Job : job[j].class \in Used[j] \cup {None}
        /\ \A j \in Job : Stage(j, "none") \/ call[j].to \in Process
        /\ \A j \in Job : At(j, "answered") => Meant(job[j].answer, job[j].token)
        /\ \A j \in Job : Stage(j, "returning") => Meant(call[j].answer, call[j].token)
    BY <1>0 DEF Init, Stage, At
  <2>3. /\ slots \in [Process -> Nat] /\ runs \in [Job -> Seq(RunRecord)]
        /\ opened \in [Adapter -> Process \cup {None}]
        /\ approvals \subseteq Approval /\ shown \subseteq Approval
        /\ setup \in Setups
    BY DEF Init
  <2>4. /\ owner \in Process \cup {None} /\ credential \in Process \cup {None}
        /\ fresh \subseteq Process
    BY DEF Init, OwnershipInit
  <2> QED BY <2>1, <2>2, <2>3, <2>4 DEF TypeInv
<1>2. ASSUME NEW j \in Job PROVE Honest(j)
  <2>1. /\ job[j].at = "idle" /\ job[j].result = None /\ call[j].stage = "none"
        /\ runs[j] = <<>>
    BY <1>0 DEF Init
  <2>2. job[j].result \notin {"success", "preview", "refused"}
    BY <2>1 DEF AdapterAssumption, Results
  <2> QED BY <2>1, <2>2 DEF Honest, Progress, AnswerTells, At, Stage
<1>3. SlotInv
  <2> SUFFICES ASSUME NEW p \in Process
               PROVE  /\ IsFiniteSet(Running(p)) /\ slots[p] = Cardinality(Running(p))
                      /\ slots[p] <= Slots
    BY DEF SlotInv
  <2>1. Running(p) = {} BY <1>0 DEF Init, Running
  <2>2. slots[p] = 0 /\ 0 <= Slots BY DEF Init, AdapterAssumption
  <2> QED BY <2>1, <2>2, FS_EmptySet
<1>4. OpenedInv BY DEF Init, OpenedInv
<1>5. ReviewInv
  <2>1. \A j \in Job : Shown(j) BY <1>0 DEF Init, Shown, At
  <2>2. \A j \in Job : \A i \in 1..Len(runs[j]) : RunFine(j, runs[j][i])
    BY DEF Init
  <2> QED BY <2>1, <2>2 DEF Init, ReviewInv
<1> QED BY <1>1, <1>2, <1>3, <1>4, <1>5, HonestyIsReport DEF AdaptersInv

\* Every step of a job, of a server, of a process or of nobody.
LEMMA AdaptersStep ==
  ASSUME AdapterAssumption, AdaptersInv, [Next]_vars
  PROVE  AdaptersInv'
<1>0. TypeInv /\ SlotInv /\ ProgressInv /\ \A j \in Job : Honest(j)
  BY HonestyIsReport DEF AdaptersInv
<1>1. CASE Next
  <2>1. TypeInv'
    BY <1>0, <1>1, AdapterKeepsTyping, ServerKeepsTyping, OwnersKeepTyping
    DEF Next, JobStep, Broken
  <2>2. SlotInv' BY <1>0, <1>1, SlotInvariant
  <2>3. \A j \in Job : Honest(j)' BY <1>0, <1>1, HonestInvariant
  <2>4. (ProgressInv /\ ReportIsTrue)'
    BY <2>3 DEF ProgressInv, ReportIsTrue, Honest
  <2>5. OpenedInv' BY <1>0, <1>1, OpenedInvariant DEF AdaptersInv
  <2>6. ReviewInv' BY <1>0, <1>1, <2>1, ReviewInvariant DEF AdaptersInv
  <2> QED BY <2>1, <2>2, <2>4, <2>5, <2>6 DEF AdaptersInv
<1>2. CASE UNCHANGED vars
  <2>1. TypeInv' BY <1>0, <1>2 DEF TypeInv, vars, ownershipVars, Stage, At, Meant
  <2>2. SlotInv' BY <1>0, <1>2, SlotFrame DEF vars, Running
  <2>3. \A j \in Job : Honest(j)' BY <1>0, <1>2, HonestFrame DEF vars
  <2>4. (ProgressInv /\ ReportIsTrue)'
    BY <2>3 DEF ProgressInv, ReportIsTrue, Honest
  <2>5. OpenedInv' BY <1>2 DEF AdaptersInv, OpenedInv, vars
  <2>6. ReviewInv'
    BY <1>2 DEF AdaptersInv, ReviewInv, Shown, RunFine, Allowed, Caller, At, vars
  <2> QED BY <2>1, <2>2, <2>4, <2>5, <2>6 DEF AdaptersInv
<1> QED BY <1>1, <1>2

\* Whatever is lost, abandoned or replaced, the inductive invariant holds.
THEOREM AdaptersInvariant == Spec => []AdaptersInv
<1>1. Init => AdaptersInv
  BY AdapterAssumption, AdaptersBegin
<1>2. AdaptersInv /\ [Next]_vars => AdaptersInv'
  BY AdapterAssumption, AdaptersStep
<1> QED BY <1>1, <1>2, PTL DEF Spec

\* The variables of the commands, the tools and the servers have their types.
THEOREM AdaptersTyping == Spec => []AdaptersTypeOK
<1>1. AdaptersInv => AdaptersTypeOK
  <2> SUFFICES ASSUME TypeInv PROVE AdaptersTypeOK BY DEF AdaptersInv
  <2>1. ASSUME NEW j \in Job
        PROVE  /\ job[j].at \in {"idle", "dial", "waiting", "answered", "done"}
               /\ job[j].token \in Approval \cup {None}
               /\ job[j].cred \in Process \cup {None}
               /\ job[j].answer \in Answers \cup {None}
               /\ job[j].result \in Results \cup {None}
    <3>1. job[j] \in JobRecord BY DEF TypeInv
    <3> QED BY <3>1 DEF JobRecord
  <2>2. ASSUME NEW j \in Job
        PROVE  call[j].stage \in {"none", "arriving", "running", "returning"}
    <3>1. call[j] \in CallRecord BY DEF TypeInv
    <3> QED BY <3>1 DEF CallRecord
  <2>3. ASSUME NEW j \in Job
        PROVE  /\ call[j].stage # "none" => call[j].to \in Process
               /\ call[j].stage = "returning" => call[j].answer \in Answers
    BY DEF TypeInv, Stage, Meant
  <2>4. \A j \in Job : runs[j] \in Seq([at : Process, token : Approval \cup {None}])
    BY DEF TypeInv, RunRecord
  <2> QED BY <2>1, <2>2, <2>3, <2>4 DEF TypeInv, AdaptersTypeOK
<1> QED BY <1>1, AdaptersInvariant, PTL

\* What a command or a tool reports is true of the mailbox, and what it asked
\* for ran at most once, although calls are lost and outlive their callers.
THEOREM ReportsAreTrue == Spec => []ReportIsTrue
<1>1. AdaptersInv => ReportIsTrue BY DEF AdaptersInv
<1> QED BY <1>1, AdaptersInvariant, PTL

\* What ran from an approval had been shown to its caller, and what ran at once
\* is allowed by the policy of the owner, and of the adapter that opened it.
THEOREM RunsAreReviewed == Spec => []ReviewedBeforeRun
<1>1. ASSUME TypeInv, OpenedInv, ReviewInv PROVE ReviewedBeforeRun
  <2> SUFFICES ASSUME NEW j \in Job, NEW i \in 1..Len(runs[j])
               PROVE  LET r == runs[j][i]
                          allowedBy(who) ==
                            RunsOn(job[j].class,
                                   Policy(setup[who].rules)!Evaluate(job[j].class.effect))
                      IN /\ setup[r.at].protocol = setup[Caller(j)].protocol
                         /\ IF r.token = None
                            THEN /\ allowedBy(r.at)
                                 /\ r.at = opened[Caller(j)] /\ ~Torn(r.at) /\ ~Torn(Caller(j)) =>
                                      allowedBy(Caller(j))
                            ELSE /\ r.token \in shown
                                 /\ Caller(r.token.by) = Caller(j)
                                 /\ job[r.token.by].class = job[j].class
                                 /\ r.at = r.token.owner
    BY DEF ReviewedBeforeRun
  <2> DEFINE r == runs[j][i]
  <2>1. RunFine(j, r) BY <1>1 DEF ReviewInv
  <2>2. r.at \in Process
    <3>1. runs[j] \in Seq(RunRecord) BY <1>1 DEF TypeInv
    <3>2. r \in RunRecord BY <3>1
    <3> QED BY <3>2 DEF RunRecord
  <2>3. Caller(j) \in Adapter BY AdapterAssumption DEF Caller, AdapterAssumption
  <2>4. r.at = opened[Caller(j)] /\ ~Torn(r.at) /\ ~Torn(Caller(j)) =>
          setup[Caller(j)].rules = setup[r.at].rules
    <3>1. r.at # None BY <2>2, AdapterAssumption DEF AdapterAssumption
    <3> QED BY <1>1, <2>3, <3>1 DEF OpenedInv, Torn
  <2> HIDE DEF r
  <2> QED BY <2>1, <2>4 DEF RunFine, Allowed, r
<1>2. AdaptersInv => ReviewedBeforeRun BY <1>1 DEF AdaptersInv
<1> QED BY <1>2, AdaptersInvariant, PTL

\* A server has given away a slot for every call it works on, those of callers
\* that have gone included, and never more than it has.
THEOREM SlotsAreBounded == Spec => []BoundedConcurrency
<1>1. AdaptersInv => BoundedConcurrency
  BY DEF AdaptersInv, SlotInv, BoundedConcurrency
<1> QED BY <1>1, AdaptersInvariant, PTL
==============================================================================
