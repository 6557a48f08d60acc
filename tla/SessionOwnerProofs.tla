------------------------- MODULE SessionOwnerProofs -------------------------
(***************************************************************************)
(* Theorems about SessionOwner, for any requests, accounts, callers,       *)
(* operations and policy.  The layers: the state has its type; the owner   *)
(* implements the approval store's specification, so the theorems of       *)
(* ApprovalStoreProofs hold inside it; what reaches the mailbox service is *)
(* authorised.                                                             *)
(***************************************************************************)
EXTENDS SessionOwner, ApprovalStoreProofs

\* What the handler's locals hold at each of its steps.
Bound(now) == now.op \in Operation /\ now.caller \in Caller

Shape(step, now) ==
  /\ step \in {"session", "launch", "login"} =>
       now.session \in Account /\ (now.op = None \/ Bound(now))
  /\ step \in {"prepare", "draw", "issue", "remember", "committed", "execute",
               "remote", "forget"} => Bound(now)
  /\ step \in {"prepare", "draw", "issue", "remember", "consume", "committed",
               "execute", "remote"} => now.session \in Account
  /\ step \in {"remember", "lookup", "consume"} => now.token \in Token
  /\ step \in {"lookup", "consume"} => now.tool \in Kinds /\ now.caller \in Caller

TypeInv ==
  /\ OwnerTypeOK
  /\ \A r \in Request : Shape(pc[r], request[r])

\* Every operation has a class of the catalogue.
LEMMA KindsInCatalogue == Kinds \subseteq Catalogue
BY OwnerAssumption DEF Kinds

\* The part of the state that the steps of handlers share.
LEMMA IdleTyped == Idle \in Local
BY DEF Idle, Local

\* A handler moves to a step whose locals have the right shape.
LEMMA HandlerMoves ==
  ASSUME TypeInv, NEW r \in Request, NEW step \in Steps, NEW now \in Local,
         pc' = [pc EXCEPT ![r] = step],
         request' = [request EXCEPT ![r] = now],
         Shape(step, now)
  PROVE  /\ pc' \in [Request -> Steps]
         /\ request' \in [Request -> Local]
         /\ \A q \in Request : Shape(pc[q], request[q])'
<1> USE DEF TypeInv, OwnerTypeOK
<1>1. pc' \in [Request -> Steps]
  OBVIOUS
<1>2. request' \in [Request -> Local]
  OBVIOUS
<1>3. ASSUME NEW q \in Request
      PROVE  Shape(pc'[q], request'[q])
  <2>1. CASE q = r
    <3>1. pc'[q] = step /\ request'[q] = now
      BY <2>1
    <3> QED
      BY <3>1
  <2>2. CASE q # r
    <3>1. pc'[q] = pc[q] /\ request'[q] = request[q]
      BY <2>2
    <3> QED
      BY <3>1
  <2> QED
    BY <2>1, <2>2
<1>4. \A q \in Request : Shape(pc[q], request[q])'
  BY <1>3 DEF Shape, Bound
<1> QED
  BY <1>1, <1>2, <1>4

\* A handler goes on.
LEMMA GoMoves ==
  ASSUME TypeInv, NEW r \in Request, NEW step \in Steps, NEW now \in Local,
         Go(r, step, now), Shape(step, now)
  PROVE  /\ pc' \in [Request -> Steps]
         /\ request' \in [Request -> Local]
         /\ active' \subseteq Request
         /\ \A q \in Request : Shape(pc[q], request[q])'
BY HandlerMoves DEF Go, TypeInv, OwnerTypeOK

\* A handler returns.
LEMMA ReturnMoves ==
  ASSUME TypeInv, NEW r \in Request, NEW answer \in {"preview", "success", "error"},
         Return(r, answer)
  PROVE  /\ pc' \in [Request -> Steps]
         /\ request' \in [Request -> Local]
         /\ active' \subseteq Request
         /\ \A q \in Request : Shape(pc[q], request[q])'
<1> DEFINE now == [request[r] EXCEPT !.answer = answer]
<1>1. now \in Local
  BY DEF TypeInv, OwnerTypeOK, Local
<1>2. Shape("done", now)
  BY DEF Shape
<1>3. "done" \in Steps
  BY DEF Steps
<1>4. request' = [request EXCEPT ![r] = now]
  BY DEF Return, TypeInv, OwnerTypeOK
<1>5. pc' = [pc EXCEPT ![r] = "done"] /\ active' \subseteq Request
  BY DEF Return, TypeInv, OwnerTypeOK
<1> HIDE DEF now
<1> QED
  BY <1>1, <1>2, <1>3, <1>4, <1>5, HandlerMoves

\* A handler returns an error.
LEMMA FailMoves ==
  ASSUME TypeInv, NEW r \in Request, Fail(r)
  PROVE  /\ pc' \in [Request -> Steps]
         /\ request' \in [Request -> Local]
         /\ active' \subseteq Request
         /\ \A q \in Request : Shape(pc[q], request[q])'
<1> DEFINE now == [Idle EXCEPT !.answer = "error"]
<1>1. now \in Local
  BY DEF Idle, Local
<1>2. Shape("done", now)
  BY DEF Shape
<1>3. "done" \in Steps
  BY DEF Steps
<1>4. request' = [request EXCEPT ![r] = now]
  BY DEF Fail
<1>5. pc' = [pc EXCEPT ![r] = "done"] /\ active' \subseteq Request
  BY DEF Fail, TypeInv, OwnerTypeOK
<1> HIDE DEF now
<1> QED
  BY <1>1, <1>2, <1>3, <1>4, <1>5, HandlerMoves

----------------------------------------------------------------------------

\* A step of a handler is a step of the approval store or leaves it alone.
LEMMA HandleIsStoreStep ==
  ASSUME TypeInv, NEW r \in Request, Handle(r)
  PROVE  [StoreNext]_storeVars
<1> USE DEF storeVars, At
<1>1. r \in Thread
  BY OwnerAssumption
<1>2. CASE DrawToken(r)
  <2>1. pc[r] = "draw"
    BY <1>2 DEF DrawToken
  <2>2. request[r].op \in Operation /\ request[r].caller \in Caller
    BY <2>1 DEF TypeInv, Shape, Bound
  <2>3. PICK t \in Token : Draw(r, t, request[r].op, request[r].caller)
    BY <1>2 DEF DrawToken
  <2> QED
    BY <1>1, <2>2, <2>3 DEF StoreNext
<1>3. CASE IssuePreview(r)
  BY <1>1, <1>3 DEF IssuePreview, StoreNext
<1>4. CASE IssueFails(r)
  BY <1>1, <1>4 DEF IssueFails, StoreNext
<1>5. CASE Redeem(r)
  <2>1. pc[r] = "consume"
    BY <1>5 DEF Redeem
  <2>2. /\ request[r].token \in Token /\ request[r].caller \in Caller
        /\ request[r].tool \in Kinds
    BY <2>1 DEF TypeInv, Shape
  <2>3. Consume(request[r].token, request[r].caller, request[r].tool)
    BY <1>5 DEF Redeem
  <2> QED
    BY <2>2, <2>3 DEF StoreNext
<1>6. CASE RedeemLate(r)
  <2>1. pc[r] = "consume"
    BY <1>6 DEF RedeemLate
  <2>2. request[r].token \in Token /\ request[r].caller \in Caller
    BY <2>1 DEF TypeInv, Shape
  <2>3. ConsumeExpired(request[r].token, request[r].caller)
    BY <1>6 DEF RedeemLate
  <2> QED
    BY <2>2, <2>3 DEF StoreNext
<1>7. CASE \/ SessionFound(r) \/ SessionBusy(r) \/ LoginStart(r) \/ LoginLaunched(r)
           \/ LoginDone(r) \/ LoginFailed(r) \/ Decide(r) \/ DrawFails(r)
           \/ RememberPreview(r) \/ PreviewKnown(r) \/ PreviewUnknown(r)
           \/ RedeemRefused(r) \/ RecordCommit(r) \/ Execute(r)
           \/ Complete(r) \/ ForgetPreview(r)
  BY <1>7 DEF SessionFound, SessionBusy, LoginStart, LoginLaunched, LoginDone, LoginFailed,
              Decide, DrawFails, RememberPreview, PreviewKnown,
              PreviewUnknown, RedeemRefused, RecordCommit, Execute, Complete,
              ForgetPreview
<1> QED
  BY <1>2, <1>3, <1>4, <1>5, <1>6, <1>7 DEF Handle

\* An arriving request leaves the approval store alone.
LEMMA ArriveIsStoreStutter ==
  ASSUME NEW r \in Request, Arrive(r)
  PROVE  UNCHANGED storeVars
BY DEF Arrive, EnterRefused, EnterLogin, EnterOperation, EnterCommit, Enter,
       storeVars

\* Every step of the owner is a step of the approval store or leaves it alone.
LEMMA OwnerStepIsStoreStep ==
  ASSUME TypeInv, [OwnerNext]_vars
  PROVE  [StoreNext]_storeVars
<1>1. ASSUME NEW r \in Request, Arrive(r)
      PROVE  [StoreNext]_storeVars
  BY <1>1, ArriveIsStoreStutter
<1>2. ASSUME NEW r \in Request, Handle(r)
      PROVE  [StoreNext]_storeVars
  BY <1>2, HandleIsStoreStep
<1>3. CASE \E a \in Account, c \in Caller : TerminalLogin(a, c)
  BY <1>3 DEF TerminalLogin, storeVars
<1>4. CASE CloseBegin \/ CloseEnd \/ UNCHANGED vars
  BY <1>4 DEF CloseBegin, CloseEnd, vars, storeVars
<1>5. CASE OwnerTick
  BY <1>5 DEF OwnerTick, StoreNext
<1> QED
  BY <1>1, <1>2, <1>3, <1>4, <1>5 DEF OwnerNext

----------------------------------------------------------------------------

\* Types of what only some actions write.
RestTyped ==
  /\ accounts \subseteq Account
  /\ launcher \in [Account -> Request \cup {None}]
  /\ holder \in Request \cup TerminalCall \cup {None}
  /\ terminal \in [Account -> Terminal \cup {None}]
  /\ previews \in [Token -> Preview \cup {None}]
  /\ trail \subseteq Event
  /\ sent \subseteq Request
  /\ expired \subseteq Account
  /\ closing \in {"open", "draining", "closed"}

HandlersTyped ==
  /\ pc \in [Request -> Steps]
  /\ request \in [Request -> Local]
  /\ active \subseteq Request
  /\ \A q \in Request : Shape(pc[q], request[q])

\* The parts make up the invariant.
LEMMA TypeInvParts == TypeInv <=> StoreTypeOK /\ HandlersTyped /\ RestTyped
BY DEF TypeInv, OwnerTypeOK, HandlersTyped, RestTyped

\* A recorded event has its type (audit.go, Record).
LEMMA RecordTyped ==
  ASSUME TypeInv, NEW r \in Request, NEW ok \in BOOLEAN,
         NEW phase \in {"prepared", "committed", "executed"},
         NEW outcome \in {"allow", "preview", "deny", "success", "failure",
                          "unknown"},
         Bound(request[r]), Record(r, phase, outcome, ok)
  PROVE  trail' \subseteq Event
<1> DEFINE event == [request |-> r, phase |-> phase, outcome |-> outcome,
                     op |-> request[r].op, caller |-> request[r].caller]
<1>1. event \in Event
  BY DEF Event, Bound
<1>2. trail' = trail \cup {event} \/ trail' = trail
  BY DEF Record
<1> QED
  BY <1>1, <1>2 DEF TypeInv, OwnerTypeOK

\* A request that enters has the shape of its first step.
LEMMA ArriveTyped ==
  ASSUME TypeInv, NEW r \in Request, Arrive(r)
  PROVE  HandlersTyped' /\ RestTyped'
<1>1. CASE EnterRefused(r)
  <2>1. Fail(r)
    BY <1>1 DEF EnterRefused
  <2>2. HandlersTyped'
    BY <2>1, FailMoves DEF HandlersTyped
  <2>3. RestTyped'
    BY <1>1, TypeInvParts DEF EnterRefused, RestTyped
  <2> QED
    BY <2>2, <2>3
<1>2. ASSUME NEW step \in Steps, NEW now \in Local, Shape(step, now),
             Enter(r, step, now)
      PROVE  HandlersTyped' /\ RestTyped'
  <2>1. /\ pc' \in [Request -> Steps] /\ request' \in [Request -> Local]
        /\ \A q \in Request : Shape(pc[q], request[q])'
    BY <1>2, HandlerMoves DEF Enter
  <2>2. active' \subseteq Request
    BY <1>2, TypeInvParts DEF Enter, HandlersTyped
  <2>3. RestTyped'
    BY <1>2, TypeInvParts DEF Enter, RestTyped
  <2> QED
    BY <2>1, <2>2, <2>3 DEF HandlersTyped
<1>3. ASSUME NEW a \in Account, EnterLogin(r, a)
      PROVE  HandlersTyped' /\ RestTyped'
  <2> DEFINE now == [Idle EXCEPT !.session = a]
  <2>1. now \in Local /\ "session" \in Steps
    BY DEF Idle, Local, Steps
  <2>2. Shape("session", now)
    BY DEF Shape, Idle
  <2>3. Enter(r, "session", now)
    BY <1>3 DEF EnterLogin
  <2> HIDE DEF now
  <2> QED
    BY <2>1, <2>2, <2>3, <1>2
<1>4. ASSUME NEW c \in Caller, NEW op \in Operation, EnterOperation(r, op, c)
      PROVE  HandlersTyped' /\ RestTyped'
  <2> DEFINE now == [Idle EXCEPT !.op = op, !.caller = c,
                                 !.session = AccountOf[op]]
  <2>1. now \in Local /\ "session" \in Steps
    BY OwnerAssumption DEF Idle, Local, Steps
  <2>2. Shape("session", now)
    BY OwnerAssumption DEF Shape, Idle, Bound
  <2>3. Enter(r, "session", now)
    BY <1>4 DEF EnterOperation
  <2> HIDE DEF now
  <2> QED
    BY <2>1, <2>2, <2>3, <1>2
<1>5. ASSUME NEW c \in Caller, NEW t \in Token,
             NEW tool \in Kinds \cap Committable, EnterCommit(r, tool, t, c)
      PROVE  HandlersTyped' /\ RestTyped'
  <2> DEFINE now == [Idle EXCEPT !.caller = c, !.tool = tool, !.token = t]
  <2>1. now \in Local /\ "lookup" \in Steps
    BY KindsInCatalogue DEF Idle, Local, Steps
  <2>2. Shape("lookup", now)
    BY DEF Shape, Idle
  <2>3. Enter(r, "lookup", now)
    BY <1>5 DEF EnterCommit
  <2> HIDE DEF now
  <2> QED
    BY <2>1, <2>2, <2>3, <1>2
<1> QED
  BY <1>1, <1>3, <1>4, <1>5 DEF Arrive

\* The steps that find or make the session of an account.
LEMMA SessionStepsTyped ==
  ASSUME TypeInv, NEW r \in Request,
         \/ SessionFound(r) \/ SessionBusy(r) \/ LoginStart(r) \/ LoginLaunched(r)
         \/ LoginDone(r) \/ LoginFailed(r)
  PROVE  HandlersTyped' /\ RestTyped'
<1> DEFINE now == request[r]
<1>0. now \in Local /\ RestTyped /\ HandlersTyped
  BY TypeInvParts DEF HandlersTyped
<1>1. pc[r] \in {"session", "launch", "login"}
  BY DEF SessionFound, SessionBusy, LoginStart, LoginLaunched, LoginDone, LoginFailed, At
<1>2. now.session \in Account /\ (now.op = None \/ Bound(now))
  BY <1>1 DEF TypeInv, Shape
<1>3. ASSUME WithSession(r)
      PROVE  HandlersTyped'
  <2>1. CASE now.op = None
    BY <1>3, <2>1, ReturnMoves DEF WithSession, HandlersTyped
  <2>2. CASE now.op # None
    <3>1. Shape("prepare", now) /\ "prepare" \in Steps
      BY <1>2, <2>2 DEF Shape, Steps
    <3>2. Go(r, "prepare", now)
      BY <1>3, <2>2 DEF WithSession
    <3> HIDE DEF now
    <3> QED
      BY <1>0, <3>1, <3>2, GoMoves DEF HandlersTyped
  <2> QED
    BY <2>1, <2>2
<1>4. CASE SessionFound(r)
  BY <1>0, <1>3, <1>4 DEF SessionFound, RestTyped
<1>5. CASE SessionBusy(r)
  BY <1>0, <1>5, FailMoves DEF SessionBusy, RestTyped, HandlersTyped
<1>6. CASE LoginStart(r)
  <2>1. Shape("launch", now) /\ "launch" \in Steps
    BY <1>2 DEF Shape, Steps
  <2>2. Go(r, "launch", now)
    BY <1>6 DEF LoginStart
  <2>3. RestTyped'
    BY <1>0, <1>6 DEF LoginStart, RestTyped
  <2> HIDE DEF now
  <2> QED
    BY <1>0, <2>1, <2>2, <2>3, GoMoves DEF HandlersTyped
<1>7. CASE LoginDone(r)
  <2>1. RestTyped'
    BY <1>0, <1>2, <1>7 DEF LoginDone, RestTyped
  <2> QED
    BY <1>3, <1>7, <2>1 DEF LoginDone
<1>8. CASE LoginFailed(r)
  <2>1. Fail(r)
    BY <1>8 DEF LoginFailed
  <2>2. RestTyped'
    BY <1>0, <1>8 DEF LoginFailed, RestTyped
  <2> QED
    BY <2>1, <2>2, FailMoves DEF HandlersTyped
<1>9. CASE LoginLaunched(r)
  <2>1. Shape("login", now) /\ "login" \in Steps
    BY <1>2 DEF Shape, Steps
  <2>2. Go(r, "login", now)
    BY <1>9 DEF LoginLaunched
  <2>3. RestTyped'
    BY <1>0, <1>9 DEF LoginLaunched, RestTyped
  <2> HIDE DEF now
  <2> QED
    BY <1>0, <2>1, <2>2, <2>3, GoMoves DEF HandlersTyped
<1> QED
  BY <1>4, <1>5, <1>6, <1>7, <1>8, <1>9

\* The steps from the guard's verdict to the answered preview.
LEMMA PreviewStepsTyped ==
  ASSUME TypeInv, NEW r \in Request,
         \/ Decide(r) \/ DrawToken(r) \/ DrawFails(r) \/ IssuePreview(r)
         \/ IssueFails(r) \/ RememberPreview(r)
  PROVE  HandlersTyped' /\ RestTyped'
<1> DEFINE now == request[r]
<1>0. now \in Local /\ RestTyped /\ HandlersTyped /\ StoreTypeOK
  BY TypeInvParts DEF HandlersTyped
<1>1. pc[r] \in {"prepare", "draw", "issue", "remember"}
  BY DEF Decide, DrawToken, DrawFails, IssuePreview, IssueFails,
         RememberPreview, At
<1>2. Bound(now) /\ now.session \in Account
  BY <1>1 DEF TypeInv, Shape
<1>3. Shape("execute", now) /\ Shape("draw", now) /\ Shape("issue", now)
  BY <1>2 DEF Shape
<1>4. {"execute", "draw", "issue", "remember"} \subseteq Steps
  BY DEF Steps
<1>5. CASE Decide(r)
  <2>1. PICK ok \in BOOLEAN :
          /\ Record(r, "prepared", Verdict(r), ok)
          /\ \/ Fail(r) \/ Go(r, "execute", now) \/ Go(r, "draw", now)
          /\ UNCHANGED <<accounts, launcher, holder, terminal, previews, sent,
                         expired, closing>>
    BY <1>5 DEF Decide
  <2>2. Verdict(r) \in {"allow", "preview", "deny"}
    BY DEF Verdict, Evaluate
  <2>3. trail' \subseteq Event
    BY <1>2, <2>1, <2>2, RecordTyped
  <2>4. RestTyped'
    BY <1>0, <2>1, <2>3 DEF RestTyped
  <2> HIDE DEF now
  <2>5. HandlersTyped'
    BY <1>0, <1>3, <1>4, <2>1, GoMoves, FailMoves DEF HandlersTyped
  <2> QED
    BY <2>4, <2>5
<1>6. CASE DrawToken(r)
  <2>1. Go(r, "issue", now) /\ RestTyped'
    BY <1>0, <1>6 DEF DrawToken, RestTyped
  <2> HIDE DEF now
  <2> QED
    BY <1>0, <1>3, <1>4, <2>1, GoMoves DEF HandlersTyped
<1>7. CASE DrawFails(r)
  BY <1>0, <1>7, FailMoves DEF DrawFails, RestTyped, HandlersTyped
<1>8. CASE IssuePreview(r)
  <2> DEFINE next == [now EXCEPT !.token = drawn[r].token,
                                 !.expiresAt = drawn[r].now + TTL]
  <2>1. drawn[r] \in Call
    BY <1>0, <1>8, OwnerAssumption DEF IssuePreview, Issue, StoreTypeOK
  <2>2. drawn[r].token \in Token /\ drawn[r].now + TTL \in Nat
    BY <2>1, StoreAssumption DEF Call, Time
  <2>3. next \in Local
    BY <1>0, <2>2 DEF Local
  <2>4. Shape("remember", next)
    BY <1>0, <1>2, <2>2 DEF Shape, Bound, Local
  <2>5. RestTyped' /\ (Go(r, "remember", next) \/ Fail(r))
    BY <1>0, <1>8 DEF IssuePreview, RestTyped
  <2> HIDE DEF next
  <2> QED
    BY <1>4, <2>3, <2>4, <2>5, GoMoves, FailMoves DEF HandlersTyped
<1>9. CASE IssueFails(r)
  BY <1>0, <1>9, FailMoves DEF IssueFails, RestTyped, HandlersTyped
<1>10. CASE RememberPreview(r)
  <2> DEFINE entry == [account |-> now.session, expiresAt |-> now.expiresAt]
  <2>1. entry \in Preview
    BY <1>0, <1>2 DEF Preview, Local
  <2>2. Return(r, "preview")
    BY <1>10 DEF RememberPreview
  <2>3. previews' \in [Token -> Preview \cup {None}]
    BY <1>0, <1>10, <2>1 DEF RememberPreview, RestTyped
  <2>4. RestTyped'
    BY <1>0, <1>10, <2>3 DEF RememberPreview, RestTyped
  <2> QED
    BY <2>2, <2>4, ReturnMoves DEF HandlersTyped
<1> QED
  BY <1>5, <1>6, <1>7, <1>8, <1>9, <1>10

\* The steps of a commit before its execution.
LEMMA CommitStepsTyped ==
  ASSUME TypeInv, NEW r \in Request,
         \/ PreviewKnown(r) \/ PreviewUnknown(r) \/ Redeem(r)
         \/ RedeemLate(r) \/ RedeemRefused(r) \/ RecordCommit(r)
  PROVE  HandlersTyped' /\ RestTyped'
<1> DEFINE now == request[r]
           t == request[r].token
<1>0. now \in Local /\ RestTyped /\ HandlersTyped /\ StoreTypeOK
  BY TypeInvParts DEF HandlersTyped
<1>1. {"consume", "committed", "execute"} \subseteq Steps
  BY DEF Steps
<1>2. pc[r] \in {"lookup", "consume"} =>
        t \in Token /\ now.tool \in Kinds /\ now.caller \in Caller
  BY DEF TypeInv, Shape
<1>3. pc[r] = "consume" => now.session \in Account
  BY DEF TypeInv, Shape
<1>4. CASE PreviewKnown(r)
  <2> DEFINE next == [now EXCEPT !.session = previews[t].account]
  <2>1. previews[t].account \in Account
    BY <1>0, <1>4 DEF PreviewKnown, RestTyped
  <2>2. next \in Local
    BY <1>0, <2>1 DEF Local
  <2>3. Shape("consume", next)
    BY <1>0, <1>2, <1>4, <2>1 DEF Shape, Local, PreviewKnown, At
  <2>4. RestTyped' /\ Go(r, "consume", next)
    BY <1>0, <1>4 DEF PreviewKnown, RestTyped
  <2> HIDE DEF next
  <2> QED
    BY <1>1, <2>2, <2>3, <2>4, GoMoves DEF HandlersTyped
<1>5. CASE PreviewUnknown(r)
  <2>1. Fail(r) /\ RestTyped'
    BY <1>0, <1>5 DEF PreviewUnknown, RestTyped
  <2> QED
    BY <2>1, FailMoves DEF HandlersTyped
<1>6. CASE Redeem(r)
  <2> DEFINE next == [now EXCEPT !.op = pending[t].operation,
                                 !.grant = GrantOf(t)]
  <2>1. t \in Token /\ pending[t] # None /\ pc[r] = "consume"
    BY <1>2, <1>6 DEF Redeem, Consume, Owns, At
  <2>2. pending[t] \in Entry /\ GrantOf(t) \in Grant
    BY <1>0, <2>1, GrantOfType
  <2>3. pending[t].operation \in Operation
    BY <2>2 DEF Entry
  <2>4. next \in Local
    BY <1>0, <2>2, <2>3 DEF Local
  <2>5. Shape("committed", next)
    BY <1>0, <1>2, <1>3, <2>1, <2>3 DEF Shape, Local, Bound
  <2>6. RestTyped' /\ Go(r, "committed", next)
    BY <1>0, <1>6 DEF Redeem, RestTyped
  <2> HIDE DEF next
  <2> QED
    BY <1>1, <2>4, <2>5, <2>6, GoMoves DEF HandlersTyped
<1>7. CASE RedeemLate(r) \/ RedeemRefused(r)
  <2>1. Fail(r) /\ RestTyped'
    BY <1>0, <1>7 DEF RedeemLate, RedeemRefused, RestTyped
  <2> QED
    BY <2>1, FailMoves DEF HandlersTyped
<1>8. CASE RecordCommit(r)
  <2>1. PICK ok \in BOOLEAN :
          /\ Record(r, "committed", "allow", ok)
          /\ Go(r, "execute", now) \/ Fail(r)
          /\ UNCHANGED <<accounts, launcher, holder, terminal, previews, sent,
                         expired, closing>>
    BY <1>8 DEF RecordCommit
  <2>2. Bound(now) /\ now.session \in Account
    BY <1>8 DEF RecordCommit, At, TypeInv, Shape
  <2>3. trail' \subseteq Event
    BY <2>1, <2>2, RecordTyped
  <2>4. RestTyped'
    BY <1>0, <2>1, <2>3 DEF RestTyped
  <2>5. Shape("execute", now)
    BY <2>2 DEF Shape
  <2> HIDE DEF now
  <2> QED
    BY <1>0, <1>1, <2>1, <2>4, <2>5, GoMoves, FailMoves DEF HandlersTyped
<1> QED
  BY <1>4, <1>5, <1>6, <1>7, <1>8

\* The remote call and what follows it.
LEMMA ExecutionStepsTyped ==
  ASSUME TypeInv, NEW r \in Request,
         Execute(r) \/ Complete(r) \/ ForgetPreview(r)
  PROVE  HandlersTyped' /\ RestTyped'
<1> DEFINE now == request[r]
<1>0. now \in Local /\ RestTyped /\ HandlersTyped
  BY TypeInvParts DEF HandlersTyped
<1>1. {"remote", "forget"} \subseteq Steps
  BY DEF Steps
<1>2. CASE Execute(r)
  <2>1. Bound(now) /\ now.session \in Account
    BY <1>2 DEF Execute, At, TypeInv, Shape
  <2>2. Shape("remote", now)
    BY <2>1 DEF Shape
  <2>3. RestTyped' /\ Go(r, "remote", now)
    BY <1>0, <1>2 DEF Execute, RestTyped
  <2> HIDE DEF now
  <2> QED
    BY <1>0, <1>1, <2>2, <2>3, GoMoves DEF HandlersTyped
<1>3. CASE Complete(r)
  <2>1. Bound(now) /\ now.session \in Account
    BY <1>3 DEF Complete, At, TypeInv, Shape
  <2>2. PICK outcome \in Outcomes(Kind[now.op]), ok, rejected \in BOOLEAN :
          /\ Record(r, "executed", outcome, ok)
          /\ Return(r, "error") \/ Return(r, "success") \/ Go(r, "forget", now)
          /\ expired' = IF rejected THEN expired \cup {now.session} ELSE expired
          /\ UNCHANGED <<accounts, launcher, holder, terminal, previews, sent,
                         closing>>
    BY <1>3 DEF Complete
  <2>3. outcome \in {"success", "failure", "unknown"}
    BY DEF Outcomes
  <2>4. trail' \subseteq Event
    BY <2>1, <2>2, <2>3, RecordTyped
  <2>5. RestTyped'
    BY <1>0, <2>1, <2>2, <2>4 DEF RestTyped
  <2>6. Shape("forget", now)
    BY <2>1 DEF Shape
  <2> HIDE DEF now
  <2> QED
    BY <1>0, <1>1, <2>2, <2>5, <2>6, GoMoves, ReturnMoves DEF HandlersTyped
<1>4. CASE ForgetPreview(r)
  <2>1. Return(r, "success") /\ RestTyped'
    BY <1>0, <1>4 DEF ForgetPreview, RestTyped
  <2> QED
    BY <2>1, ReturnMoves DEF HandlersTyped
<1> QED
  BY <1>2, <1>3, <1>4

\* A terminal login changes its own state and the set of sessions.
LEMMA TerminalTyped ==
  ASSUME TypeInv, NEW a \in Account, NEW c \in Caller, TerminalLogin(a, c)
  PROVE  HandlersTyped' /\ RestTyped'
<1>0. RestTyped /\ HandlersTyped /\ StoreTypeOK
  BY TypeInvParts
<1> USE DEF TerminalLogin, TerminalStart, TerminalResume, Takes,
            TerminalLaunched, TerminalLaunchFails, TerminalPending,
            TerminalFinished, TerminalDropped
<1>1. [caller |-> c, deadline |-> clock + LoginTimeout] \in Terminal
  <2>1. clock + LoginTimeout \in Nat
    BY <1>0, StoreAssumption, OwnerAssumption DEF StoreTypeOK, Time
  <2> QED
    BY <2>1 DEF Terminal
<1>2. terminal' \in [Account -> Terminal \cup {None}] /\ accounts' \subseteq Account
  BY <1>0, <1>1 DEF RestTyped
<1>3. holder' \in TerminalCall \cup {None}
  BY DEF Holds, TerminalCall
<1> QED
  BY <1>0, <1>2, <1>3 DEF HandlersTyped, RestTyped

\* Every step of the owner keeps the types and the shapes.
LEMMA TypeInvStep ==
  ASSUME TypeInv, [OwnerNext]_vars
  PROVE  TypeInv'
<1>1. StoreTypeOK'
  BY OwnerStepIsStoreStep, StoreTypingStep, TypeInvParts
<1>2. HandlersTyped' /\ RestTyped'
  <2>0. HandlersTyped /\ RestTyped
    BY TypeInvParts
  <2>1. ASSUME NEW r \in Request, Arrive(r)
        PROVE  HandlersTyped' /\ RestTyped'
    BY <2>1, ArriveTyped
  <2>2. ASSUME NEW r \in Request, Handle(r)
        PROVE  HandlersTyped' /\ RestTyped'
    BY <2>2, SessionStepsTyped, PreviewStepsTyped, CommitStepsTyped,
       ExecutionStepsTyped DEF Handle
  <2>3. ASSUME NEW a \in Account, NEW c \in Caller, TerminalLogin(a, c)
        PROVE  HandlersTyped' /\ RestTyped'
    BY <2>3, TerminalTyped
  <2>4. CASE CloseBegin \/ CloseEnd
    BY <2>0, <2>4 DEF CloseBegin, CloseEnd, HandlersTyped, RestTyped
  <2>5. CASE OwnerTick
    BY <2>0, <2>5 DEF OwnerTick, ownerVars, HandlersTyped, RestTyped
  <2>6. CASE UNCHANGED vars
    BY <2>0, <2>6 DEF vars, ownerVars, HandlersTyped, RestTyped
  <2> QED
    BY <2>1, <2>2, <2>3, <2>4, <2>5, <2>6 DEF OwnerNext
<1>3. (StoreTypeOK /\ HandlersTyped /\ RestTyped)' => TypeInv'
  BY DEF TypeInv, OwnerTypeOK, HandlersTyped, RestTyped
<1> QED
  BY <1>1, <1>2, <1>3

\* The initial state has its type.
LEMMA TypeInvInit ==
  ASSUME OwnerInit
  PROVE  TypeInv
<1>1. StoreTypeOK
  BY StoreAssumption DEF OwnerInit, StoreInit, StoreTypeOK, Time
<1>2. Idle \in Local /\ Shape("idle", Idle) /\ "idle" \in Steps
  BY IdleTyped DEF Shape, Steps
<1>3. HandlersTyped
  BY <1>2 DEF OwnerInit, HandlersTyped
<1>4. RestTyped
  BY DEF OwnerInit, RestTyped
<1> QED
  BY <1>1, <1>3, <1>4, TypeInvParts

\* The invariant the other theorems start from.
LEMMA TypeInvariant == OwnerSpec => []TypeInv
BY TypeInvInit, TypeInvStep, PTL DEF OwnerSpec

\* The state of the session owner always has its type (session_backend.go).
THEOREM OwnerTyping == OwnerSpec => []OwnerTypeOK
<1>1. TypeInv => OwnerTypeOK
  BY DEF TypeInv
<1> QED
  BY <1>1, TypeInvariant, PTL

\* The session owner uses the approval store as the store expects, whatever
\* its callers do and however their calls interleave (guard.go, store.go).
THEOREM OwnerKeepsStoreContract == OwnerSpec => KeepsStoreContract
<1>1. OwnerInit => StoreInit
  BY DEF OwnerInit
<1>2. TypeInv /\ [OwnerNext]_vars => [StoreNext]_storeVars
  BY OwnerStepIsStoreStep
<1> QED
  BY <1>1, <1>2, TypeInvariant, PTL DEF OwnerSpec, KeepsStoreContract, StoreSpec

\* Inside the session owner every redemption is one the store granted
\* (guard.go, CommitFor).
THEOREM OwnerRedeemsAsGranted == OwnerSpec => []RedeemedAsGranted
<1>1. KeepsStoreContract => []RedeemedAsGranted
  BY RedemptionIsAuthorised DEF KeepsStoreContract
<1> QED
  BY <1>1, OwnerKeepsStoreContract, PTL

----------------------------------------------------------------------------

\* The inductive invariant of the guard.  Only operations the policy wants a
\* preview of are ever granted an approval; a handler that is about to execute,
\* or has executed, was allowed by the policy or holds an approval of its own;
\* and the audit file says so.
Previewed(op) == Evaluate(Kind[op].effect) = "preview"

GrantsPreviewed ==
  /\ \A t \in Token : pending[t] # None => Previewed(pending[t].operation)
  /\ \A th \in Thread : drawn[th] # None => Previewed(drawn[th].operation)

Audited(r) ==
  \E e \in trail :
    /\ e.request = r /\ e.outcome = "allow"
    /\ e.op = request[r].op /\ e.caller = request[r].caller
    /\ e.phase = IF request[r].grant = None THEN "prepared" ELSE "committed"

Permitted(r) ==
  IF request[r].grant = None
  THEN RunsOn(Kind[request[r].op], Verdict(r))
  ELSE Approved(r) /\ Previewed(request[r].op)

Clearance(r) ==
  /\ pc[r] \in {"session", "launch", "login", "prepare"} => request[r].grant = None
  /\ pc[r] \in {"draw", "issue"} => Previewed(request[r].op)
  /\ pc[r] = "committed" =>
       /\ request[r].grant # None
       /\ Approved(r) /\ Previewed(request[r].op)
  /\ pc[r] = "execute" \/ r \in sent => Permitted(r) /\ Audited(r)
  /\ r \in sent => pc[r] \in {"remote", "forget", "done"}

GrantsRedeemed ==
  \A r \in Request :
    request[r].grant # None => \E x \in redeemed : x.grant = request[r].grant

GrantsDistinct ==
  \A q, r \in Request :
    request[q].grant # None /\ request[q].grant = request[r].grant => q = r

GuardInv ==
  /\ GrantsPreviewed
  /\ \A r \in Request : Clearance(r)
  /\ GrantsRedeemed
  /\ GrantsDistinct

\* What other handlers do does not take a clearance away.
LEMMA BystanderCleared ==
  ASSUME NEW q \in Request, Clearance(q),
         pc'[q] = pc[q], request'[q] = request[q],
         q \in sent' <=> q \in sent,
         trail \subseteq trail', redeemed \subseteq redeemed'
  PROVE  Clearance(q)'
<1>1. Approved(q) => Approved(q)'
  BY DEF Approved
<1>2. Audited(q) => Audited(q)'
  BY DEF Audited
<1>3. Permitted(q) => Permitted(q)'
  BY <1>1 DEF Permitted, Verdict
<1> QED
  BY <1>1, <1>2, <1>3 DEF Clearance

\* A handler that moves without redeeming keeps the invariant when its own
\* clearance is in order.
LEMMA ActorKeepsGuard ==
  ASSUME TypeInv, GuardInv, NEW r \in Request, NEW step, NEW now,
         pc' = [pc EXCEPT ![r] = step],
         request' = [request EXCEPT ![r] = now],
         now.grant \in {request[r].grant, None},
         sent \subseteq sent', sent' \subseteq sent \cup {r},
         trail \subseteq trail', redeemed \subseteq redeemed',
         Clearance(r)', GrantsPreviewed'
  PROVE  GuardInv'
<1>1. \A q \in Request : Clearance(q)'
  <2>1. ASSUME NEW q \in Request, q # r
        PROVE  Clearance(q)'
    <3>1. pc'[q] = pc[q] /\ request'[q] = request[q]
      BY <2>1 DEF TypeInv, OwnerTypeOK
    <3>2. Clearance(q) /\ (q \in sent' <=> q \in sent)
      BY <2>1 DEF GuardInv
    <3> QED
      BY <3>1, <3>2, BystanderCleared
  <2> QED
    BY <2>1
<1>2. \A q \in Request : request'[q].grant \in {request[q].grant, None}
  BY DEF TypeInv, OwnerTypeOK
<1>3. GrantsRedeemed' /\ GrantsDistinct'
  BY <1>2 DEF GuardInv, GrantsRedeemed, GrantsDistinct
<1> QED
  BY <1>1, <1>3 DEF GuardInv

\* A step that touches no handler and no approval keeps the invariant.
LEMMA StutterKeepsGuard ==
  ASSUME GuardInv,
         UNCHANGED <<pc, request, trail, sent, pending, drawn, redeemed>>
  PROVE  GuardInv'
<1>1. GrantsPreviewed' /\ GrantsRedeemed' /\ GrantsDistinct'
  BY DEF GuardInv, GrantsPreviewed, GrantsRedeemed, GrantsDistinct
<1>2. \A q \in Request : Clearance(q)'
  BY BystanderCleared DEF GuardInv
<1> QED
  BY <1>1, <1>2 DEF GuardInv

\* A handler that fails has sent nothing.
LEMMA FailKeepsGuard ==
  ASSUME TypeInv, GuardInv, NEW r \in Request, Fail(r), UNCHANGED sent,
         pc[r] \notin {"remote", "forget", "done"},
         trail \subseteq trail', UNCHANGED redeemed, GrantsPreviewed'
  PROVE  GuardInv'
<1> DEFINE now == [Idle EXCEPT !.answer = "error"]
<1>1. pc' = [pc EXCEPT ![r] = "done"] /\ request' = [request EXCEPT ![r] = now]
  BY DEF Fail
<1>2. now.grant = None
  BY DEF Idle
<1>3. r \notin sent
  BY DEF GuardInv, Clearance
<1>4. pc'[r] = "done"
  BY <1>1 DEF TypeInv, OwnerTypeOK
<1>5. Clearance(r)'
  BY <1>3, <1>4 DEF Clearance
<1> HIDE DEF now
<1> QED
  BY <1>1, <1>2, <1>5, ActorKeepsGuard

\* While the store is left alone its approvals stay previewed.
LEMMA PreviewedUnchanged ==
  ASSUME GuardInv, UNCHANGED storeVars
  PROVE  GrantsPreviewed'
BY DEF GuardInv, GrantsPreviewed, storeVars

\* A request that enters holds no approval and has sent nothing.
LEMMA ArriveKeepsGuard ==
  ASSUME TypeInv, GuardInv, NEW r \in Request, Arrive(r)
  PROVE  GuardInv'
<1>0. GrantsPreviewed' /\ UNCHANGED redeemed
  BY PreviewedUnchanged, ArriveIsStoreStutter DEF storeVars
<1>1. CASE EnterRefused(r)
  <2>1. Fail(r) /\ UNCHANGED <<sent, trail>> /\ pc[r] = "idle"
    BY <1>1 DEF EnterRefused, At
  <2> QED
    BY <1>0, <2>1, FailKeepsGuard
<1>2. ASSUME NEW step \in {"session", "lookup"}, NEW now, now.grant = None,
             Enter(r, step, now)
      PROVE  GuardInv'
  <2>1. /\ pc' = [pc EXCEPT ![r] = step] /\ request' = [request EXCEPT ![r] = now]
        /\ UNCHANGED <<sent, trail>> /\ pc[r] = "idle"
    BY <1>2 DEF Enter, At
  <2>2. r \notin sent'
    BY <2>1 DEF GuardInv, Clearance
  <2>3. pc'[r] = step /\ request'[r] = now
    BY <2>1 DEF TypeInv, OwnerTypeOK
  <2>4. Clearance(r)'
    BY <1>2, <2>2, <2>3 DEF Clearance
  <2> QED
    BY <1>0, <1>2, <2>1, <2>4, ActorKeepsGuard
<1>3. ASSUME NEW a \in Account, EnterLogin(r, a)
      PROVE  GuardInv'
  <2> DEFINE now == [Idle EXCEPT !.session = a]
  <2>1. now.grant = None /\ Enter(r, "session", now)
    BY <1>3 DEF Idle, EnterLogin
  <2> HIDE DEF now
  <2> QED
    BY <2>1, <1>2
<1>4. ASSUME NEW c \in Caller, NEW op \in Operation, EnterOperation(r, op, c)
      PROVE  GuardInv'
  <2> DEFINE now == [Idle EXCEPT !.op = op, !.caller = c,
                                 !.session = AccountOf[op]]
  <2>1. now.grant = None /\ Enter(r, "session", now)
    BY <1>4 DEF Idle, EnterOperation
  <2> HIDE DEF now
  <2> QED
    BY <2>1, <1>2
<1>5. ASSUME NEW c \in Caller, NEW t \in Token,
             NEW tool \in Kinds \cap Committable, EnterCommit(r, tool, t, c)
      PROVE  GuardInv'
  <2> DEFINE now == [Idle EXCEPT !.caller = c, !.tool = tool, !.token = t]
  <2>1. now.grant = None /\ Enter(r, "lookup", now)
    BY <1>5 DEF Idle, EnterCommit
  <2> HIDE DEF now
  <2> QED
    BY <2>1, <1>2
<1> QED
  BY <1>1, <1>3, <1>4, <1>5 DEF Arrive

\* A handler that moves on with the same operation, caller and grant, or is
\* done with an answer.
LEMMA MoveKeepsGuard ==
  ASSUME TypeInv, GuardInv, NEW r \in Request,
         NEW step \in {"launch", "login", "prepare", "remember", "lookup", "consume",
                       "forget", "done"},
         NEW now,
         now.op = request[r].op, now.caller = request[r].caller,
         now.grant = request[r].grant, now.tool = request[r].tool,
         pc' = [pc EXCEPT ![r] = step],
         request' = [request EXCEPT ![r] = now],
         step \in {"launch", "login", "prepare"} => pc[r] \in {"session", "launch", "login"},
         r \in sent => step \in {"forget", "done"},
         trail \subseteq trail', UNCHANGED <<sent, redeemed>>, GrantsPreviewed'
  PROVE  GuardInv'
<1>1. pc'[r] = step /\ request'[r] = now
  BY DEF TypeInv, OwnerTypeOK
<1>2. Clearance(r)
  BY DEF GuardInv
<1>3. Audited(r) => Audited(r)'
  BY <1>1 DEF Audited
<1>4. Permitted(r) => Permitted(r)'
  BY <1>1 DEF Permitted, Verdict, Approved, Previewed
<1>5. Clearance(r)'
  BY <1>1, <1>2, <1>3, <1>4 DEF Clearance
<1> QED
  BY <1>5, ActorKeepsGuard

\* A handler that goes on with the same locals.
LEMMA GoKeepsGuard ==
  ASSUME TypeInv, GuardInv, NEW r \in Request,
         NEW step \in {"launch", "login", "prepare", "forget"},
         Go(r, step, request[r]),
         step \in {"launch", "login", "prepare"} => pc[r] \in {"session", "launch", "login"},
         r \in sent => step = "forget",
         trail \subseteq trail', UNCHANGED <<sent, redeemed>>, GrantsPreviewed'
  PROVE  GuardInv'
BY MoveKeepsGuard DEF Go

\* A handler that answers.
LEMMA ReturnKeepsGuard ==
  ASSUME TypeInv, GuardInv, NEW r \in Request, NEW answer, Return(r, answer),
         trail \subseteq trail', UNCHANGED <<sent, redeemed>>, GrantsPreviewed'
  PROVE  GuardInv'
<1> DEFINE now == [request[r] EXCEPT !.answer = answer]
<1>1. request[r] \in Local
  BY DEF TypeInv, OwnerTypeOK
<1>2. /\ now.op = request[r].op /\ now.caller = request[r].caller
      /\ now.grant = request[r].grant /\ now.tool = request[r].tool
  BY <1>1 DEF Local
<1>3. pc' = [pc EXCEPT ![r] = "done"] /\ request' = [request EXCEPT ![r] = now]
  BY DEF Return, TypeInv, OwnerTypeOK
<1> HIDE DEF now
<1> QED
  BY <1>2, <1>3, MoveKeepsGuard

\* The steps that find or make the session.
LEMMA SessionStepsKeepGuard ==
  ASSUME TypeInv, GuardInv, NEW r \in Request,
         \/ SessionFound(r) \/ SessionBusy(r) \/ LoginStart(r) \/ LoginLaunched(r)
         \/ LoginDone(r) \/ LoginFailed(r)
  PROVE  GuardInv'
<1>1. /\ UNCHANGED storeVars /\ UNCHANGED <<sent, trail>>
      /\ pc[r] \in {"session", "launch", "login"}
  BY DEF SessionFound, SessionBusy, LoginStart, LoginLaunched, LoginDone, LoginFailed, At
<1>2. GrantsPreviewed' /\ UNCHANGED redeemed
  BY <1>1, PreviewedUnchanged DEF storeVars
<1>3. r \notin sent
  BY <1>1 DEF GuardInv, Clearance
<1>4. \/ Fail(r) \/ Return(r, "success") \/ Go(r, "prepare", request[r])
      \/ Go(r, "launch", request[r]) \/ Go(r, "login", request[r])
  BY DEF SessionFound, SessionBusy, LoginStart, LoginLaunched, LoginDone, LoginFailed,
         WithSession
<1>5. CASE Fail(r)
  BY <1>1, <1>2, <1>5, FailKeepsGuard
<1>6. CASE Return(r, "success")
  BY <1>1, <1>2, <1>6, ReturnKeepsGuard
<1>7. CASE Go(r, "prepare", request[r])
  BY <1>1, <1>2, <1>3, <1>7, GoKeepsGuard
<1>8. CASE Go(r, "launch", request[r])
  BY <1>1, <1>2, <1>3, <1>8, GoKeepsGuard
<1>9. CASE Go(r, "login", request[r])
  BY <1>1, <1>2, <1>3, <1>9, GoKeepsGuard
<1> QED
  BY <1>4, <1>5, <1>6, <1>7, <1>8, <1>9

\* The guard's verdict: what runs at once is allowed and on record, what waits
\* for an approval is previewed.
LEMMA DecideKeepsGuard ==
  ASSUME TypeInv, GuardInv, NEW r \in Request, Decide(r)
  PROVE  GuardInv'
<1>1. UNCHANGED storeVars /\ UNCHANGED sent /\ pc[r] = "prepare"
  BY DEF Decide, At
<1>2. GrantsPreviewed' /\ UNCHANGED redeemed
  BY <1>1, PreviewedUnchanged DEF storeVars
<1>3. r \notin sent /\ request[r].grant = None
  BY <1>1 DEF GuardInv, Clearance
<1>4. PICK ok \in BOOLEAN :
        /\ Record(r, "prepared", Verdict(r), ok)
        /\ IF ~ok THEN Fail(r)
           ELSE IF RunsOn(Kind[request[r].op], Verdict(r))
           THEN Go(r, "execute", request[r])
           ELSE IF Verdict(r) = "preview" THEN Go(r, "draw", request[r])
           ELSE Fail(r)
  BY DEF Decide
<1>5. trail \subseteq trail'
  BY <1>4 DEF Record
<1>6. CASE Fail(r)
  BY <1>1, <1>2, <1>5, <1>6, FailKeepsGuard
<1>7. CASE Go(r, "draw", request[r]) /\ Verdict(r) = "preview"
  <2>1. /\ pc' = [pc EXCEPT ![r] = "draw"]
        /\ request' = [request EXCEPT ![r] = request[r]]
    BY <1>7 DEF Go
  <2>2. pc'[r] = "draw" /\ request'[r] = request[r]
    BY <2>1 DEF TypeInv, OwnerTypeOK
  <2>3. Clearance(r)'
    BY <1>1, <1>3, <1>7, <2>2 DEF Clearance, Previewed, Verdict
  <2> QED
    BY <1>1, <1>2, <1>5, <2>1, <2>3, ActorKeepsGuard
<1>8. CASE /\ ok /\ RunsOn(Kind[request[r].op], Verdict(r))
           /\ Go(r, "execute", request[r])
  <2>1. /\ pc' = [pc EXCEPT ![r] = "execute"]
        /\ request' = [request EXCEPT ![r] = request[r]]
    BY <1>8 DEF Go
  <2>2. pc'[r] = "execute" /\ request'[r] = request[r]
    BY <2>1 DEF TypeInv, OwnerTypeOK
  <2>3. Permitted(r)'
    BY <1>3, <1>8, <2>2 DEF Permitted, Verdict
  <2>4. Verdict(r) = "allow"
    BY <1>8 DEF RunsOn
  <2>5. [request |-> r, phase |-> "prepared", outcome |-> "allow",
         op |-> request[r].op, caller |-> request[r].caller] \in trail'
    BY <1>4, <1>8, <2>4 DEF Record
  <2>6. Audited(r)'
    BY <1>3, <2>2, <2>5 DEF Audited
  <2>7. Clearance(r)'
    BY <1>1, <1>3, <2>2, <2>3, <2>6 DEF Clearance
  <2> QED
    BY <1>1, <1>2, <1>5, <2>1, <2>7, ActorKeepsGuard
<1> QED
  BY <1>4, <1>6, <1>7, <1>8

\* Issuing a preview: only previewed operations are drawn and stored.
LEMMA PreviewStepsKeepGuard ==
  ASSUME TypeInv, GuardInv, NEW r \in Request,
         \/ DrawToken(r) \/ DrawFails(r) \/ IssuePreview(r)
         \/ IssueFails(r) \/ RememberPreview(r)
  PROVE  GuardInv'
<1>0. r \in Thread /\ StoreTypeOK
  BY OwnerAssumption, TypeInvParts
<1>1. /\ UNCHANGED <<sent, trail>> /\ pc[r] \in {"draw", "issue", "remember"}
      /\ UNCHANGED redeemed
  BY DEF DrawToken, DrawFails, IssuePreview, IssueFails, RememberPreview, At,
         Draw, Issue, IssueRefused, storeVars
<1>2. r \notin sent
  BY <1>1 DEF GuardInv, Clearance
<1>3. CASE DrawToken(r)
  <2>1. PICK t \in Token : Draw(r, t, request[r].op, request[r].caller)
    BY <1>3 DEF DrawToken
  <2>2. pc[r] = "draw" /\ Previewed(request[r].op)
    BY <1>3 DEF DrawToken, At, GuardInv, Clearance
  <2>3. GrantsPreviewed'
    BY <1>0, <2>1, <2>2 DEF GuardInv, GrantsPreviewed, Draw, StoreTypeOK
  <2>4. /\ pc' = [pc EXCEPT ![r] = "issue"]
        /\ request' = [request EXCEPT ![r] = request[r]]
    BY <1>3 DEF DrawToken, Go
  <2>5. pc'[r] = "issue" /\ request'[r] = request[r]
    BY <2>4 DEF TypeInv, OwnerTypeOK
  <2>6. Clearance(r)'
    BY <1>1, <1>2, <2>2, <2>5 DEF Clearance
  <2> QED
    BY <1>1, <2>3, <2>4, <2>6, ActorKeepsGuard
<1>4. CASE DrawFails(r)
  <2>1. Fail(r) /\ GrantsPreviewed'
    BY <1>4, PreviewedUnchanged DEF DrawFails
  <2> QED
    BY <1>1, <2>1, FailKeepsGuard
<1>5. ASSUME Issue(r) \/ IssueRefused(r)
      PROVE  GrantsPreviewed'
  <2> DEFINE n == drawn[r].now
  <2>1. drawn[r] \in Call /\ drawn[r] # None
    BY <1>0, <1>5 DEF Issue, IssueRefused, StoreTypeOK
  <2>2. n \in Time
    BY <2>1 DEF Call
  <2>3. /\ Pruned(pending, n) \in [Token -> Entry \cup {None}]
        /\ \A t \in Token : Pruned(pending, n)[t] # None =>
             pending[t] # None /\ Pruned(pending, n)[t] = pending[t]
    BY <1>0, <2>2, PrunedType
  <2>4. Previewed(drawn[r].operation)
    BY <1>0, <2>1 DEF GuardInv, GrantsPreviewed
  <2>5. \A t \in Token : pending'[t] # None =>
          \/ pending[t] # None /\ pending'[t] = pending[t]
          \/ pending'[t].operation = drawn[r].operation
    BY <1>5, <2>1, <2>3 DEF Issue, IssueRefused, Call
  <2>6. \A th \in Thread : drawn'[th] # None => drawn'[th] = drawn[th]
    BY <1>0, <1>5 DEF Issue, IssueRefused, StoreTypeOK
  <2> QED
    BY <2>4, <2>5, <2>6 DEF GuardInv, GrantsPreviewed
<1>6. CASE IssuePreview(r)
  <2> DEFINE now == [request[r] EXCEPT !.token = drawn[r].token,
                                       !.expiresAt = drawn[r].now + TTL]
  <2>1. GrantsPreviewed'
    BY <1>5, <1>6 DEF IssuePreview
  <2>2. /\ now.op = request[r].op /\ now.caller = request[r].caller
        /\ now.grant = request[r].grant /\ now.tool = request[r].tool
    BY DEF TypeInv, OwnerTypeOK, Local
  <2>3. Fail(r) \/ Go(r, "remember", now)
    BY <1>6 DEF IssuePreview
  <2> HIDE DEF now
  <2>4. CASE Fail(r)
    BY <1>1, <2>1, <2>4, FailKeepsGuard
  <2>5. CASE Go(r, "remember", now)
    BY <1>1, <1>2, <2>1, <2>2, <2>5, MoveKeepsGuard DEF Go
  <2> QED
    BY <2>3, <2>4, <2>5
<1>7. CASE IssueFails(r)
  <2>1. Fail(r) /\ GrantsPreviewed'
    BY <1>5, <1>7 DEF IssueFails
  <2> QED
    BY <1>1, <2>1, FailKeepsGuard
<1>8. CASE RememberPreview(r)
  <2>1. Return(r, "preview") /\ GrantsPreviewed'
    BY <1>8, PreviewedUnchanged DEF RememberPreview
  <2> QED
    BY <1>1, <2>1, ReturnKeepsGuard
<1> QED
  BY <1>3, <1>4, <1>6, <1>7, <1>8

\* Redeeming: the request now holds an approval nobody else holds, of the
\* operation it is going to run.
LEMMA RedeemKeepsGuard ==
  ASSUME TypeInv, GuardInv, NoReplay, NEW r \in Request, Redeem(r)
  PROVE  GuardInv'
<1> DEFINE t == request[r].token
           now == [request[r] EXCEPT !.op = pending[t].operation,
                                     !.grant = GrantOf(t)]
           x == [grant |-> GrantOf(t), by |-> request[r].caller,
                 as |-> request[r].tool, at |-> clock]
<1>1. /\ pc[r] = "consume" /\ UNCHANGED <<sent, trail>>
      /\ Consume(t, request[r].caller, request[r].tool)
      /\ pc' = [pc EXCEPT ![r] = "committed"]
      /\ request' = [request EXCEPT ![r] = now]
  BY DEF Redeem, At, Go
<1>2. /\ t \in Token /\ request[r].tool \in Kinds
      /\ request[r] \in Local /\ StoreTypeOK
  BY <1>1 DEF TypeInv, Shape, OwnerTypeOK
<1>3. /\ pending[t] # None /\ pending[t].caller = request[r].caller
      /\ clock < pending[t].expiresAt
      /\ request[r].tool = Kind[pending[t].operation]
      /\ redeemed' = redeemed \cup {x}
      /\ pending' = [pending EXCEPT ![t] = None] /\ UNCHANGED drawn
  BY <1>1, <1>2, StoreAssumption DEF Consume, Owns, Matches
<1>4. GrantOf(t) \in Grant
  BY <1>2, <1>3, GrantOfType
<1>5. /\ GrantOf(t).operation = pending[t].operation
      /\ GrantOf(t).caller = pending[t].caller
      /\ GrantOf(t).expiresAt = pending[t].expiresAt
      /\ GrantOf(t).token = t
  BY DEF GrantOf
<1>6. Previewed(pending[t].operation)
  BY <1>2, <1>3 DEF GuardInv, GrantsPreviewed
<1>7. r \notin sent
  BY <1>1 DEF GuardInv, Clearance
<1>8. /\ now.op = pending[t].operation /\ now.grant = GrantOf(t)
      /\ now.caller = request[r].caller /\ now.tool = request[r].tool
  BY <1>2 DEF Local
<1>9. /\ x.grant = GrantOf(t) /\ x.by = request[r].caller
      /\ x.as = request[r].tool /\ x.at = clock
  OBVIOUS
<1>10. GrantsPreviewed'
  BY <1>2, <1>3 DEF GuardInv, GrantsPreviewed, StoreTypeOK
<1> HIDE DEF now, x
<1>11. /\ pc'[r] = "committed" /\ request'[r] = now
       /\ \A q \in Request : q # r => /\ pc'[q] = pc[q]
                                      /\ request'[q] = request[q]
  BY <1>1 DEF TypeInv, OwnerTypeOK
<1>12. Approved(r)'
  BY <1>3, <1>5, <1>8, <1>9, <1>11 DEF Approved
<1>13. Clearance(r)'
  BY <1>1, <1>4, <1>6, <1>7, <1>8, <1>11, <1>12, OwnerAssumption DEF Clearance
<1>14. \A q \in Request : Clearance(q)'
  <2>1. ASSUME NEW q \in Request, q # r
        PROVE  Clearance(q)'
    BY <1>1, <1>3, <1>11, <2>1, BystanderCleared DEF GuardInv
  <2> QED
    BY <1>13, <2>1
<1>15. \A y \in redeemed : y.grant # GrantOf(t)
  BY <1>3, <1>5 DEF NoReplay
<1>16. \A q \in Request : q # r => request'[q].grant # GrantOf(t) \/ request'[q].grant = None
  BY <1>11, <1>15 DEF GuardInv, GrantsRedeemed
<1>17. GrantsRedeemed'
  BY <1>3, <1>8, <1>9, <1>11 DEF GuardInv, GrantsRedeemed
<1>18. GrantsDistinct'
  BY <1>8, <1>11, <1>16 DEF GuardInv, GrantsDistinct
<1> QED
  BY <1>10, <1>14, <1>17, <1>18 DEF GuardInv

\* The other steps of a commit: the lookup, the refusals and the record.
LEMMA CommitStepsKeepGuard ==
  ASSUME TypeInv, GuardInv, NEW r \in Request,
         \/ PreviewKnown(r) \/ PreviewUnknown(r)
         \/ RedeemLate(r) \/ RedeemRefused(r) \/ RecordCommit(r)
  PROVE  GuardInv'
<1>0. pc[r] \in {"lookup", "consume", "committed"} /\ UNCHANGED <<sent, redeemed>>
  BY DEF PreviewKnown, PreviewUnknown, RedeemLate, RedeemRefused, RecordCommit,
         At, ConsumeExpired, storeVars
<1>1. r \notin sent
  BY <1>0 DEF GuardInv, Clearance
<1>2. CASE PreviewKnown(r)
  <2> DEFINE now == [request[r] EXCEPT
                       !.session = previews[request[r].token].account]
  <2>1. /\ UNCHANGED trail /\ GrantsPreviewed' /\ Go(r, "consume", now)
    BY <1>2, PreviewedUnchanged DEF PreviewKnown
  <2>2. /\ now.op = request[r].op /\ now.caller = request[r].caller
        /\ now.grant = request[r].grant /\ now.tool = request[r].tool
    BY DEF TypeInv, OwnerTypeOK, Local
  <2> HIDE DEF now
  <2> QED
    BY <1>0, <1>1, <2>1, <2>2, MoveKeepsGuard DEF Go
<1>3. CASE PreviewUnknown(r) \/ RedeemRefused(r)
  <2>1. UNCHANGED trail /\ GrantsPreviewed' /\ Fail(r)
    BY <1>3, PreviewedUnchanged DEF PreviewUnknown, RedeemRefused
  <2> QED
    BY <1>0, <2>1, FailKeepsGuard
<1>4. CASE RedeemLate(r)
  <2>1. UNCHANGED trail /\ Fail(r)
    BY <1>4 DEF RedeemLate
  <2>2. GrantsPreviewed'
    BY <1>4 DEF RedeemLate, ConsumeExpired, TypeInv, OwnerTypeOK, StoreTypeOK,
                GuardInv, GrantsPreviewed
  <2> QED
    BY <1>0, <2>1, <2>2, FailKeepsGuard
<1>5. CASE RecordCommit(r)
  <2>1. PICK ok \in BOOLEAN :
          /\ Record(r, "committed", "allow", ok)
          /\ IF ok THEN Go(r, "execute", request[r]) ELSE Fail(r)
    BY <1>5 DEF RecordCommit
  <2>2. GrantsPreviewed' /\ UNCHANGED redeemed /\ trail \subseteq trail'
    BY <1>5, <2>1, PreviewedUnchanged DEF RecordCommit, storeVars, Record
  <2>3. CASE Fail(r)
    BY <1>0, <2>2, <2>3, FailKeepsGuard
  <2>4. CASE ok /\ Go(r, "execute", request[r])
    <3>1. /\ pc' = [pc EXCEPT ![r] = "execute"]
          /\ request' = [request EXCEPT ![r] = request[r]]
      BY <2>4 DEF Go
    <3>2. pc'[r] = "execute" /\ request'[r] = request[r]
      BY <3>1 DEF TypeInv, OwnerTypeOK
    <3>3. /\ request[r].grant # None
          /\ Approved(r) /\ Previewed(request[r].op)
      BY <1>5 DEF RecordCommit, At, GuardInv, Clearance
    <3>4. Permitted(r)'
      BY <2>2, <3>2, <3>3 DEF Permitted, Approved
    <3>5. [request |-> r, phase |-> "committed", outcome |-> "allow",
           op |-> request[r].op, caller |-> request[r].caller] \in trail'
      BY <2>1, <2>4 DEF Record
    <3>6. Audited(r)'
      BY <3>2, <3>3, <3>5 DEF Audited
    <3>7. Clearance(r)'
      BY <1>0, <1>1, <3>2, <3>4, <3>6 DEF Clearance
    <3> QED
      BY <1>0, <2>2, <3>1, <3>7, ActorKeepsGuard
  <2> QED
    BY <2>1, <2>3, <2>4
<1> QED
  BY <1>2, <1>3, <1>4, <1>5

\* The remote call: only a handler that was cleared makes it.
LEMMA ExecutionStepsKeepGuard ==
  ASSUME TypeInv, GuardInv, NEW r \in Request,
         Execute(r) \/ Complete(r) \/ ForgetPreview(r)
  PROVE  GuardInv'
<1>0. UNCHANGED storeVars /\ GrantsPreviewed' /\ UNCHANGED redeemed
  BY PreviewedUnchanged DEF Execute, Complete, ForgetPreview, storeVars
<1>1. CASE Execute(r)
  <2>1. /\ pc[r] = "execute" /\ sent' = sent \cup {r} /\ UNCHANGED trail
        /\ pc' = [pc EXCEPT ![r] = "remote"]
        /\ request' = [request EXCEPT ![r] = request[r]]
    BY <1>1 DEF Execute, At, Go
  <2>2. pc'[r] = "remote" /\ request'[r] = request[r]
    BY <2>1 DEF TypeInv, OwnerTypeOK
  <2>3. Permitted(r) /\ Audited(r)
    BY <2>1 DEF GuardInv, Clearance
  <2>4. Permitted(r)' /\ Audited(r)'
    BY <1>0, <2>1, <2>2, <2>3 DEF Permitted, Audited, Approved, Verdict
  <2>5. Clearance(r)'
    BY <2>2, <2>4 DEF Clearance
  <2> QED
    BY <1>0, <2>1, <2>5, ActorKeepsGuard
<1>2. CASE Complete(r)
  <2>1. PICK outcome \in Outcomes(Kind[request[r].op]), ok \in BOOLEAN :
          /\ Record(r, "executed", outcome, ok)
          /\ \/ Return(r, "error") \/ Return(r, "success")
             \/ Go(r, "forget", request[r])
    BY <1>2 DEF Complete
  <2>2. trail \subseteq trail' /\ UNCHANGED sent
    BY <1>2, <2>1 DEF Record, Complete
  <2>3. CASE Return(r, "error") \/ Return(r, "success")
    BY <1>0, <2>2, <2>3, ReturnKeepsGuard
  <2>4. CASE Go(r, "forget", request[r])
    BY <1>0, <2>2, <2>4, GoKeepsGuard
  <2> QED
    BY <2>1, <2>3, <2>4
<1>3. CASE ForgetPreview(r)
  <2>1. Return(r, "success") /\ UNCHANGED <<trail, sent>>
    BY <1>3 DEF ForgetPreview
  <2> QED
    BY <1>0, <2>1, ReturnKeepsGuard
<1> QED
  BY <1>1, <1>2, <1>3

\* Every step keeps the guard's invariant.
LEMMA GuardInvStep ==
  ASSUME TypeInv, GuardInv, NoReplay, [OwnerNext]_vars
  PROVE  GuardInv'
<1>1. ASSUME NEW r \in Request, Arrive(r)
      PROVE  GuardInv'
  BY <1>1, ArriveKeepsGuard
<1>2. ASSUME NEW r \in Request, Handle(r)
      PROVE  GuardInv'
  BY <1>2, SessionStepsKeepGuard, DecideKeepsGuard, PreviewStepsKeepGuard,
     RedeemKeepsGuard, CommitStepsKeepGuard, ExecutionStepsKeepGuard DEF Handle
<1>3. CASE \/ \E a \in Account, c \in Caller : TerminalLogin(a, c)
           \/ CloseBegin \/ CloseEnd \/ OwnerTick \/ UNCHANGED vars
  <2>1. UNCHANGED <<pc, request, trail, sent, pending, drawn, redeemed>>
    BY <1>3 DEF TerminalLogin, CloseBegin, CloseEnd, OwnerTick, Tick, vars,
                storeVars, ownerVars
  <2> QED
    BY <2>1, StutterKeepsGuard
<1> QED
  BY <1>1, <1>2, <1>3 DEF OwnerNext

\* The invariant of the guard holds of every behaviour of the owner.
LEMMA GuardInvariant == OwnerSpec => []GuardInv
<1>1. OwnerInit => GuardInv
  <2> SUFFICES ASSUME OwnerInit PROVE GuardInv
    OBVIOUS
  <2>1. \A r \in Request : request[r] = Idle /\ pc[r] = "idle" /\ r \notin sent
    BY DEF OwnerInit
  <2>2. GrantsPreviewed
    BY DEF OwnerInit, StoreInit, GrantsPreviewed
  <2>3. Idle.grant = None
    BY DEF Idle
  <2>4. \A r \in Request : Clearance(r)
    BY <2>1, <2>3 DEF Clearance
  <2>5. GrantsRedeemed /\ GrantsDistinct
    BY <2>1, <2>3 DEF GrantsRedeemed, GrantsDistinct
  <2> QED
    BY <2>2, <2>4, <2>5 DEF GuardInv
<1>2. TypeInv /\ NoReplay /\ GuardInv /\ [OwnerNext]_vars => GuardInv'
  BY GuardInvStep
<1>3. OwnerSpec => []NoReplay
  BY OwnerKeepsStoreContract, ApprovalsAreSingleUse, PTL DEF KeepsStoreContract
<1> QED
  BY <1>1, <1>2, <1>3, TypeInvariant, PTL DEF OwnerSpec

\* The effect of every class is a read or a write (effect.go).
LEMMA CatalogueEffects ==
  ASSUME NEW class \in Catalogue
  PROVE  class.effect \in Reads \cup Writes
BY DEF Catalogue, Class, Reads, Writes, MailList, MailSearch, MailFolders,
       MailBody, MailAttachment, MailDraft, MailMove, MailReadState, MailSend,
       MailDelete, CalendarList, CalendarCreate, CalendarUpdate, CalendarCancel

\* What the policy does not deny in read-only mode is a read (rules.go).
LEMMA DenialsOfEvaluate ==
  ASSUME NEW effect \in Reads \cup Writes, Mode = "read_only",
         Evaluate(effect) \in {"allow", "preview"}
  PROVE  effect \in Reads
<1>1. CASE effect \in Reads
  BY <1>1
<1>2. CASE effect \in Writes
  BY <1>2 DEF Evaluate, IsWrite, Writes
<1> QED
  BY <1>1, <1>2

\* What the policy allows without a preview needs none (rules.go).
LEMMA AllowancesOfEvaluate ==
  ASSUME NEW effect \in Reads \cup Writes, Evaluate(effect) = "allow"
  PROVE  /\ effect \notin {"external_write", "destructive_write"}
         /\ effect = "sensitive_read" => ~PreviewSensitiveReads
         /\ effect = "reversible_write" => ~PreviewReversibleWrites
<1>1. effect \notin {"external_write", "destructive_write"}
  BY DEF Evaluate, IsWrite, Writes
<1>2. effect = "sensitive_read" => ~PreviewSensitiveReads
  BY PolicyAssumption DEF Evaluate
<1>3. effect = "reversible_write" => ~PreviewReversibleWrites
  BY PolicyAssumption DEF Evaluate, IsWrite, Writes
<1> QED
  BY <1>1, <1>2, <1>3

\* Nothing reaches the mailbox service against the policy (rules.go, guard.go,
\* the services): whatever the configuration, and however calls, commits, the
\* clock, logins and Close interleave.
THEOREM PolicyIsEnforced == OwnerSpec => []PolicyEnforced
<1>1. TypeInv /\ GuardInv => PolicyEnforced
  <2> SUFFICES ASSUME TypeInv, GuardInv, NEW r \in sent
               PROVE  LET effect == Kind[request[r].op].effect
                      IN /\ Mode = "read_only" => effect \in Reads
                         /\ \/ effect \in {"external_write", "destructive_write"}
                            \/ effect = "sensitive_read" /\ PreviewSensitiveReads
                            \/ effect = "reversible_write" /\ PreviewReversibleWrites
                            => Approved(r)
    BY DEF PolicyEnforced
  <2> DEFINE effect == Kind[request[r].op].effect
  <2>1. r \in Request
    BY DEF TypeInv, OwnerTypeOK
  <2>2. Permitted(r)
    BY <2>1 DEF GuardInv, Clearance
  <2>3. Evaluate(effect) = "allow" \/ (Evaluate(effect) = "preview" /\ Approved(r))
    BY <2>2 DEF Permitted, Previewed, RunsOn, Verdict
  <2>4. request[r].op \in Operation
    <3>1. PICK e \in trail : e.op = request[r].op
      BY <2>1 DEF GuardInv, Clearance, Audited
    <3> QED
      BY <3>1 DEF TypeInv, OwnerTypeOK, Event
  <2>5. effect \in Reads \cup Writes
    <3>1. Kind[request[r].op] \in Catalogue
      BY <2>4, OwnerAssumption
    <3> QED
      BY <3>1, CatalogueEffects
  <2>6. Evaluate(effect) \in {"allow", "preview"}
    BY <2>3
  <2> HIDE DEF effect
  <2>7. Mode = "read_only" => effect \in Reads
    BY <2>5, <2>6, DenialsOfEvaluate
  <2>8. \/ effect \in {"external_write", "destructive_write"}
        \/ effect = "sensitive_read" /\ PreviewSensitiveReads
        \/ effect = "reversible_write" /\ PreviewReversibleWrites
        => Approved(r)
    BY <2>3, <2>5, AllowancesOfEvaluate
  <2> QED
    BY <2>7, <2>8 DEF effect
<1> QED
  BY <1>1, TypeInvariant, GuardInvariant, PTL

\* One approval is executed at most once (guard.go, CommitFor; store.go,
\* consume).
THEOREM ApprovalsRunOnce == OwnerSpec => []OneExecutionPerApproval
<1>1. TypeInv /\ GuardInv => OneExecutionPerApproval
  BY DEF OneExecutionPerApproval, GuardInv, GrantsDistinct, TypeInv, OwnerTypeOK
<1> QED
  BY <1>1, TypeInvariant, GuardInvariant, PTL

\* Nothing is sent that the audit file does not show as allowed (guard.go,
\* Prepare and CommitFor; audit.go, Record).
THEOREM NothingSentUnaudited == OwnerSpec => []AuditedBeforeSent
<1>1. TypeInv /\ GuardInv => AuditedBeforeSent
  BY DEF AuditedBeforeSent, GuardInv, Clearance, Audited, TypeInv, OwnerTypeOK
<1> QED
  BY <1>1, TypeInvariant, GuardInvariant, PTL
=============================================================================
