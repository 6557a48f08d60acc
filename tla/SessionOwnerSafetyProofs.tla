---------------------- MODULE SessionOwnerSafetyProofs ----------------------
(***************************************************************************)
(* More theorems about SessionOwner, for any requests, accounts, callers,  *)
(* operations and policy: browsers and Close; which session runs what, and *)
(* whether an approval can be reached; what a reported success means.      *)
(*                                                                         *)
(* The layers: what a handler's position says about mutex, WaitGroup and   *)
(* Close (LifeInv); that a token names one approval (TokenInv); what a     *)
(* handler knows of session, token and audit file (Place); and the index   *)
(* of previews (IndexInv).                                                 *)
(***************************************************************************)
EXTENDS SessionOwnerProofs

\* The mutex is held by the handler that logs in or by a terminal login, which
\* Close cannot begin under; the WaitGroup counts the handlers between entry
\* and return; nobody is left after Close.
MutexHeld ==
  /\ \A r \in Request : pc[r] \in {"launch", "login"} <=> holder = r
  /\ holder \in TerminalCall => closing = "open"
Counted == \A r \in Request : r \in active <=> pc[r] \notin {"idle", "done"}
NobodyLeft == closing = "closed" => active = {}

LifeInv == MutexHeld /\ Counted /\ NobodyLeft /\ OneBrowserPerProfile

\* A token is drawn once: it names one approval for good.
TokenInv ==
  /\ \A th \in Thread : drawn[th] # None => serial[drawn[th].token] = 0
  /\ \A th1, th2 \in Thread :
       /\ drawn[th1] # None /\ drawn[th2] # None
       /\ drawn[th1].token = drawn[th2].token
       => th1 = th2
  /\ \A t \in Token : pending[t] # None => serial[t] # 0

\* An execution of the request's operation that succeeded is on record.
Executed(r) ==
  \E e \in trail : /\ e.request = r /\ e.phase = "executed"
                   /\ e.outcome = "success" /\ e.op = request[r].op

\* The token was issued, and when it is still good the approval is for op.
Names(t, op) ==
  /\ t \in Token /\ serial[t] # 0
  /\ pending[t] # None => pending[t].operation = op

InAccount(r) ==
  /\ request[r].session = AccountOf[request[r].op]
  /\ request[r].session \in accounts

\* What a handler knows at each of its steps: of its answer, its session and
\* its token.
PlaceOfAnswer(r) ==
  LET now == request[r]
  IN /\ now.answer # None => pc[r] = "done"
     /\ pc[r] \in {"remote", "forget"} => r \in sent
     /\ pc[r] = "forget" => Executed(r) /\ now.tool # None
     /\ now.answer = "success" /\ now.op # None => r \in sent /\ Executed(r)

PlaceOfSession(r) ==
  LET now == request[r]
  IN /\ pc[r] \in {"session", "launch", "login"} /\ now.op # None =>
          now.session = AccountOf[now.op]
     /\ pc[r] \in {"prepare", "draw", "issue", "remember", "committed",
                   "execute", "remote", "forget"} => InAccount(r)
     /\ r \in sent => InAccount(r)
     /\ pc[r] = "consume" =>
          /\ now.session \in accounts
          /\ pending[now.token] # None =>
               now.session = AccountOf[pending[now.token].operation]

PlaceOfToken(r) ==
  LET now == request[r]
  IN /\ pc[r] \in {"session", "launch", "login", "prepare", "draw", "issue", "remember"} =>
          now.tool = None
     /\ pc[r] = "issue" => drawn[r] # None /\ drawn[r].operation = now.op
     /\ pc[r] = "remember" =>
          /\ Names(now.token, now.op)
          /\ pending[now.token] # None => pending[now.token].expiresAt = now.expiresAt
     /\ pc[r] = "consume" => now.token \in Token /\ serial[now.token] # 0
     /\ pc[r] \in {"committed", "execute", "remote", "forget"} /\ now.tool # None =>
          /\ now.token \in Token /\ serial[now.token] # 0
          /\ pending[now.token] = None
     /\ now.answer = "preview" => now.token \in Token /\ serial[now.token] # 0

Place(r) == PlaceOfAnswer(r) /\ PlaceOfSession(r) /\ PlaceOfToken(r)

\* The index of previews knows tokens that were issued, and their accounts.
IndexInv ==
  /\ \A t \in Token : previews[t] # None =>
       /\ serial[t] # 0
       /\ pending[t] # None => previews[t].account = AccountOf[pending[t].operation]
  /\ ApprovalReachable

PlaceInv == \A r \in Request : Place(r)

----------------------------------------------------------------------------

\* The handlers of other requests stay where they are.
Others(r) ==
  \A q \in Request : q # r =>
    pc'[q] = pc[q] /\ request'[q] = request[q] /\ (q \in active' <=> q \in active)

\* The ways a handler moves.
LEMMA Goes ==
  ASSUME TypeInv, NEW r \in Request, NEW step, NEW now, Go(r, step, now)
  PROVE  /\ pc'[r] = step /\ request'[r] = now /\ active' = active
         /\ Others(r)
BY DEF TypeInv, OwnerTypeOK, Go, Others

\* The handler of r returns its answer and leaves the server.
LEMMA Returns ==
  ASSUME TypeInv, NEW r \in Request, NEW answer, Return(r, answer)
  PROVE  /\ pc'[r] = "done" /\ r \notin active'
         /\ request'[r] = [request[r] EXCEPT !.answer = answer]
         /\ request'[r].answer = answer
         /\ request'[r].op = request[r].op
         /\ request'[r].token = request[r].token
         /\ request'[r].session = request[r].session
         /\ Others(r)
<1>1. request[r] \in Local
  BY DEF TypeInv, OwnerTypeOK
<1>2. /\ pc'[r] = "done" /\ r \notin active' /\ Others(r)
      /\ request'[r] = [request[r] EXCEPT !.answer = answer]
  BY DEF TypeInv, OwnerTypeOK, Return, Others
<1> QED
  BY <1>1, <1>2 DEF Local

\* The handler of r returns an error: what it had in its locals is gone.
LEMMA Fails ==
  ASSUME TypeInv, NEW r \in Request, Fail(r)
  PROVE  /\ pc'[r] = "done" /\ r \notin active'
         /\ request'[r].answer = "error" /\ request'[r].op = None
         /\ Others(r)
BY DEF TypeInv, OwnerTypeOK, Fail, Others, Idle

\* A request reaches its handler and counts as active from then on.
LEMMA Enters ==
  ASSUME TypeInv, NEW r \in Request, NEW step, NEW now, Enter(r, step, now)
  PROVE  /\ pc[r] = "idle" /\ pc'[r] = step /\ request'[r] = now
         /\ r \in active' /\ Others(r)
BY DEF TypeInv, OwnerTypeOK, Enter, Others, At

\* After a step of its own handler.
LEMMA AfterMove ==
  ASSUME TypeInv, LifeInv, NEW r \in Request, Others(r), active' \subseteq Request,
         r \in active' <=> pc'[r] \notin {"idle", "done"},
         closing' = closing, closing = "closed" => r \notin active'
  PROVE  Counted' /\ NobodyLeft'
<1>1. Counted'
  BY DEF LifeInv, Counted, Others
<1>2. ASSUME closing = "closed"
      PROVE  active' = {}
  BY <1>2 DEF LifeInv, NobodyLeft, Others
<1> QED
  BY <1>1, <1>2 DEF NobodyLeft

\* A handler that can go on is counted.
LEMMA RunningIsCounted ==
  ASSUME TypeInv, LifeInv, NEW r \in Request, Handle(r)
  PROVE  /\ pc[r] \notin {"idle", "done"} /\ r \in active
         /\ closing # "closed" /\ closing' = closing
<1>1. pc[r] \notin {"idle", "done"} /\ closing' = closing
  BY DEF Handle, At, SessionFound, SessionBusy, LoginStart, LoginLaunched, LoginDone, LoginFailed,
         Decide, DrawToken, DrawFails, IssuePreview, IssueFails, RememberPreview,
         PreviewKnown, PreviewUnknown, Redeem, RedeemLate, RedeemRefused,
         RecordCommit, Execute, Complete, ForgetPreview
<1> QED
  BY <1>1 DEF LifeInv, Counted, NobodyLeft

\* The steps that neither log in nor enter.
LEMMA HandleMoves ==
  ASSUME TypeInv, NEW r \in Request, Handle(r),
         ~LoginStart(r), ~LoginLaunched(r), ~LoginDone(r), ~LoginFailed(r)
  PROVE  /\ UNCHANGED <<accounts, holder, terminal>>
         /\ pc[r] \notin {"launch", "login"}
         /\ \/ \E answer : Return(r, answer)
            \/ Fail(r)
            \/ \E step, now : Go(r, step, now) /\ step \notin {"idle", "done", "launch", "login"}
<1> DEFINE Moves == \/ \E answer : Return(r, answer)
                    \/ Fail(r)
                    \/ \E step, now : /\ Go(r, step, now)
                                      /\ step \notin {"idle", "done", "launch", "login"}
<1> USE DEF At
<1>1. CASE SessionFound(r) \/ SessionBusy(r)
  BY <1>1 DEF SessionFound, SessionBusy, WithSession
<1>2. CASE Decide(r)
  BY <1>2 DEF Decide
<1>3. CASE DrawToken(r) \/ DrawFails(r) \/ IssuePreview(r) \/ IssueFails(r)
  BY <1>3 DEF DrawToken, DrawFails, IssuePreview, IssueFails
<1>4. CASE RememberPreview(r) \/ PreviewKnown(r) \/ PreviewUnknown(r)
  BY <1>4 DEF RememberPreview, PreviewKnown, PreviewUnknown
<1>5. CASE Redeem(r) \/ RedeemLate(r) \/ RedeemRefused(r)
  BY <1>5 DEF Redeem, RedeemLate, RedeemRefused
<1>6. CASE RecordCommit(r)
  BY <1>6 DEF RecordCommit
<1>7. CASE Execute(r) \/ Complete(r) \/ ForgetPreview(r)
  BY <1>7 DEF Execute, Complete, ForgetPreview
<1> QED
  BY <1>1, <1>2, <1>3, <1>4, <1>5, <1>6, <1>7 DEF Handle

\* A handler that goes on stays counted, one that returns is no longer.
LEMMA MovesStayCounted ==
  ASSUME TypeInv, NEW r \in Request, r \in active,
         \/ \E answer : Return(r, answer)
         \/ Fail(r)
         \/ \E step, now : Go(r, step, now) /\ step \notin {"idle", "done", "launch", "login"}
  PROVE  /\ Others(r) /\ pc'[r] \notin {"idle", "launch", "login"}
         /\ r \in active' <=> pc'[r] \notin {"idle", "done"}
<1>1. ASSUME NEW answer, Return(r, answer)
      PROVE  Others(r) /\ pc'[r] = "done" /\ r \notin active'
  BY <1>1, Returns
<1>2. CASE Fail(r)
  BY <1>2, Fails
<1>3. ASSUME NEW step, NEW now, Go(r, step, now)
      PROVE  Others(r) /\ pc'[r] = step /\ active' = active
  BY <1>3, Goes
<1> QED
  BY <1>1, <1>2, <1>3

\* An ordinary step keeps the browsers apart.
LEMMA MoveKeepsLife ==
  ASSUME TypeInv, LifeInv, NEW r \in Request, Handle(r),
         ~LoginStart(r), ~LoginLaunched(r), ~LoginDone(r), ~LoginFailed(r)
  PROVE  LifeInv'
<1>1. /\ UNCHANGED <<accounts, holder, terminal>> /\ pc[r] \notin {"launch", "login"}
      /\ \/ \E answer : Return(r, answer)
         \/ Fail(r)
         \/ \E step, now : Go(r, step, now) /\ step \notin {"idle", "done", "launch", "login"}
  BY HandleMoves
<1>2. /\ pc[r] \notin {"idle", "done"} /\ r \in active
      /\ closing # "closed" /\ closing' = closing
  BY RunningIsCounted
<1>3. /\ Others(r) /\ pc'[r] \notin {"idle", "launch", "login"}
      /\ r \in active' <=> pc'[r] \notin {"idle", "done"}
  BY <1>1, <1>2, MovesStayCounted
<1>4. active' \subseteq Request
  BY <1>1 DEF TypeInv, OwnerTypeOK, Go, Return, Fail
<1>5. Counted' /\ NobodyLeft'
  BY <1>2, <1>3, <1>4, AfterMove
<1>6. MutexHeld'
  BY <1>1, <1>2, <1>3 DEF LifeInv, MutexHeld, Others
<1>7. OneBrowserPerProfile'
  BY <1>1, <1>3 DEF LifeInv, MutexHeld, OneBrowserPerProfile, Others, TypeInv,
                    OwnerTypeOK
<1> QED
  BY <1>5, <1>6, <1>7 DEF LifeInv

\* The mutex is taken for a login of an account nobody uses, and given back
\* whether the login succeeds or not.
LEMMA LoginKeepsLife ==
  ASSUME TypeInv, LifeInv, NEW r \in Request,
         LoginStart(r) \/ LoginLaunched(r) \/ LoginDone(r) \/ LoginFailed(r)
  PROVE  LifeInv'
<1> USE DEF At
<1>0. r # None
  BY OwnerAssumption
<1>1. /\ pc[r] \notin {"idle", "done"} /\ r \in active
      /\ closing # "closed" /\ closing' = closing
  BY RunningIsCounted DEF Handle
<1>2. active' \subseteq Request
  BY DEF LoginStart, LoginLaunched, LoginDone, LoginFailed, WithSession, Go, Return, Fail,
         TypeInv, OwnerTypeOK
<1>3. CASE LoginStart(r)
  <2>1. Go(r, "launch", request[r]) /\ holder' = r /\ holder = None
    BY <1>3 DEF LoginStart, MuFree
  <2>2. /\ pc'[r] = "launch" /\ request'[r] = request[r] /\ active' = active
        /\ Others(r)
    BY <2>1, Goes
  <2>3. Counted' /\ NobodyLeft'
    BY <1>1, <1>2, <2>2, AfterMove
  <2>4. MutexHeld'
    BY <1>0, <2>1, <2>2, OwnerAssumption DEF LifeInv, MutexHeld, Others
  <2>5. OneBrowserPerProfile'
    BY <1>3, <2>1, <2>2, OwnerAssumption
    DEF LifeInv, OneBrowserPerProfile, LoginStart
  <2> QED
    BY <2>3, <2>4, <2>5 DEF LifeInv
<1>4. CASE LoginDone(r) \/ LoginFailed(r)
  <2>1. /\ holder = r /\ holder' = None
        /\ request[r].session \notin accounts /\ terminal[request[r].session] = None
    BY <1>0, <1>4 DEF LifeInv, MutexHeld, OneBrowserPerProfile, LoginDone, LoginFailed
  <2>2. \/ \E answer : Return(r, answer)
        \/ Fail(r)
        \/ \E step, now : Go(r, step, now) /\ step \notin {"idle", "done", "launch", "login"}
    BY <1>4 DEF LoginDone, LoginFailed, WithSession
  <2>3. /\ Others(r) /\ pc'[r] \notin {"idle", "launch", "login"}
        /\ r \in active' <=> pc'[r] \notin {"idle", "done"}
    BY <1>1, <2>2, MovesStayCounted
  <2>4. Counted' /\ NobodyLeft'
    BY <1>1, <1>2, <2>3, AfterMove
  <2>5. MutexHeld'
    BY <1>0, <2>1, <2>3, OwnerAssumption DEF LifeInv, MutexHeld, Others
  <2>6. /\ accounts' \subseteq accounts \cup {request[r].session}
        /\ terminal' = terminal
    BY <1>4 DEF LoginDone, LoginFailed
  <2>7. OneBrowserPerProfile'
    BY <2>1, <2>6, OwnerAssumption DEF LifeInv, OneBrowserPerProfile
  <2> QED
    BY <2>4, <2>5, <2>7 DEF LifeInv
<1>5. CASE LoginLaunched(r)
  <2>1. /\ Go(r, "login", request[r]) /\ pc[r] = "launch"
        /\ UNCHANGED <<accounts, holder, terminal>>
    BY <1>5 DEF LoginLaunched
  <2>2. /\ pc'[r] = "login" /\ request'[r] = request[r] /\ active' = active
        /\ Others(r)
    BY <2>1, Goes
  <2>3. Counted' /\ NobodyLeft'
    BY <1>1, <1>2, <2>2, AfterMove
  <2>4. MutexHeld' /\ holder = r
    BY <1>1, <2>1, <2>2 DEF LifeInv, MutexHeld, Others
  <2>5. OneBrowserPerProfile'
    BY <2>1, <2>2, <2>4 DEF LifeInv, OneBrowserPerProfile
  <2> QED
    BY <2>3, <2>4, <2>5 DEF LifeInv
<1> QED
  BY <1>3, <1>4, <1>5

\* The first critical section counts a request, or refuses it after Close.
LEMMA ArriveKeepsLife ==
  ASSUME TypeInv, LifeInv, NEW r \in Request, Arrive(r)
  PROVE  LifeInv'
<1>1. /\ UNCHANGED <<accounts, holder, terminal, closing>> /\ holder = None
      /\ active' \subseteq Request
  BY DEF Arrive, EnterRefused, EnterLogin, EnterOperation, EnterCommit, Enter,
         Fail, MuFree, TypeInv, OwnerTypeOK
<1>2. \/ Fail(r)
      \/ \E step \in {"session", "lookup"} : \E now : Enter(r, step, now)
  BY DEF Arrive, EnterRefused, EnterLogin, EnterOperation, EnterCommit
<1>3. /\ Others(r) /\ pc'[r] \notin {"idle", "launch", "login"}
      /\ r \in active' <=> pc'[r] \notin {"idle", "done"}
      /\ closing = "closed" => r \notin active'
  <2>1. CASE Fail(r)
    BY <2>1, Fails
  <2>2. ASSUME NEW step \in {"session", "lookup"}, NEW now, Enter(r, step, now)
        PROVE  /\ Others(r) /\ pc'[r] \notin {"idle", "launch", "login"}
               /\ r \in active' <=> pc'[r] \notin {"idle", "done"}
               /\ closing = "closed" => r \notin active'
    <3>1. closing = "open"
      BY <2>2 DEF Enter
    <3> QED
      BY <2>2, <3>1, Enters
  <2> QED
    BY <1>2, <2>1, <2>2
<1>4. Counted' /\ NobodyLeft'
  BY <1>1, <1>3, AfterMove
<1>5. MutexHeld'
  BY <1>1, <1>3, OwnerAssumption DEF LifeInv, MutexHeld, Others
<1>6. OneBrowserPerProfile'
  BY <1>1, OwnerAssumption DEF LifeInv, OneBrowserPerProfile
<1> QED
  BY <1>4, <1>5, <1>6 DEF LifeInv

\* Every step keeps the layer of mutex, WaitGroup and Close.
LEMMA LifeInvStep ==
  ASSUME TypeInv, LifeInv, [OwnerNext]_vars
  PROVE  LifeInv'
<1>1. ASSUME NEW r \in Request, Arrive(r)
      PROVE  LifeInv'
  BY <1>1, ArriveKeepsLife
<1>2. ASSUME NEW r \in Request, Handle(r)
      PROVE  LifeInv'
  BY <1>2, MoveKeepsLife, LoginKeepsLife
<1>3. ASSUME NEW a \in Account, NEW c \in Caller, TerminalLogin(a, c)
      PROVE  LifeInv'
  <2>0. /\ None \notin TerminalCall /\ None \notin Request
        /\ \A q \in Request : q \notin TerminalCall
    BY OwnerAssumption
  <2>1. /\ UNCHANGED <<pc, request, active, closing>>
        /\ holder \in TerminalCall \cup {None}
        /\ holder' \in TerminalCall \cup {None}
    BY <1>3 DEF TerminalLogin, TerminalStart, TerminalResume, Takes,
                TerminalLaunched, TerminalLaunchFails, TerminalPending,
                TerminalFinished, TerminalDropped, Holds, TerminalCall, MuFree
  <2>2. closing = "open"
    BY <1>3 DEF TerminalLogin, TerminalStart, TerminalResume, Takes,
                TerminalLaunched, TerminalLaunchFails, TerminalPending,
                TerminalFinished, TerminalDropped, Holds, TerminalCall,
                LifeInv, MutexHeld
  <2>3. MutexHeld'
    BY <2>0, <2>1, <2>2 DEF LifeInv, MutexHeld
  <2>4. OneBrowserPerProfile'
    <3>1. CASE TerminalStart(a, c)
      BY <1>3, <2>0, <2>1, <3>1
      DEF TerminalLogin, TerminalStart, Takes, LifeInv, OneBrowserPerProfile
    <3>2. CASE TerminalResume(a, c)
      BY <1>3, <2>0, <2>1, <3>2
      DEF TerminalLogin, TerminalResume, Takes, LifeInv, OneBrowserPerProfile
    <3>3. CASE TerminalLaunched(a, c)
      BY <1>3, <2>0, <2>1, <3>3
      DEF TerminalLogin, TerminalLaunched, Holds, TerminalCall, LifeInv,
          OneBrowserPerProfile, TypeInv, OwnerTypeOK
    <3>4. CASE TerminalLaunchFails(a, c) \/ TerminalPending(a, c)
      BY <1>3, <2>0, <2>1, <3>4
      DEF TerminalLogin, TerminalLaunchFails, TerminalPending, LifeInv,
          OneBrowserPerProfile
    <3>5. CASE TerminalFinished(a, c) \/ TerminalDropped(a, c)
      BY <1>3, <2>0, <2>1, <3>5
      DEF TerminalLogin, TerminalFinished, TerminalDropped, LifeInv,
          OneBrowserPerProfile, TypeInv, OwnerTypeOK
    <3> QED
      BY <1>3, <3>1, <3>2, <3>3, <3>4, <3>5 DEF TerminalLogin
  <2> QED
    BY <2>1, <2>3, <2>4 DEF LifeInv, Counted, NobodyLeft
<1>4. CASE CloseBegin \/ CloseEnd
  BY <1>4, OwnerAssumption
  DEF LifeInv, MutexHeld, Counted, NobodyLeft, OneBrowserPerProfile,
      CloseBegin, CloseEnd, MuFree
<1>5. CASE OwnerTick \/ UNCHANGED vars
  BY <1>5 DEF LifeInv, MutexHeld, Counted, NobodyLeft, OneBrowserPerProfile,
              OwnerTick, ownerVars, vars
<1> QED
  BY <1>1, <1>2, <1>3, <1>4, <1>5 DEF OwnerNext

\* The life cycle of the browser and of the requests of OwnerServer, in every state.
LEMMA LifeInvariant == OwnerSpec => []LifeInv
<1>1. OwnerInit => LifeInv
  BY OwnerAssumption DEF OwnerInit, LifeInv, MutexHeld, Counted, NobodyLeft,
                         OneBrowserPerProfile
<1>2. TypeInv /\ LifeInv /\ [OwnerNext]_vars => LifeInv'
  BY LifeInvStep
<1> QED
  BY <1>1, <1>2, TypeInvariant, PTL DEF OwnerSpec

\* The profile directory of an account is used by one browser
\* (session_backend.go, accountServices and TerminalLogin): the inductive
\* invariant says who holds the mutex while a browser starts.
THEOREM ProfilesAreNotShared == OwnerSpec => []OneBrowserPerProfile
<1>1. LifeInv => OneBrowserPerProfile
  BY DEF LifeInv
<1> QED
  BY <1>1, LifeInvariant, PTL

\* No handler runs after Close has closed browsers and audit file
\* (session_backend.go, Close): the WaitGroup counts exactly the handlers
\* between their entry and their return.
THEOREM CloseLeavesNobody == OwnerSpec => []QuietAfterClose
<1>1. TypeInv /\ LifeInv => QuietAfterClose
  BY DEF LifeInv, MutexHeld, Counted, NobodyLeft, QuietAfterClose, TypeInv,
         OwnerTypeOK
<1> QED
  BY <1>1, TypeInvariant, LifeInvariant, PTL

----------------------------------------------------------------------------

\* What one step of a handler does to the approval store.
StoreMove(r) ==
  \/ UNCHANGED <<pending, drawn, serial>>
  \/ \E t \in Token, op \in Operation, c \in Caller :
       FreshToken(t) /\ Draw(r, t, op, c)
  \/ Issue(r)
  \/ IssueRefused(r)
  \/ \E t \in Token : /\ pending' = [pending EXCEPT ![t] = None]
                      /\ UNCHANGED <<drawn, serial>>

\* A handler changes the approvals only by Issue, or by taking one out.
LEMMA HandleMovesStore ==
  ASSUME TypeInv, NEW r \in Request, Handle(r)
  PROVE  StoreMove(r)
<1> USE DEF At, storeVars
<1>1. CASE DrawToken(r)
  <2>1. request[r].op \in Operation /\ request[r].caller \in Caller
    BY <1>1 DEF DrawToken, TypeInv, Shape, Bound
  <2> QED
    BY <1>1, <2>1 DEF DrawToken, StoreMove
<1>2. CASE IssuePreview(r) \/ IssueFails(r)
  BY <1>2 DEF IssuePreview, IssueFails, StoreMove
<1>3. CASE Redeem(r) \/ RedeemLate(r)
  <2>1. request[r].token \in Token
    BY <1>3 DEF Redeem, RedeemLate, TypeInv, Shape
  <2> QED
    BY <1>3, <2>1 DEF Redeem, RedeemLate, Consume, ConsumeExpired, StoreMove
<1>4. CASE \/ SessionFound(r) \/ SessionBusy(r) \/ LoginStart(r) \/ LoginLaunched(r)
           \/ LoginDone(r) \/ LoginFailed(r) \/ Decide(r) \/ DrawFails(r)
           \/ RememberPreview(r) \/ PreviewKnown(r) \/ PreviewUnknown(r)
           \/ RedeemRefused(r) \/ RecordCommit(r) \/ Execute(r)
           \/ Complete(r) \/ ForgetPreview(r)
  <2>1. UNCHANGED storeVars
    BY <1>4 DEF SessionFound, SessionBusy, LoginStart, LoginLaunched, LoginDone, LoginFailed,
                Decide, DrawFails, RememberPreview, PreviewKnown,
                PreviewUnknown, RedeemRefused, RecordCommit, Execute, Complete,
                ForgetPreview
  <2> QED
    BY <2>1 DEF StoreMove
<1> QED
  BY <1>1, <1>2, <1>3, <1>4 DEF Handle

\* The other steps only move the clock.
LEMMA RestLeavesTokens ==
  ASSUME \/ \E r \in Request : Arrive(r)
         \/ \E a \in Account, c \in Caller : TerminalLogin(a, c)
         \/ CloseBegin \/ CloseEnd \/ OwnerTick \/ UNCHANGED vars
  PROVE  UNCHANGED <<pending, drawn, serial>>
<1>1. CASE \E r \in Request : Arrive(r)
  BY <1>1, ArriveIsStoreStutter DEF storeVars
<1> QED
  BY <1>1 DEF TerminalLogin, CloseBegin, CloseEnd, OwnerTick, Tick, vars, storeVars

\* A token that was issued stays issued, and its approval can only go.
Settled(t) ==
  serial[t] # 0 => serial'[t] # 0 /\ pending'[t] \in {pending[t], None}

\* A handler's step on the store: other calls keep their token, issued tokens
\* settle, and tokens keep naming one approval.
LEMMA StoreMoveKeepsTokens ==
  ASSUME TypeInv, TokenInv, NEW r \in Request, StoreMove(r)
  PROVE  /\ TokenInv'
         /\ \A t \in Token : Settled(t)
         /\ \A q \in Request : q # r => drawn'[q] = drawn[q]
<1> USE DEF Settled
<1>0. StoreTypeOK /\ Thread = Request /\ r \in Thread
  BY OwnerAssumption, TypeInvParts
<1>1. CASE UNCHANGED <<pending, drawn, serial>>
  BY <1>1 DEF TokenInv
<1>2. ASSUME NEW t \in Token, NEW op \in Operation, NEW c \in Caller,
             FreshToken(t), Draw(r, t, op, c)
      PROVE  /\ TokenInv'
             /\ \A u \in Token : Settled(u)
             /\ \A q \in Request : q # r => drawn'[q] = drawn[q]
  <2>1. /\ UNCHANGED <<pending, serial>> /\ drawn'[r].token = t
        /\ \A q \in Request : q # r => drawn'[q] = drawn[q]
    BY <1>0, <1>2 DEF Draw, StoreTypeOK
  <2>2. serial[t] = 0 /\ \A q \in Request : drawn[q] # None => drawn[q].token # t
    BY <1>0, <1>2 DEF FreshToken
  <2>3. TokenInv'
    BY <1>0, <2>1, <2>2 DEF TokenInv
  <2> QED
    BY <2>1, <2>3
<1>3. CASE Issue(r) \/ IssueRefused(r)
  <2> DEFINE tok == drawn[r].token
             live == Pruned(pending, drawn[r].now)
  <2>1. drawn[r] \in Call /\ drawn[r] # None
    BY <1>0, <1>3 DEF Issue, IssueRefused, StoreTypeOK
  <2>2. tok \in Token /\ drawn[r].now \in Time
    BY <2>1 DEF Call
  <2>3. serial[tok] = 0
    BY <1>0, <2>1 DEF TokenInv
  <2>4. /\ live \in [Token -> Entry \cup {None}]
        /\ \A t \in Token : live[t] \in {pending[t], None}
    BY <1>0, <2>2, PrunedType
  <2>5. drawn' = [drawn EXCEPT ![r] = None]
    BY <1>3 DEF Issue, IssueRefused
  <2>6. drawn'[r] = None /\ \A q \in Request : q # r => drawn'[q] = drawn[q]
    BY <1>0, <2>5 DEF StoreTypeOK
  <2>7. /\ \A t \in Token : t # tok => /\ pending'[t] \in {pending[t], None}
                                       /\ serial'[t] = serial[t]
        /\ pending'[tok] # None => serial'[tok] # 0
    <3>1. CASE Issue(r)
      <4>1. serial' = [serial EXCEPT ![tok] = @ + 1]
        BY <3>1 DEF Issue
      <4>2. serial'[tok] = 1 /\ \A t \in Token : t # tok => serial'[t] = serial[t]
        BY <1>0, <2>2, <2>3, <4>1 DEF StoreTypeOK
      <4>3. PICK e : pending' = [live EXCEPT ![tok] = e]
        BY <3>1 DEF Issue
      <4> HIDE DEF live
      <4> QED
        BY <2>2, <2>4, <4>2, <4>3
    <3>2. CASE IssueRefused(r)
      <4>1. pending' = live /\ serial' = serial
        BY <3>2 DEF IssueRefused
      <4>2. pending[tok] = None
        BY <1>0, <2>2, <2>3 DEF TokenInv
      <4> HIDE DEF live
      <4> QED
        BY <2>2, <2>4, <4>1, <4>2
    <3> QED
      BY <1>3, <3>1, <3>2
  <2>8. \A q \in Request : q # r /\ drawn[q] # None => drawn[q].token # tok
    BY <1>0, <2>1 DEF TokenInv
  <2>9. \A q \in Request : drawn[q] # None => drawn[q].token \in Token
    BY <1>0 DEF StoreTypeOK, Call
  <2> HIDE DEF tok, live
  <2>10. TokenInv'
    <3>1. \A q \in Request : drawn'[q] # None => serial'[drawn'[q].token] = 0
      BY <1>0, <2>6, <2>7, <2>8, <2>9 DEF TokenInv
    <3>2. \A p, q \in Request : drawn'[p] # None /\ drawn'[q] # None
                                /\ drawn'[p].token = drawn'[q].token => p = q
      BY <1>0, <2>6 DEF TokenInv
    <3>3. \A t \in Token : pending'[t] # None => serial'[t] # 0
      BY <2>7 DEF TokenInv
    <3> QED
      BY <1>0, <3>1, <3>2, <3>3 DEF TokenInv
  <2>11. \A t \in Token : Settled(t)
    BY <2>3, <2>7
  <2> QED
    BY <2>6, <2>10, <2>11
<1>4. ASSUME NEW t \in Token, pending' = [pending EXCEPT ![t] = None],
             UNCHANGED <<drawn, serial>>
      PROVE  /\ TokenInv'
             /\ \A u \in Token : Settled(u)
             /\ \A q \in Request : q # r => drawn'[q] = drawn[q]
  BY <1>0, <1>4 DEF TokenInv, StoreTypeOK
<1> QED
  BY <1>1, <1>2, <1>3, <1>4 DEF StoreMove

\* Every step of the owner: tokens keep naming one approval.
LEMMA TokenInvStep ==
  ASSUME TypeInv, TokenInv, [OwnerNext]_vars
  PROVE  TokenInv' /\ \A t \in Token : Settled(t)
<1>1. ASSUME NEW r \in Request, Handle(r)
      PROVE  TokenInv' /\ \A t \in Token : Settled(t)
  BY <1>1, HandleMovesStore, StoreMoveKeepsTokens
<1>2. CASE UNCHANGED <<pending, drawn, serial>>
  BY <1>2 DEF TokenInv, Settled
<1> QED
  BY <1>1, <1>2, RestLeavesTokens DEF OwnerNext

\* What is known of the approval tokens holds in every state.
LEMMA TokenInvariant == OwnerSpec => []TokenInv
<1>1. OwnerInit => TokenInv
  BY DEF OwnerInit, StoreInit, TokenInv
<1>2. TypeInv /\ TokenInv /\ [OwnerNext]_vars => TokenInv'
  BY TokenInvStep
<1> QED
  BY <1>1, <1>2, TypeInvariant, PTL DEF OwnerSpec

----------------------------------------------------------------------------

\* What a step leaves alone of the accounts, the audit file and the history.
Grows(r) ==
  /\ accounts \subseteq accounts' /\ trail \subseteq trail' /\ sent \subseteq sent'
  /\ \A q \in Request : q # r => (q \in sent' <=> q \in sent)

\* A handler never takes an account, an audit record or an execution back.
LEMMA HandleGrows ==
  ASSUME NEW r \in Request, Handle(r)
  PROVE  Grows(r)
<1>1. CASE Decide(r) \/ RecordCommit(r) \/ Complete(r)
  BY <1>1 DEF Decide, RecordCommit, Complete, Record, Grows
<1>2. CASE LoginDone(r) \/ Execute(r)
  BY <1>2 DEF LoginDone, Execute, Grows
<1>3. CASE \/ SessionFound(r) \/ SessionBusy(r) \/ LoginStart(r) \/ LoginLaunched(r)
           \/ LoginFailed(r)
           \/ DrawToken(r) \/ DrawFails(r) \/ IssuePreview(r) \/ IssueFails(r)
           \/ RememberPreview(r) \/ PreviewKnown(r) \/ PreviewUnknown(r)
           \/ Redeem(r) \/ RedeemLate(r) \/ RedeemRefused(r) \/ ForgetPreview(r)
  BY <1>3 DEF SessionFound, SessionBusy, LoginStart, LoginLaunched, LoginFailed, DrawToken,
              DrawFails, IssuePreview, IssueFails, RememberPreview, PreviewKnown,
              PreviewUnknown, Redeem, RedeemLate, RedeemRefused, ForgetPreview, Grows
<1> QED
  BY <1>1, <1>2, <1>3 DEF Handle

\* Steps of others do not move a handler from its place.
LEMMA BystanderKeepsPlace ==
  ASSUME TypeInv, NEW q \in Request, Place(q), \A t \in Token : Settled(t),
         pc'[q] = pc[q], request'[q] = request[q], drawn'[q] = drawn[q],
         accounts \subseteq accounts', trail \subseteq trail',
         q \in sent' <=> q \in sent
  PROVE  Place(q)'
<1>1. PlaceOfAnswer(q)'
  BY DEF Place, PlaceOfAnswer, Executed
<1>2. InAccount(q) => InAccount(q)'
  BY DEF InAccount
<1>3. pc[q] = "consume" =>
        /\ request[q].token \in Token /\ serial[request[q].token] # 0
        /\ pending'[request[q].token] \in {pending[request[q].token], None}
  BY DEF Place, PlaceOfToken, Settled
<1>4. PlaceOfSession(q)'
  BY <1>2, <1>3 DEF Place, PlaceOfSession
<1>5. PlaceOfToken(q)'
  BY DEF Place, PlaceOfToken, Names, Settled
<1> QED
  BY <1>1, <1>4, <1>5 DEF Place

\* A handler that fails before it sent anything.
LEMMA FailTakesPlace ==
  ASSUME TypeInv, NEW r \in Request, Fail(r), r \notin sent'
  PROVE  Place(r)'
<1>1. pc'[r] = "done" /\ request'[r].answer = "error" /\ "error" # None
  BY Fails, OwnerAssumption DEF Fail
<1> QED
  BY <1>1 DEF Place, PlaceOfAnswer, PlaceOfSession, PlaceOfToken

\* A handler that returns.
LEMMA ReturnTakesPlace ==
  ASSUME TypeInv, NEW r \in Request, NEW answer, Return(r, answer),
         accounts \subseteq accounts',
         r \in sent' => InAccount(r),
         answer = "success" /\ request[r].op # None =>
           /\ r \in sent'
           /\ \E e \in trail' : /\ e.request = r /\ e.phase = "executed"
                              /\ e.outcome = "success" /\ e.op = request[r].op,
         answer = "preview" =>
           request[r].token \in Token /\ serial'[request[r].token] # 0
  PROVE  Place(r)'
<1>1. /\ pc'[r] = "done" /\ request'[r].answer = answer
      /\ request'[r].op = request[r].op
      /\ request'[r].token = request[r].token
      /\ request'[r].session = request[r].session
  BY Returns
<1>2. PlaceOfAnswer(r)'
  BY <1>1 DEF PlaceOfAnswer, Executed
<1>3. PlaceOfSession(r)' /\ PlaceOfToken(r)'
  BY <1>1 DEF PlaceOfSession, PlaceOfToken, InAccount
<1> QED
  BY <1>2, <1>3 DEF Place

\* Only a handler in or behind its remote call has sent something.
LEMMA NotYetSent ==
  ASSUME GuardInv, NEW r \in Request, pc[r] \notin {"remote", "forget", "done"}
  PROVE  r \notin sent
BY DEF GuardInv, Clearance

\* A request enters with the account of its operation, or with its token.
LEMMA ArriveTakesPlace ==
  ASSUME TypeInv, GuardInv, NEW r \in Request, Arrive(r)
  PROVE  Place(r)'
<1>1. pc[r] = "idle" /\ sent' = sent
  BY DEF Arrive, EnterRefused, EnterLogin, EnterOperation, EnterCommit, Enter, At
<1>2. r \notin sent'
  BY <1>1, NotYetSent
<1>3. CASE EnterRefused(r)
  BY <1>2, <1>3, FailTakesPlace DEF EnterRefused
<1>4. ASSUME NEW step \in {"session", "lookup"}, NEW now, Enter(r, step, now),
             now.answer = None,
             step = "session" =>
               now.tool = None /\ (now.op # None => now.session = AccountOf[now.op])
      PROVE  Place(r)'
  <2>1. pc'[r] = step /\ request'[r] = now
    BY <1>4, Enters
  <2>2. now.answer \notin {"success", "preview"}
    BY <1>4, OwnerAssumption
  <2> QED
    BY <1>2, <1>4, <2>1, <2>2 DEF Place, PlaceOfAnswer, PlaceOfSession, PlaceOfToken
<1>5. ASSUME NEW a \in Account, EnterLogin(r, a)
      PROVE  Place(r)'
  <2> DEFINE now == [Idle EXCEPT !.session = a]
  <2>1. Enter(r, "session", now) /\ now.answer = None /\ now.tool = None /\ now.op = None
    BY <1>5 DEF EnterLogin, Idle
  <2> HIDE DEF now
  <2> QED
    BY <1>4, <2>1
<1>6. ASSUME NEW c \in Caller, NEW op \in Operation, EnterOperation(r, op, c)
      PROVE  Place(r)'
  <2> DEFINE now == [Idle EXCEPT !.op = op, !.caller = c, !.session = AccountOf[op]]
  <2>1. /\ Enter(r, "session", now) /\ now.answer = None /\ now.tool = None
        /\ now.session = AccountOf[now.op]
    BY <1>6 DEF EnterOperation, Idle
  <2> HIDE DEF now
  <2> QED
    BY <1>4, <2>1
<1>7. ASSUME NEW c \in Caller, NEW t \in Token, NEW tool \in Kinds \cap Committable,
             EnterCommit(r, tool, t, c)
      PROVE  Place(r)'
  <2> DEFINE now == [Idle EXCEPT !.caller = c, !.tool = tool, !.token = t]
  <2>1. Enter(r, "lookup", now) /\ now.answer = None
    BY <1>7 DEF EnterCommit, Idle
  <2> HIDE DEF now
  <2> QED
    BY <1>4, <2>1
<1> QED
  BY <1>3, <1>5, <1>6, <1>7 DEF Arrive

\* The session a handler goes on with is that of its operation's account.
LEMMA SessionTakesPlace ==
  ASSUME TypeInv, GuardInv, NEW r \in Request, Place(r),
         \/ SessionFound(r) \/ SessionBusy(r) \/ LoginStart(r) \/ LoginLaunched(r)
         \/ LoginDone(r) \/ LoginFailed(r)
  PROVE  Place(r)'
<1>1. /\ pc[r] \in {"session", "launch", "login"} /\ sent' = sent
      /\ accounts \subseteq accounts'
  BY DEF SessionFound, SessionBusy, LoginStart, LoginLaunched, LoginDone, LoginFailed, At
<1>2. r \notin sent /\ r \notin sent'
  BY <1>1, NotYetSent
<1>3. /\ request[r].answer = None /\ request[r].tool = None
      /\ request[r].op # None => request[r].session = AccountOf[request[r].op]
  BY <1>1 DEF Place, PlaceOfAnswer, PlaceOfSession, PlaceOfToken
<1>4. request[r].answer \notin {"success", "preview"}
  BY <1>3, OwnerAssumption
<1>5. CASE SessionBusy(r) \/ LoginFailed(r)
  BY <1>2, <1>5, FailTakesPlace DEF SessionBusy, LoginFailed
<1>6. CASE LoginStart(r)
  <2>1. pc'[r] = "launch" /\ request'[r] = request[r]
    BY <1>6, Goes DEF LoginStart
  <2> QED
    BY <1>2, <1>3, <1>4, <2>1 DEF Place, PlaceOfAnswer, PlaceOfSession, PlaceOfToken
<1>7. CASE SessionFound(r) \/ LoginDone(r)
  <2>1. request[r].session \in accounts' /\ WithSession(r)
    BY <1>7 DEF SessionFound, LoginDone
  <2>2. CASE request[r].op = None
    <3>1. Return(r, "success")
      BY <2>1, <2>2 DEF WithSession
    <3> QED
      BY <1>1, <1>2, <2>2, <3>1, ReturnTakesPlace
  <2>3. CASE request[r].op # None
    <3>1. pc'[r] = "prepare" /\ request'[r] = request[r]
      BY <2>1, <2>3, Goes DEF WithSession
    <3> QED
      BY <1>2, <1>3, <1>4, <2>1, <2>3, <3>1
      DEF Place, PlaceOfAnswer, PlaceOfSession, PlaceOfToken, InAccount
  <2> QED
    BY <2>2, <2>3
<1>8. CASE LoginLaunched(r)
  <2>1. pc'[r] = "login" /\ request'[r] = request[r]
    BY <1>8, Goes DEF LoginLaunched
  <2> QED
    BY <1>2, <1>3, <1>4, <2>1 DEF Place, PlaceOfAnswer, PlaceOfSession, PlaceOfToken
<1> QED
  BY <1>5, <1>6, <1>7, <1>8

\* A token names the operation it was issued for.
LEMMA PreviewTakesPlace ==
  ASSUME TypeInv, GuardInv, TokenInv, NEW r \in Request, Place(r),
         \/ Decide(r) \/ DrawToken(r) \/ DrawFails(r) \/ IssuePreview(r)
         \/ IssueFails(r) \/ RememberPreview(r)
  PROVE  Place(r)'
<1>0. StoreTypeOK /\ Thread = Request /\ r \in Thread
  BY OwnerAssumption, TypeInvParts
<1>1. /\ pc[r] \in {"prepare", "draw", "issue", "remember"} /\ sent' = sent
      /\ accounts' = accounts
  BY DEF Decide, DrawToken, DrawFails, IssuePreview, IssueFails, RememberPreview, At
<1>2. r \notin sent /\ r \notin sent'
  BY <1>1, NotYetSent
<1>3. request[r].answer = None /\ request[r].tool = None /\ InAccount(r)
  BY <1>1 DEF Place, PlaceOfAnswer, PlaceOfSession, PlaceOfToken
<1>4. request[r].answer \notin {"success", "preview"}
  BY <1>3, OwnerAssumption
<1>5. CASE Decide(r)
  <2>1. \/ Fail(r)
        \/ Go(r, "execute", request[r]) \/ Go(r, "draw", request[r])
    BY <1>5 DEF Decide
  <2>2. CASE Fail(r)
    BY <1>2, <2>2, FailTakesPlace
  <2>3. CASE Go(r, "execute", request[r]) \/ Go(r, "draw", request[r])
    <3>1. pc'[r] \in {"execute", "draw"} /\ request'[r] = request[r]
      BY <2>3, Goes
    <3> QED
      BY <1>1, <1>2, <1>3, <1>4, <3>1
      DEF Place, PlaceOfAnswer, PlaceOfSession, PlaceOfToken, InAccount
  <2> QED
    BY <2>1, <2>2, <2>3
<1>6. CASE DrawToken(r)
  <2>1. pc'[r] = "issue" /\ request'[r] = request[r]
    BY <1>6, Goes DEF DrawToken
  <2>2. PICK t \in Token : Draw(r, t, request[r].op, request[r].caller)
    BY <1>6 DEF DrawToken
  <2>3. drawn'[r] = [token |-> t, operation |-> request[r].op,
                     caller |-> request[r].caller, now |-> clock]
    BY <1>0, <2>2 DEF Draw, StoreTypeOK
  <2>4. drawn'[r] # None /\ drawn'[r].operation = request[r].op
    <3>1. drawn'[r] \in Call
      BY <1>0, <1>6, <2>3 DEF DrawToken, At, TypeInv, Shape, Bound, Call, StoreTypeOK
    <3> QED
      BY <2>3, <3>1, StoreAssumption
  <2> QED
    BY <1>1, <1>2, <1>3, <1>4, <2>1, <2>4
    DEF Place, PlaceOfAnswer, PlaceOfSession, PlaceOfToken, InAccount
<1>7. CASE DrawFails(r) \/ IssueFails(r)
  BY <1>2, <1>7, FailTakesPlace DEF DrawFails, IssueFails
<1>8. CASE IssuePreview(r)
  <2> DEFINE now == [request[r] EXCEPT !.token = drawn[r].token,
                                       !.expiresAt = drawn[r].now + TTL]
             live == Pruned(pending, drawn[r].now)
             tok == drawn[r].token
  <2>1. Fail(r) \/ Go(r, "remember", now)
    BY <1>8 DEF IssuePreview
  <2>2. CASE Fail(r)
    BY <1>2, <2>2, FailTakesPlace
  <2>3. CASE Go(r, "remember", now)
    <3>1. drawn[r] \in Call /\ drawn[r] # None /\ drawn[r].operation = request[r].op
      BY <1>0, <1>8
      DEF IssuePreview, Issue, StoreTypeOK, At, Place, PlaceOfToken
    <3>2. tok \in Token /\ drawn[r].now \in Time
      BY <3>1 DEF Call
    <3>3. live \in [Token -> Entry \cup {None}]
      BY <1>0, <3>2, PrunedType
    <3>4. pending' = [live EXCEPT ![tok] =
            [operation |-> drawn[r].operation, caller |-> drawn[r].caller,
             expiresAt |-> drawn[r].now + TTL]]
      BY <1>8 DEF IssuePreview, Issue
    <3>5. /\ pending'[tok].operation = request[r].op
          /\ pending'[tok].expiresAt = drawn[r].now + TTL
      <4> HIDE DEF live
      <4> QED
        BY <3>1, <3>2, <3>3, <3>4
    <3>6. serial'[tok] # 0
      BY <1>0, <1>8, <3>1, <3>2 DEF IssuePreview, Issue, StoreTypeOK, TokenInv
    <3>7. request[r] \in Local
      BY DEF TypeInv, OwnerTypeOK
    <3>8. /\ now.token = tok /\ now.expiresAt = drawn[r].now + TTL
          /\ now.op = request[r].op /\ now.session = request[r].session
          /\ now.tool = request[r].tool /\ now.answer = request[r].answer
      BY <3>7 DEF Local
    <3> HIDE DEF now
    <3>9. pc'[r] = "remember" /\ request'[r] = now
      BY <2>3, Goes
    <3> QED
      BY <1>1, <1>2, <1>3, <1>4, <3>2, <3>5, <3>6, <3>8, <3>9
      DEF Place, PlaceOfAnswer, PlaceOfSession, PlaceOfToken, InAccount, Names
  <2> QED
    BY <2>1, <2>2, <2>3
<1>9. CASE RememberPreview(r)
  <2>1. /\ Return(r, "preview") /\ serial' = serial
        /\ request[r].token \in Token /\ serial[request[r].token] # 0
    BY <1>9 DEF RememberPreview, storeVars, At, Place, PlaceOfToken, Names
  <2> QED
    BY <1>1, <1>2, <2>1, ReturnTakesPlace
<1> QED
  BY <1>5, <1>6, <1>7, <1>8, <1>9

\* A commit takes the session of the account its approval was issued for.
LEMMA CommitTakesPlace ==
  ASSUME TypeInv, GuardInv, TokenInv, IndexInv, NEW r \in Request, Place(r),
         \/ PreviewKnown(r) \/ PreviewUnknown(r) \/ Redeem(r)
         \/ RedeemLate(r) \/ RedeemRefused(r) \/ RecordCommit(r)
  PROVE  Place(r)'
<1> DEFINE t == request[r].token
<1>0. StoreTypeOK /\ request[r] \in Local
  BY TypeInvParts DEF TypeInv, OwnerTypeOK
<1>1. /\ pc[r] \in {"lookup", "consume", "committed"} /\ sent' = sent
      /\ accounts' = accounts
  BY DEF PreviewKnown, PreviewUnknown, Redeem, RedeemLate, RedeemRefused,
         RecordCommit, At
<1>2. r \notin sent /\ r \notin sent'
  BY <1>1, NotYetSent
<1>3. request[r].answer = None
  BY <1>1 DEF Place, PlaceOfAnswer
<1>4. request[r].answer \notin {"success", "preview"}
  BY <1>3, OwnerAssumption
<1>5. CASE PreviewUnknown(r) \/ RedeemLate(r) \/ RedeemRefused(r)
  BY <1>2, <1>5, FailTakesPlace DEF PreviewUnknown, RedeemLate, RedeemRefused
<1>6. CASE PreviewKnown(r)
  <2> DEFINE now == [request[r] EXCEPT !.session = previews[t].account]
  <2>1. t \in Token /\ previews[t] # None /\ previews[t].account \in accounts
    BY <1>6 DEF PreviewKnown, At, TypeInv, Shape
  <2>2. UNCHANGED storeVars /\ Go(r, "consume", now)
    BY <1>6 DEF PreviewKnown
  <2>3. /\ now.token = t /\ now.session = previews[t].account
        /\ now.answer = request[r].answer
    BY <1>0 DEF Local
  <2>4. /\ serial[t] # 0
        /\ pending[t] # None => previews[t].account = AccountOf[pending[t].operation]
    BY <2>1 DEF IndexInv
  <2> HIDE DEF now
  <2>5. pc'[r] = "consume" /\ request'[r] = now
    BY <2>2, Goes
  <2> QED
    BY <1>1, <1>2, <1>3, <1>4, <2>1, <2>2, <2>3, <2>4, <2>5
    DEF Place, PlaceOfAnswer, PlaceOfSession, PlaceOfToken, storeVars
<1>7. CASE Redeem(r)
  <2> DEFINE now == [request[r] EXCEPT !.op = pending[t].operation,
                                       !.grant = GrantOf(t)]
  <2>1. /\ t \in Token /\ serial[t] # 0 /\ request[r].session \in accounts
        /\ pending[t] # None => request[r].session = AccountOf[pending[t].operation]
    BY <1>7 DEF Redeem, At, Place, PlaceOfSession, PlaceOfToken
  <2>2. /\ pending[t] # None /\ pending' = [pending EXCEPT ![t] = None]
        /\ serial' = serial /\ Go(r, "committed", now)
    BY <1>7 DEF Redeem, Consume, Owns
  <2>3. pending'[t] = None
    BY <1>0, <2>1, <2>2 DEF StoreTypeOK
  <2>4. /\ now.token = t /\ now.session = request[r].session
        /\ now.answer = request[r].answer
    BY <1>0 DEF Local
  <2>5. now.op = pending[t].operation
    BY <1>0 DEF Local
  <2> HIDE DEF now
  <2>6. pc'[r] = "committed" /\ request'[r] = now
    BY <2>2, Goes
  <2> QED
    BY <1>1, <1>2, <1>3, <1>4, <2>1, <2>2, <2>3, <2>4, <2>5, <2>6
    DEF Place, PlaceOfAnswer, PlaceOfSession, PlaceOfToken, InAccount
<1>8. CASE RecordCommit(r)
  <2>1. Fail(r) \/ Go(r, "execute", request[r])
    BY <1>8 DEF RecordCommit
  <2>2. CASE Fail(r)
    BY <1>2, <2>2, FailTakesPlace
  <2>3. CASE Go(r, "execute", request[r])
    <3>1. pc'[r] = "execute" /\ request'[r] = request[r]
      BY <2>3, Goes
    <3>2. pc[r] = "committed" /\ UNCHANGED <<pending, serial>>
      BY <1>8 DEF RecordCommit, At, storeVars
    <3> QED
      BY <1>1, <1>2, <1>3, <1>4, <3>1, <3>2
      DEF Place, PlaceOfAnswer, PlaceOfSession, PlaceOfToken, InAccount
  <2> QED
    BY <2>1, <2>2, <2>3
<1> QED
  BY <1>5, <1>6, <1>7, <1>8

\* What runs keeps its session; what is reported as a success is on record.
LEMMA ExecutionTakesPlace ==
  ASSUME TypeInv, NEW r \in Request, Place(r),
         Execute(r) \/ Complete(r) \/ ForgetPreview(r)
  PROVE  Place(r)'
<1>1. /\ pc[r] \in {"execute", "remote", "forget"} /\ accounts' = accounts
      /\ UNCHANGED <<pending, serial>>
  BY DEF Execute, Complete, ForgetPreview, At, storeVars
<1>2. request[r].answer = None /\ InAccount(r)
  BY <1>1 DEF Place, PlaceOfAnswer, PlaceOfSession
<1>3. request[r].answer \notin {"success", "preview"}
  BY <1>2, OwnerAssumption
<1>4. request[r].tool # None =>
        /\ request[r].token \in Token /\ serial[request[r].token] # 0
        /\ pending[request[r].token] = None
  BY <1>1 DEF Place, PlaceOfToken
<1>5. CASE Execute(r)
  <2>1. pc'[r] = "remote" /\ request'[r] = request[r] /\ r \in sent'
    BY <1>5, Goes DEF Execute
  <2> QED
    BY <1>1, <1>2, <1>3, <1>4, <2>1
    DEF Place, PlaceOfAnswer, PlaceOfSession, PlaceOfToken, InAccount
<1>6. CASE Complete(r)
  <2>1. r \in sent /\ sent' = sent
    BY <1>6 DEF Complete, At, Place, PlaceOfAnswer
  <2>2. PICK outcome \in Outcomes(Kind[request[r].op]), ok \in BOOLEAN :
          /\ Record(r, "executed", outcome, ok)
          /\ IF outcome # "success" \/ ~ok THEN Return(r, "error")
             ELSE IF request[r].tool = None THEN Return(r, "success")
             ELSE Go(r, "forget", request[r])
    BY <1>6 DEF Complete
  <2>3. CASE outcome # "success" \/ ~ok
    <3>1. Return(r, "error")
      BY <2>2, <2>3
    <3> QED
      BY <1>1, <1>2, <3>1, ReturnTakesPlace
  <2>4. CASE ~(outcome # "success" \/ ~ok)
    <3> DEFINE event == [request |-> r, phase |-> "executed", outcome |-> "success",
                         op |-> request[r].op, caller |-> request[r].caller]
    <3>1. event \in trail'
      BY <2>2, <2>4 DEF Record
    <3>2. \E e \in trail' : /\ e.request = r /\ e.phase = "executed"
                            /\ e.outcome = "success" /\ e.op = request[r].op
      BY <3>1
    <3>3. CASE request[r].tool = None
      <4>1. Return(r, "success")
        BY <2>2, <2>4, <3>3
      <4> QED
        BY <1>1, <1>2, <2>1, <3>2, <4>1, ReturnTakesPlace
    <3>4. CASE request[r].tool # None
      <4>1. Go(r, "forget", request[r])
        BY <2>2, <2>4, <3>4
      <4>2. pc'[r] = "forget" /\ request'[r] = request[r]
        BY <4>1, Goes
      <4> QED
        BY <1>1, <1>2, <1>3, <1>4, <2>1, <3>2, <3>4, <4>2
        DEF Place, PlaceOfAnswer, PlaceOfSession, PlaceOfToken, InAccount, Executed
    <3> QED
      BY <3>3, <3>4
  <2> QED
    BY <2>3, <2>4
<1>7. CASE ForgetPreview(r)
  <2>1. /\ Return(r, "success") /\ sent' = sent /\ trail' = trail
        /\ r \in sent /\ Executed(r)
    BY <1>7 DEF ForgetPreview, At, Place, PlaceOfAnswer
  <2> QED
    BY <1>1, <1>2, <2>1, ReturnTakesPlace DEF Executed
<1> QED
  BY <1>5, <1>6, <1>7

\* A handler's step moves no other handler.
LEMMA HandleLeavesOthers ==
  ASSUME TypeInv, LifeInv, NEW r \in Request, Handle(r)
  PROVE  Others(r)
<1>1. CASE LoginStart(r) \/ LoginLaunched(r) \/ LoginDone(r) \/ LoginFailed(r)
  BY <1>1, Goes, Returns, Fails DEF LoginStart, LoginLaunched, LoginDone, LoginFailed, WithSession
<1>2. CASE ~LoginStart(r) /\ ~LoginLaunched(r) /\ ~LoginDone(r) /\ ~LoginFailed(r)
  <2>1. \/ \E answer : Return(r, answer)
        \/ Fail(r)
        \/ \E step, now : Go(r, step, now) /\ step \notin {"idle", "done", "launch", "login"}
    BY <1>2, HandleMoves
  <2>2. r \in active
    BY RunningIsCounted
  <2> QED
    BY <2>1, <2>2, MovesStayCounted
<1> QED
  BY <1>1, <1>2

\* Every step leaves or takes every handler to its place.
LEMMA PlaceInvStep ==
  ASSUME TypeInv, GuardInv, LifeInv, TokenInv, IndexInv, PlaceInv, [OwnerNext]_vars
  PROVE  PlaceInv'
<1>0. \A t \in Token : Settled(t)
  BY TokenInvStep
<1>1. ASSUME NEW r \in Request, Arrive(r)
      PROVE  PlaceInv'
  <2>1. /\ UNCHANGED <<drawn, accounts, trail, sent>>
    BY <1>1, ArriveIsStoreStutter
    DEF Arrive, EnterRefused, EnterLogin, EnterOperation, EnterCommit, Enter, storeVars
  <2>2. Others(r)
    <3>1. Fail(r) \/ \E step, now : Enter(r, step, now)
      BY <1>1 DEF Arrive, EnterRefused, EnterLogin, EnterOperation, EnterCommit
    <3>2. ASSUME NEW step, NEW now, Enter(r, step, now)
          PROVE  Others(r)
      BY <3>2, Enters
    <3>3. CASE Fail(r)
      BY <3>3, Fails
    <3> QED
      BY <3>1, <3>2, <3>3
  <2>3. ASSUME NEW q \in Request, q # r
        PROVE  Place(q)'
    BY <1>0, <2>1, <2>2, <2>3, BystanderKeepsPlace DEF Others, PlaceInv
  <2>4. Place(r)'
    BY <1>1, ArriveTakesPlace
  <2> QED
    BY <2>3, <2>4 DEF PlaceInv
<1>2. ASSUME NEW r \in Request, Handle(r)
      PROVE  PlaceInv'
  <2>1. Grows(r)
    BY <1>2, HandleGrows
  <2>2. \A q \in Request : q # r => drawn'[q] = drawn[q]
    BY <1>2, HandleMovesStore, StoreMoveKeepsTokens
  <2>3. Others(r)
    BY <1>2, HandleLeavesOthers
  <2>4. ASSUME NEW q \in Request, q # r
        PROVE  Place(q)'
    <3>1. /\ pc'[q] = pc[q] /\ request'[q] = request[q] /\ drawn'[q] = drawn[q]
          /\ q \in sent' <=> q \in sent
      BY <2>1, <2>2, <2>3, <2>4 DEF Others, Grows
    <3> QED
      BY <1>0, <2>1, <3>1, BystanderKeepsPlace DEF Grows, PlaceInv
  <2>5. Place(r)'
    BY <1>2, SessionTakesPlace, PreviewTakesPlace, CommitTakesPlace,
       ExecutionTakesPlace DEF Handle, PlaceInv
  <2> QED
    BY <2>4, <2>5 DEF PlaceInv
<1>3. CASE \/ \E a \in Account, c \in Caller : TerminalLogin(a, c)
           \/ CloseBegin \/ CloseEnd \/ OwnerTick \/ UNCHANGED vars
  <2>1. UNCHANGED drawn
    BY <1>3, RestLeavesTokens
  <2>2. /\ UNCHANGED <<pc, request, trail, sent>>
        /\ accounts \subseteq accounts'
    BY <1>3 DEF TerminalLogin, TerminalStart, TerminalResume, Takes, TerminalLaunched,
                TerminalLaunchFails, TerminalPending, TerminalDropped,
                TerminalFinished, CloseBegin, CloseEnd, OwnerTick, ownerVars, vars
  <2> QED
    BY <1>0, <2>1, <2>2, BystanderKeepsPlace DEF PlaceInv
<1> QED
  BY <1>1, <1>2, <1>3 DEF OwnerNext

----------------------------------------------------------------------------

\* Three steps write the index of previews.
LEMMA IndexOtherwiseKept ==
  ASSUME TypeInv, [OwnerNext]_vars,
         \A r \in Request :
           ~RememberPreview(r) /\ ~PreviewUnknown(r) /\ ~ForgetPreview(r)
  PROVE  previews' = previews
<1>1. ASSUME NEW r \in Request, Handle(r)
      PROVE  previews' = previews
  BY <1>1 DEF Handle, SessionFound, SessionBusy, LoginStart, LoginLaunched, LoginDone, LoginFailed,
         Decide, DrawToken, DrawFails, IssuePreview, IssueFails, PreviewKnown,
         Redeem, RedeemLate, RedeemRefused, RecordCommit, Execute, Complete
<1>2. ASSUME NEW r \in Request, Arrive(r)
      PROVE  previews' = previews
  BY <1>2 DEF Arrive, EnterRefused, EnterLogin, EnterOperation, EnterCommit, Enter
<1>3. CASE \/ \E a \in Account, c \in Caller : TerminalLogin(a, c)
           \/ CloseBegin \/ CloseEnd \/ OwnerTick \/ UNCHANGED vars
  BY <1>3 DEF TerminalLogin, CloseBegin, CloseEnd, OwnerTick, ownerVars, vars
<1> QED
  BY <1>1, <1>2, <1>3 DEF OwnerNext

\* Only an answered preview enters the index of previews.
LEMMA IndexChanges ==
  ASSUME TypeInv, [OwnerNext]_vars, \A r \in Request : ~RememberPreview(r)
  PROVE  \A t \in Token : previews'[t] \in {previews[t], None}
<1>1. ASSUME NEW r \in Request, PreviewUnknown(r) \/ ForgetPreview(r)
      PROVE  \A t \in Token : previews'[t] \in {previews[t], None}
  BY <1>1 DEF PreviewUnknown, ForgetPreview, TypeInv, OwnerTypeOK
<1> QED
  BY <1>1, IndexOtherwiseKept

\* What the index says of a token stays true: the entry is made from what the
\* handler knows of its token, and an approval that is gone does not return.
LEMMA IndexStaysTrue ==
  ASSUME TypeInv, IndexInv, PlaceInv, [OwnerNext]_vars, \A t \in Token : Settled(t),
         NEW t \in Token, previews'[t] # None
  PROVE  /\ serial'[t] # 0
         /\ pending'[t] # None =>
              previews'[t].account = AccountOf[pending'[t].operation]
<1>1. CASE previews'[t] = previews[t]
  BY <1>1 DEF IndexInv, Settled
<1>2. ASSUME NEW r \in Request, RememberPreview(r), previews'[t] # previews[t]
      PROVE  /\ serial'[t] # 0
             /\ pending'[t] # None =>
                  previews'[t].account = AccountOf[pending'[t].operation]
  <2>1. /\ t = request[r].token /\ previews'[t].account = request[r].session
        /\ UNCHANGED <<pending, serial>>
    BY <1>2 DEF RememberPreview, storeVars
  <2>2. Names(t, request[r].op) /\ InAccount(r)
    BY <1>2, <2>1
    DEF RememberPreview, At, PlaceInv, Place, PlaceOfSession, PlaceOfToken
  <2> QED
    BY <2>1, <2>2 DEF Names, InAccount
<1> QED
  BY <1>1, <1>2, IndexChanges

\* Until the deadline of its approval the entry of an answered preview stays.
LEMMA EntryIsKept ==
  ASSUME TypeInv, PlaceInv, [OwnerNext]_vars,
         NEW t \in Token, pending[t] # None, clock < pending[t].expiresAt,
         previews[t] = [account |-> AccountOf[pending[t].operation],
                        expiresAt |-> pending[t].expiresAt]
  PROVE  previews'[t] = previews[t]
<1>0. previews[t] # None
  <2>1. pending[t] \in Entry
    BY TypeInvParts, GrantOfType
  <2>2. previews[t] \in Preview
    BY <2>1, OwnerAssumption DEF Preview, Entry
  <2> QED
    BY <2>2, OwnerAssumption
<1>1. ASSUME NEW r \in Request, RememberPreview(r)
      PROVE  previews'[t] = previews[t]
  <2>1. previews'[t] = IF t = request[r].token
                       THEN [account |-> request[r].session,
                             expiresAt |-> request[r].expiresAt]
                       ELSE IF previews[t] # None /\ clock < previews[t].expiresAt
                            THEN previews[t] ELSE None
    BY <1>1 DEF RememberPreview
  <2>2. CASE t = request[r].token
    <3>1. /\ request[r].session = AccountOf[pending[t].operation]
          /\ request[r].expiresAt = pending[t].expiresAt
      BY <1>1, <2>2
      DEF RememberPreview, At, PlaceInv, Place, PlaceOfSession, PlaceOfToken,
          Names, InAccount
    <3> QED
      BY <2>1, <2>2, <3>1
  <2>3. CASE t # request[r].token
    BY <1>0, <2>1, <2>3
  <2> QED
    BY <2>2, <2>3
<1>2. ASSUME NEW r \in Request, PreviewUnknown(r)
      PROVE  previews'[t] = previews[t]
  BY <1>2 DEF PreviewUnknown, TypeInv, OwnerTypeOK
<1>3. ASSUME NEW r \in Request, ForgetPreview(r)
      PROVE  previews'[t] = previews[t]
  <2>1. request[r].token # t
    BY <1>3 DEF ForgetPreview, At, PlaceInv, Place, PlaceOfAnswer, PlaceOfToken
  <2> QED
    BY <1>3, <2>1 DEF ForgetPreview, TypeInv, OwnerTypeOK
<1> QED
  BY <1>1, <1>2, <1>3, IndexOtherwiseKept

\* What is still to come after a step was to come before it.
LEMMA ClockAdvances ==
  ASSUME TypeInv, [OwnerNext]_vars, NEW d \in Nat, clock' < d
  PROVE  clock < d
<1>1. StoreTypeOK /\ [StoreNext]_storeVars
  BY OwnerStepIsStoreStep, TypeInvParts
<1>2. clock' \in {clock, clock + 1}
  BY <1>1 DEF StoreNext, Tick, Draw, IssueRefused, Issue, ConsumeExpired, Consume,
              storeVars
<1>3. clock \in Int
  BY <1>1, StoreAssumption DEF StoreTypeOK, Time
<1> QED
  BY <1>2, <1>3

\* A preview is answered when it has been remembered, and keeps its token.
LEMMA PreviewAnswers ==
  ASSUME TypeInv, LifeInv, PlaceInv, [OwnerNext]_vars, NEW r \in Request,
         request'[r].answer = "preview"
  PROVE  \/ RememberPreview(r)
         \/ request[r].answer = "preview" /\ request'[r].token = request[r].token
<1> USE OwnerAssumption
<1>1. ASSUME NEW q \in Request, Arrive(q)
      PROVE  request'[r] = request[r] \/ request'[r].answer # "preview"
  <2>1. CASE Fail(q)
    BY <2>1, Fails DEF Others
  <2>2. ASSUME NEW step, NEW now, Enter(q, step, now), now.answer = None
        PROVE  request'[r] = request[r] \/ request'[r].answer # "preview"
    BY <2>2, Enters DEF Others
  <2>3. CASE EnterRefused(q)
    BY <2>1, <2>3 DEF EnterRefused
  <2>4. ASSUME NEW a \in Account, EnterLogin(q, a)
        PROVE  request'[r] = request[r] \/ request'[r].answer # "preview"
    BY <2>2, <2>4 DEF EnterLogin, Idle
  <2>5. ASSUME NEW c \in Caller, NEW op \in Operation, EnterOperation(q, op, c)
        PROVE  request'[r] = request[r] \/ request'[r].answer # "preview"
    BY <2>2, <2>5 DEF EnterOperation, Idle
  <2>6. ASSUME NEW c \in Caller, NEW t \in Token, NEW tool \in Kinds \cap Committable,
               EnterCommit(q, tool, t, c)
        PROVE  request'[r] = request[r] \/ request'[r].answer # "preview"
    BY <2>2, <2>6 DEF EnterCommit, Idle
  <2> QED
    BY <1>1, <2>3, <2>4, <2>5, <2>6 DEF Arrive
<1>2. ASSUME NEW q \in Request, Handle(q), q # r
      PROVE  request'[r] = request[r]
  BY <1>2, HandleLeavesOthers DEF Others
<1>3. CASE Handle(r)
  <2>1. request[r].answer # "preview"
    BY <1>3, RunningIsCounted DEF PlaceInv, Place, PlaceOfAnswer
  <2>2. CASE Fail(r) \/ Return(r, "success") \/ Return(r, "error")
    BY <2>2, Fails, Returns
  <2>3. ASSUME NEW step, NEW now, Go(r, step, now), now.answer = request[r].answer
        PROVE  request'[r].answer # "preview"
    BY <2>1, <2>3, Goes
  <2>4. \/ RememberPreview(r)
        \/ Fail(r) \/ Return(r, "success") \/ Return(r, "error")
        \/ \E step, now : Go(r, step, now) /\ now.answer = request[r].answer
    <3>1. request[r] \in Local
      BY DEF TypeInv, OwnerTypeOK
    <3>2. CASE SessionFound(r) \/ SessionBusy(r) \/ LoginStart(r) \/ LoginLaunched(r) \/ LoginDone(r)
               \/ LoginFailed(r)
      BY <3>2 DEF SessionFound, SessionBusy, LoginStart, LoginLaunched, LoginDone, LoginFailed,
                  WithSession
    <3>3. CASE Decide(r) \/ DrawToken(r) \/ DrawFails(r) \/ IssueFails(r)
               \/ RecordCommit(r)
      BY <3>3 DEF Decide, DrawToken, DrawFails, IssueFails, RecordCommit
    <3>4. CASE IssuePreview(r)
      <4> DEFINE now == [request[r] EXCEPT !.token = drawn[r].token,
                                           !.expiresAt = drawn[r].now + TTL]
      <4>1. Fail(r) \/ Go(r, "remember", now)
        BY <3>4 DEF IssuePreview
      <4>2. now.answer = request[r].answer
        BY <3>1 DEF Local
      <4> HIDE DEF now
      <4> QED
        BY <4>1, <4>2
    <3>5. CASE PreviewKnown(r)
      <4> DEFINE now == [request[r] EXCEPT
                           !.session = previews[request[r].token].account]
      <4>1. Go(r, "consume", now)
        BY <3>5 DEF PreviewKnown
      <4>2. now.answer = request[r].answer
        BY <3>1 DEF Local
      <4> HIDE DEF now
      <4> QED
        BY <4>1, <4>2
    <3>6. CASE Redeem(r)
      <4> DEFINE t == request[r].token
                 now == [request[r] EXCEPT !.op = pending[t].operation,
                                           !.grant = GrantOf(t)]
      <4>1. Go(r, "committed", now)
        BY <3>6 DEF Redeem
      <4>2. now.answer = request[r].answer
        BY <3>1 DEF Local
      <4> HIDE DEF now
      <4> QED
        BY <4>1, <4>2
    <3>7. CASE PreviewUnknown(r) \/ RedeemLate(r) \/ RedeemRefused(r)
      BY <3>7 DEF PreviewUnknown, RedeemLate, RedeemRefused
    <3>8. CASE Execute(r) \/ Complete(r) \/ ForgetPreview(r)
      BY <3>8 DEF Execute, Complete, ForgetPreview
    <3> QED
      BY <1>3, <3>2, <3>3, <3>4, <3>5, <3>6, <3>7, <3>8 DEF Handle
  <2> QED
    BY <2>2, <2>3, <2>4
<1>4. CASE \/ \E a \in Account, c \in Caller : TerminalLogin(a, c)
           \/ CloseBegin \/ CloseEnd \/ OwnerTick \/ UNCHANGED vars
  BY <1>4 DEF TerminalLogin, CloseBegin, CloseEnd, OwnerTick, ownerVars, vars
<1> QED
  BY <1>1, <1>2, <1>3, <1>4 DEF OwnerNext

\* Every step keeps the index: an approval that is good was good before, or
\* its preview has just been answered.
LEMMA IndexInvStep ==
  ASSUME TypeInv, GuardInv, LifeInv, TokenInv, IndexInv, PlaceInv, [OwnerNext]_vars
  PROVE  IndexInv'
<1>0. (\A t \in Token : Settled(t)) /\ PlaceInv' /\ TokenInv'
  BY TokenInvStep, PlaceInvStep
<1>1. \A t \in Token : previews'[t] # None =>
        /\ serial'[t] # 0
        /\ pending'[t] # None =>
             previews'[t].account = AccountOf[pending'[t].operation]
  BY <1>0, IndexStaysTrue
<1>2. ASSUME NEW r \in Request, request'[r].answer = "preview",
             pending'[request'[r].token] # None,
             clock' < pending'[request'[r].token].expiresAt
      PROVE  previews'[request'[r].token] =
               [account |-> AccountOf[pending'[request'[r].token].operation],
                expiresAt |-> pending'[request'[r].token].expiresAt]
  <2> DEFINE t == request'[r].token
  <2>1. t \in Token
    BY <1>0, <1>2 DEF PlaceInv, Place, PlaceOfToken
  <2>2. CASE request[r].answer = "preview" /\ request[r].token = t
    <3>1. serial[t] # 0
      BY <2>2 DEF PlaceInv, Place, PlaceOfToken
    <3>2. pending'[t] = pending[t]
      BY <1>0, <1>2, <2>1, <3>1 DEF Settled
    <3>3. clock < pending[t].expiresAt
      <4>1. pending[t].expiresAt \in Nat
        BY <1>2, <2>1, <3>2, TypeInvParts, GrantOfType DEF Entry
      <4> QED
        BY <1>2, <3>2, <4>1, ClockAdvances
    <3>4. previews[t] = [account |-> AccountOf[pending[t].operation],
                         expiresAt |-> pending[t].expiresAt]
      BY <1>2, <2>2, <3>2, <3>3 DEF IndexInv, ApprovalReachable
    <3> QED
      BY <1>2, <2>1, <3>2, <3>3, <3>4, EntryIsKept
  <2>3. CASE RememberPreview(r)
    <3>1. /\ request'[r].token = request[r].token
          /\ UNCHANGED <<pending, serial>> /\ pc[r] = "remember"
      BY <2>3, Returns DEF RememberPreview, storeVars, At
    <3>2. previews'[t] = [account |-> request[r].session,
                          expiresAt |-> request[r].expiresAt]
      BY <2>1, <2>3, <3>1 DEF RememberPreview
    <3>3. /\ request[r].session = AccountOf[pending[t].operation]
          /\ request[r].expiresAt = pending[t].expiresAt
      BY <1>2, <3>1
      DEF PlaceInv, Place, PlaceOfSession, PlaceOfToken, Names, InAccount
    <3> QED
      BY <3>1, <3>2, <3>3
  <2> QED
    BY <1>2, <2>2, <2>3, PreviewAnswers
<1> QED
  BY <1>1, <1>2 DEF IndexInv, ApprovalReachable

----------------------------------------------------------------------------

\* The inductive invariant of what follows.
SafetyInv == TypeInv /\ GuardInv /\ LifeInv /\ TokenInv /\ IndexInv /\ PlaceInv

\* SafetyInv holds in every state: the theorems below are its consequences.
LEMMA SafetyInvariant == OwnerSpec => []SafetyInv
<1>1. OwnerInit => IndexInv /\ PlaceInv
  <2> SUFFICES ASSUME OwnerInit
               PROVE  IndexInv /\ PlaceInv
    OBVIOUS
  <2>1. \A r \in Request : /\ pc[r] = "idle" /\ request[r].answer = None
                           /\ r \notin sent
    BY DEF OwnerInit, Idle
  <2>2. \A t \in Token : previews[t] = None
    BY DEF OwnerInit
  <2>3. None \notin {"preview", "success"}
    BY OwnerAssumption
  <2>4. IndexInv
    BY <2>1, <2>2, <2>3 DEF IndexInv, ApprovalReachable
  <2>5. PlaceInv
    BY <2>1, <2>3 DEF PlaceInv, Place, PlaceOfAnswer, PlaceOfSession, PlaceOfToken
  <2> QED
    BY <2>4, <2>5
<1>2. SafetyInv /\ [OwnerNext]_vars => IndexInv' /\ PlaceInv'
  BY IndexInvStep, PlaceInvStep DEF SafetyInv
<1> QED
  BY <1>1, <1>2, TypeInvariant, GuardInvariant, LifeInvariant, TokenInvariant, PTL
  DEF OwnerSpec, SafetyInv

\* What runs, runs on the session of the account it was prepared for
\* (session_backend.go, accountForPreview and rememberPreview): a token names
\* one approval for good, so the index cannot lead a commit astray.
THEOREM RunsOnItsAccount == OwnerSpec => []RightSession
<1>1. SafetyInv => RightSession
  <2> SUFFICES ASSUME SafetyInv, NEW r \in sent
               PROVE  InAccount(r)
    BY DEF RightSession, InAccount
  <2> QED
    BY DEF SafetyInv, PlaceInv, Place, PlaceOfSession, TypeInv, OwnerTypeOK
<1> QED
  BY <1>1, SafetyInvariant, PTL

\* A good approval whose preview was answered is found by accountForPreview
\* until its deadline (session_backend.go, rememberPreview, accountForPreview,
\* forgetPreview; store.go, pruneExpired).
THEOREM GoodApprovalsAreReachable == OwnerSpec => []ApprovalReachable
<1>1. SafetyInv => ApprovalReachable
  BY DEF SafetyInv, IndexInv
<1> QED
  BY <1>1, SafetyInvariant, PTL

\* A reported success is on record (mail_read.go and the other services, which
\* join the error of Record to the result; audit.go, Record).
THEOREM SuccessIsOnRecord == OwnerSpec => []SuccessIsAudited
<1>1. SafetyInv => SuccessIsAudited
  BY DEF SafetyInv, PlaceInv, Place, PlaceOfAnswer, Executed, SuccessIsAudited
<1> QED
  BY <1>1, SafetyInvariant, PTL
==============================================================================
