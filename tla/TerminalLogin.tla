--------------------------- MODULE TerminalLogin ---------------------------
(***************************************************************************)
(* The sign-in of one account, visibly or through the text relay: the      *)
(* command (cmd/owa/terminal_login.go), the owner's TerminalLogin and      *)
(* accountServices (cmd/owa/session_backend.go) and the headless page they *)
(* act on (internal/browser/terminal.go).  SessionCapture is the browser's *)
(* traffic, which both kinds of login wait for.                            *)
(*                                                                         *)
(* The owner handles one call at a time: it holds its mutex throughout     *)
(* ("serving").  The page changes whenever it likes.  A command is one     *)
(* process and one caller; its person chooses controls by the numbers of   *)
(* the view it shows.                                                      *)
(***************************************************************************)
EXTENDS SessionCapture, Functions

CONSTANTS
  Command,      \* processes that run "owa login --terminal"
  Visible,      \* the call that signs in with a visible browser
  Element,      \* controls of the page
  Input,        \* those that take text
  MaxLaunches   \* bound: browsers launched

\* What the page may show: controls in document order.
Page == {p \in UNION {[1..n -> Element] : n \in 0..Cardinality(Element)} :
           IsInjective(p)}

ActionType == {"start", "refresh", "cancel", "activate", "focus", "key",
               "enter", "tab"}
Acts == {"activate", "focus", "key", "enter", "tab"}

\* TerminalLoginInput; "id" says which interaction is meant: the one its
\* command was told of.  "meant" is what the person chose; "awaited" is FALSE
\* when the command no longer waits for the answer.
Call == [type: ActionType, control: Nat, meant: Element \cup {None},
         awaited: BOOLEAN]

\* The owner's terminal login: who leads it, whether its deadline has passed, and
\* the view it showed last.
Interaction == [caller: Command, late: BOOLEAN, view: Page]

ASSUME TerminalAssumption ==
  /\ IsFiniteSet(Element)
  /\ Input \subseteq Element
  /\ Visible \notin Command
  /\ None \notin Command \cup Element \cup {Visible} \cup Call \cup Interaction
  /\ MaxLaunches \in Nat

VARIABLES
  browser,      \* "none", "visible", "headless" or "account": whose it is
  launches,     \* browsers launched so far
  page,         \* the visible controls of the page, in document order
  marker,       \* [Element -> number the last snapshot gave it, or 0]
  interaction,  \* the owner's terminal login, or None
  serving,      \* the call that holds the owner's mutex, or None
  call,         \* [Command -> its call to the owner, or None]
  step,         \* where the handler of the call that is served stands
  cmd,          \* [Command -> the command's phase, view and choice]
  relayed       \* history: what the action of this call [meant, reached]

loginVars == <<browser, launches, page, marker, interaction, serving, call,
               step, cmd, relayed>>
vars == <<captureVars, loginVars>>

\* The command's loop: a view is shown ("menu"), keys are relayed ("keys"), an
\* answer is awaited ("asking"; "leaving" when the deferred cancel was sent).
Shown == [phase: {"off", "asking", "menu", "keys", "leaving", "ended"},
          view: Page, control: Nat, chosen: Element \cup {None}]

Blank(phase) ==
  [phase |-> phase, view |-> <<>>, control |-> 0, chosen |-> None]

Unmarked == [e \in Element |-> 0]

Init ==
  /\ CaptureInit
  /\ browser = "none"
  /\ launches = 0
  /\ page = <<>>
  /\ marker = Unmarked
  /\ interaction = None
  /\ serving = None
  /\ call = [c \in Command |-> None]
  /\ step = "idle"
  /\ cmd = [c \in Command |-> Blank("off")]
  /\ relayed = None

----------------------------------------------------------------------------
(* The browser.                                                            *)

\* What Chrome reports of the browser that is open.
Traffics ==
  /\ browser # "none"
  /\ NetworkEvent
  /\ UNCHANGED loginVars

\* The page shows other controls; some nodes are new ones, without a marker.
PageChanges ==
  /\ browser = "headless"
  /\ page' \in Page
  /\ \E renewed \in SUBSET Element :
       marker' = [e \in Element |-> IF e \in renewed THEN 0 ELSE marker[e]]
  /\ UNCHANGED <<captureVars, browser, launches, interaction, serving, call,
                 step, cmd, relayed>>

Launch(kind) ==
  /\ launches < MaxLaunches
  /\ launches' = launches + 1
  /\ browser' = kind
  /\ NewBrowser

----------------------------------------------------------------------------
(* A visible login: accountServices and authenticate, with the mutex held. *)

VisibleLogin ==
  /\ serving = None
  /\ browser = "none"
  /\ Launch("visible")
  /\ serving' = Visible
  /\ UNCHANGED <<page, marker, interaction, call, step, cmd, relayed>>

\* WaitForSession returns.
VisibleDone ==
  /\ serving = Visible /\ Ready
  /\ browser' = "account"
  /\ serving' = None
  /\ UNCHANGED <<captureVars, launches, page, marker, interaction, call, step,
                 cmd, relayed>>

\* The time is up, or no account could be built: the browser is closed.
VisibleFailed ==
  /\ serving = Visible
  /\ browser' = "none"
  /\ serving' = None
  /\ UNCHANGED <<captureVars, launches, page, marker, interaction, call, step,
                 cmd, relayed>>

----------------------------------------------------------------------------
(* The command.                                                            *)

Phase(c, phase) == cmd[c].phase = phase

Menu(view) == [Blank("menu") EXCEPT !.view = view]

\* The command sends a call and waits.
Ask(c, type, phase, control, meant) ==
  /\ call[c] = None
  /\ call' = [call EXCEPT ![c] = [type |-> type, control |-> control,
                                  meant |-> meant, awaited |-> TRUE]]
  /\ cmd' = [cmd EXCEPT ![c].phase = phase, ![c].control = control,
                        ![c].chosen = meant]
  /\ UNCHANGED <<captureVars, browser, launches, page, marker, interaction,
                 serving, step, relayed>>

Start(c) == Phase(c, "off") /\ Ask(c, "start", "asking", 0, None)

\* A number of the list: what activates is activated, a field is focused.
Choose(c) ==
  /\ Phase(c, "menu")
  /\ \E n \in DOMAIN cmd[c].view :
       LET e == cmd[c].view[n]
       IN Ask(c, IF e \in Input THEN "focus" ELSE "activate", "asking", n, e)

Refresh(c) == Phase(c, "menu") /\ Ask(c, "refresh", "asking", 0, None)

Quit(c) == Phase(c, "menu") /\ Ask(c, "cancel", "leaving", 0, None)

\* relayTerminalKeys: a key goes to the number that was chosen.
Relay(c) ==
  /\ Phase(c, "keys")
  /\ \E type \in {"key", "enter", "tab"} :
       Ask(c, type, "asking", cmd[c].control, cmd[c].chosen)

Escape(c) ==
  /\ Phase(c, "keys")
  /\ cmd' = [cmd EXCEPT ![c] = Menu(cmd[c].view)]
  /\ UNCHANGED <<captureVars, browser, launches, page, marker, interaction,
                 serving, call, step, relayed>>

\* The terminal is at its end, or Ctrl-C was typed into the relay: the deferred
\* function cancels a login whose last answer was pending.
BreakOff(c) ==
  /\ Phase(c, "menu") \/ Phase(c, "keys")
  /\ Ask(c, "cancel", "leaving", 0, None)

\* The process is interrupted or killed, or the two seconds of the deferred
\* cancel are over.  The owner may have the call already; an error of a call
\* leaves no pending result, so that nothing is cancelled.
GiveUp(c) ==
  /\ ~Phase(c, "off") /\ ~Phase(c, "ended")
  /\ cmd' = [cmd EXCEPT ![c] = Blank("ended")]
  /\ \/ call' = [call EXCEPT ![c] = IF @ = None THEN None
                                    ELSE [@ EXCEPT !.awaited = FALSE]]
     \/ serving # c /\ call' = [call EXCEPT ![c] = None]
  /\ UNCHANGED <<captureVars, browser, launches, page, marker, interaction,
                 serving, step, relayed>>

----------------------------------------------------------------------------
(* The owner's TerminalLogin, with the mutex held.                         *)

Mine(c) == interaction # None /\ interaction.caller = c

\* The answer: the handler ends, and the command goes on if it still waits.
\* A field that was focused and a key that neither enters nor leaves it keep
\* the relay open.
Answer(c, status, view) ==
  LET next == IF status # "pending" THEN Blank("ended")
              ELSE IF call[c].type \in {"focus", "key"}
              THEN [cmd[c] EXCEPT !.phase = "keys", !.view = view]
              ELSE Menu(view)
  IN /\ serving' = None
     /\ step' = "idle"
     /\ call' = [call EXCEPT ![c] = None]
     /\ cmd' = IF call[c].awaited THEN [cmd EXCEPT ![c] = next] ELSE cmd
     /\ relayed' = None

At(c, s) == serving = c /\ step = s

\* The mutex is taken; the account is signed in already.
AlreadyDone(c) ==
  /\ serving = None /\ call[c] # None
  /\ browser = "account"
  /\ Answer(c, "authenticated", <<>>)
  /\ UNCHANGED <<captureVars, browser, launches, page, marker, interaction>>

\* terminalInteraction: no such interaction, or another caller's, late or not.
NotMine(c) ==
  /\ serving = None /\ call[c] # None
  /\ browser # "account"
  /\ ~Mine(c)
  /\ call[c].type # "start" \/ interaction # None
  /\ Answer(c, "error", <<>>)
  /\ UNCHANGED <<captureVars, browser, launches, page, marker, interaction>>

\* A new interaction, with its own headless browser; or the launch fails.
NewInteraction(c) ==
  /\ serving = None /\ call[c] # None
  /\ browser = "none" /\ interaction = None
  /\ call[c].type = "start"
  /\ Launch("headless")
  /\ interaction' = [caller |-> c, late |-> FALSE, view |-> <<>>]
  /\ page' \in Page
  /\ marker' = Unmarked
  /\ serving' = c
  /\ step' = "poll"
  /\ UNCHANGED <<call, cmd, relayed>>

LaunchFails(c) ==
  /\ serving = None /\ call[c] # None
  /\ browser = "none" /\ interaction = None
  /\ call[c].type = "start"
  /\ Answer(c, "error", <<>>)
  /\ UNCHANGED <<captureVars, browser, launches, page, marker, interaction>>

\* dropTerminalInteraction, with its browser.
DropInteraction(c, status) ==
  /\ interaction' = None
  /\ browser' = "none"
  /\ page' = <<>>
  /\ marker' = Unmarked
  /\ Answer(c, status, <<>>)
  /\ UNCHANGED <<captureVars, launches>>

\* The deadline has passed, or the command cancels.
Expire(c) ==
  /\ serving = None /\ call[c] # None
  /\ browser # "account" /\ Mine(c) /\ interaction.late
  /\ DropInteraction(c, "error")

Cancel(c) ==
  /\ serving = None /\ call[c] # None
  /\ browser # "account" /\ Mine(c) /\ ~interaction.late
  /\ call[c].type = "cancel"
  /\ DropInteraction(c, "cancelled")

\* The call goes on with its action, or with a look at the session.
Continue(c) ==
  /\ serving = None /\ call[c] # None
  /\ browser # "account" /\ Mine(c) /\ ~interaction.late
  /\ call[c].type # "cancel"
  /\ serving' = c
  /\ step' = IF call[c].type \in Acts THEN "act" ELSE "poll"
  /\ UNCHANGED <<captureVars, browser, launches, page, marker, interaction,
                 call, cmd, relayed>>

\* TerminalAct: chromedp waits, if need be for ever, until the page has an
\* element with the marker, focuses it and sends the key, or clicks it; that the
\* page takes the focus away in between is not modelled.
Act(c) ==
  /\ At(c, "act")
  /\ \E e \in Range(page) :
       /\ marker[e] = call[c].control
       /\ relayed' = [meant |-> call[c].meant, reached |-> e]
  /\ step' = "poll"
  /\ UNCHANGED <<captureVars, browser, launches, page, marker, interaction,
                 serving, call, cmd>>

\* The browser refuses, or the caller is gone and its context with it.
ActFails(c) ==
  /\ At(c, "act")
  /\ Answer(c, "error", <<>>)
  /\ UNCHANGED <<captureVars, browser, launches, page, marker, interaction>>

\* CurrentSession has a snapshot: the interaction's browser becomes the account's
\* (nothing reads its page any more); if no account can be built it is closed.
Authenticated(c) ==
  /\ At(c, "poll") /\ Ready
  /\ interaction' = None
  /\ browser' = "account"
  /\ page' = <<>>
  /\ marker' = Unmarked
  /\ Answer(c, "authenticated", <<>>)
  /\ UNCHANGED <<captureVars, launches>>

AccountFails(c) ==
  /\ At(c, "poll") /\ Ready
  /\ DropInteraction(c, "error")

\* Mutant of RefreshView: every answer has a fresh view.
RefreshViewAlways(c) == call[c].type \in ActionType

\* Only what may have changed the page brings a fresh view.
RefreshView(c) == call[c].type \in {"start", "refresh", "activate", "enter"}

\* TerminalSnapshot: the old markers are removed and the visible controls
\* numbered anew.
Numbered(p) ==
  [e \in Element |-> IF e \in Range(p) THEN CHOOSE n \in DOMAIN p : p[n] = e
                     ELSE 0]

\* Without a session the answer is the view, as it was shown or a fresh one.
ShowAgain(c) ==
  /\ At(c, "poll") /\ ~Ready
  /\ ~RefreshView(c)
  /\ Answer(c, "pending", interaction.view)
  /\ UNCHANGED <<captureVars, browser, launches, page, marker, interaction>>

NotReady(c) ==
  /\ At(c, "poll") /\ ~Ready
  /\ RefreshView(c)
  /\ step' = "view"
  /\ UNCHANGED <<captureVars, browser, launches, page, marker, interaction,
                 serving, call, cmd, relayed>>

Snapshot(c) ==
  /\ At(c, "view")
  /\ marker' = Numbered(page)
  /\ interaction' = [interaction EXCEPT !.view = page]
  /\ Answer(c, "pending", page)
  /\ UNCHANGED <<captureVars, browser, launches, page>>

SnapshotFails(c) ==
  /\ At(c, "view")
  /\ Answer(c, "error", <<>>)
  /\ UNCHANGED <<captureVars, browser, launches, page, marker, interaction>>

\* LoginTimeout is over.
DeadlinePasses ==
  /\ interaction # None /\ ~interaction.late
  /\ interaction' = [interaction EXCEPT !.late = TRUE]
  /\ UNCHANGED <<captureVars, browser, launches, page, marker, serving, call,
                 step, cmd, relayed>>

----------------------------------------------------------------------------

CommandNext(c) ==
  \/ Start(c)   \/ Choose(c)   \/ Refresh(c)  \/ Quit(c)
  \/ Relay(c)   \/ Escape(c)   \/ BreakOff(c) \/ GiveUp(c)

Serve(c) ==
  \/ AlreadyDone(c)   \/ NotMine(c)        \/ NewInteraction(c)
  \/ LaunchFails(c)   \/ Expire(c)         \/ Cancel(c)
  \/ Continue(c)      \/ Act(c)            \/ ActFails(c)
  \/ Authenticated(c) \/ AccountFails(c)   \/ Snapshot(c)
  \/ SnapshotFails(c) \/ ShowAgain(c)      \/ NotReady(c)

Next ==
  \/ Traffics
  \/ PageChanges
  \/ VisibleLogin \/ VisibleDone \/ VisibleFailed
  \/ \E c \in Command : CommandNext(c) \/ Serve(c)
  \/ DeadlinePasses

Spec == Init /\ [][Next]_vars

----------------------------------------------------------------------------

\* The state of a sign-in has its type.
SignInTypeOK ==
  /\ CaptureTypeOK
  /\ browser \in {"none", "visible", "headless", "account"}
  /\ launches \in 0..MaxLaunches
  /\ page \in Page
  /\ marker \in [Element -> Nat]
  /\ interaction \in Interaction \cup {None}
  /\ serving \in Command \cup {Visible, None}
  /\ call \in [Command -> Call \cup {None}]
  /\ step \in {"idle", "act", "poll", "view"}
  /\ cmd \in [Command -> Shown]
  /\ relayed \in [meant: Element, reached: Element] \cup {None}

\* Every key and every activation reaches the control that the person chose:
\* the numbers of the view on the terminal and the markers on the page stay the
\* same ones although the page changes, views are cached, and another caller
\* may log in ("TerminalAction targets an element from the most recently
\* rendered view", browser/terminal.go:53).
KeysReachChosenControl ==
  relayed # None => relayed.reached = relayed.meant
=============================================================================
