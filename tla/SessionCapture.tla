--------------------------- MODULE SessionCapture ---------------------------
(***************************************************************************)
(* How a browser's traffic becomes the session of an account: the observer *)
(* of Chrome's network events (internal/browser/observer.go) and the       *)
(* manager that keeps the latest snapshot (internal/session).              *)
(*                                                                         *)
(* Chrome tells of a request twice: EventRequestWillBeSent has its URL and *)
(* the headers of the page, EventRequestWillBeSentExtraInfo has all its    *)
(* headers and no URL.  The two come in either order.  A redirect is       *)
(* another hop under the same request ID.  chromedp delivers the events    *)
(* one after the other, so a handler is one step.                          *)
(***************************************************************************)
EXTENDS Naturals, Sequences, FiniteSets

CONSTANTS
  RequestID,  \* Chrome's numbers of requests
  MaxHops,    \* bound: hops of a request
  MaxEarly,   \* maximumPendingExtraHeaders
  None

\* A hop goes to the configured origin or elsewhere, with or without a well
\* formed bearer authorization.
Hop == [firstParty: BOOLEAN, bearer: BOOLEAN]

Traffic ==
  [RequestID -> UNION {[1..n -> Hop] : n \in 0..MaxHops}]

\* The authorization of a hop; it stands for the snapshot made of its headers.
Source == [id: RequestID, hop: 1..MaxHops]

ASSUME CaptureAssumption ==
  /\ MaxHops \in Nat \ {0}
  /\ MaxEarly \in Nat \ {0}
  /\ None \notin Source

VARIABLES
  traffic,    \* what the browser has sent
  announced,  \* [RequestID -> hops whose EventRequestWillBeSent was handled]
  detailed,   \* [RequestID -> hops whose ExtraInfo was handled]
  finished,   \* requests whose LoadingFinished or LoadingFailed was handled
  eligible,   \* requests known to go to the configured origin
  early,      \* [RequestID -> hop whose headers wait for their request, or 0]
  current,    \* the manager's snapshot, or None
  dropped     \* history: hops whose full headers came too late, or were cleared

captureVars == <<traffic, announced, detailed, finished, eligible, early,
                 current, dropped>>

\* A browser is launched: a new manager and a new observer (NewManager,
\* newRequestObserver).
NewBrowser ==
  /\ traffic' = [q \in RequestID |-> <<>>]
  /\ announced' = [q \in RequestID |-> 0]
  /\ detailed' = [q \in RequestID |-> 0]
  /\ finished' = {}
  /\ eligible' = {}
  /\ early' = [q \in RequestID |-> 0]
  /\ current' = None
  /\ dropped' = {}

CaptureInit ==
  /\ traffic = [q \in RequestID |-> <<>>]
  /\ announced = [q \in RequestID |-> 0]
  /\ detailed = [q \in RequestID |-> 0]
  /\ finished = {}
  /\ eligible = {}
  /\ early = [q \in RequestID |-> 0]
  /\ current = None
  /\ dropped = {}

----------------------------------------------------------------------------

Sent(q) == Len(traffic[q])
FirstParty(q, h) == traffic[q][h].firstParty
Pending == {q \in RequestID : early[q] # 0}

\* Manager.Observe for the headers of a hop, joined with a URL of the configured
\* origin: with a bearer they become the snapshot, without one it stays.
Observe(snapshot, q, h) ==
  IF traffic[q][h].bearer THEN [id |-> q, hop |-> h] ELSE snapshot

\* Chrome sends a request, or the next hop of a redirected one.
Send(q) ==
  /\ Sent(q) < MaxHops
  /\ announced[q] = Sent(q) /\ q \notin finished
  /\ \E hop \in Hop : traffic' = [traffic EXCEPT ![q] = Append(@, hop)]
  /\ UNCHANGED <<announced, detailed, finished, eligible, early, current,
                 dropped>>

\* The headers of the page show the authorization or they do not.
PageHeaders(q, h, shown) == IF shown THEN Observe(current, q, h) ELSE current

\* Mutant of RequestWillBeSent: headers that came early are not joined.
RequestWillBeSentUnjoined(q) ==
  LET h == announced[q] + 1
  IN /\ h <= Sent(q)
     /\ announced' = [announced EXCEPT ![q] = h]
     /\ IF FirstParty(q, h)
        THEN /\ \E shown \in BOOLEAN : current' = PageHeaders(q, h, shown)
             /\ eligible' = eligible \cup {q}
             /\ early' = [early EXCEPT ![q] = 0]
        ELSE UNCHANGED <<current, eligible, early>>
     /\ UNCHANGED <<traffic, detailed, finished, dropped>>

\* request: a hop to another origin is ignored; one to the configured origin
\* makes the request eligible and joins the headers that came early.
RequestWillBeSent(q) ==
  LET h == announced[q] + 1
  IN /\ h <= Sent(q)
     /\ announced' = [announced EXCEPT ![q] = h]
     /\ IF FirstParty(q, h)
        THEN /\ \E shown \in BOOLEAN :
                  LET seen == PageHeaders(q, h, shown)
                  IN current' = IF early[q] = 0 THEN seen
                                ELSE Observe(seen, q, early[q])
             /\ eligible' = eligible \cup {q}
             /\ early' = [early EXCEPT ![q] = 0]
        ELSE UNCHANGED <<current, eligible, early>>
     /\ UNCHANGED <<traffic, detailed, finished, dropped>>

\* Mutant of ExtraInfo: early headers are kept without limit.
ExtraInfoUnbounded(q) ==
  LET h == detailed[q] + 1
  IN /\ h <= Sent(q)
     /\ detailed' = [detailed EXCEPT ![q] = h]
     /\ IF q \in eligible
        THEN current' = Observe(current, q, h) /\ UNCHANGED early
        ELSE early' = [early EXCEPT ![q] = h] /\ UNCHANGED current
     /\ UNCHANGED <<traffic, announced, finished, eligible, dropped>>

\* extra: full headers of an eligible request are observed; others wait, those of
\* a request that has ended for nothing, and when too many wait all of them are
\* cleared first.
ExtraInfo(q) ==
  LET h == detailed[q] + 1
      full == Cardinality(Pending) >= MaxEarly
      cleared == IF full THEN {[id |-> p, hop |-> early[p]] : p \in Pending} ELSE {}
      kept == [p \in RequestID |-> IF full THEN 0 ELSE early[p]]
      late == IF q \in finished THEN {[id |-> q, hop |-> h]} ELSE {}
  IN /\ h <= Sent(q)
     /\ detailed' = [detailed EXCEPT ![q] = h]
     /\ IF q \in eligible
        THEN /\ current' = Observe(current, q, h)
             /\ UNCHANGED <<early, dropped>>
        ELSE /\ early' = [kept EXCEPT ![q] = h]
             /\ dropped' = dropped \cup cleared \cup late
             /\ UNCHANGED current
     /\ UNCHANGED <<traffic, announced, finished, eligible>>

\* done: the request is forgotten.
Done(q) ==
  /\ announced[q] = Sent(q) /\ announced[q] > 0
  /\ q \notin finished
  /\ finished' = finished \cup {q}
  /\ eligible' = eligible \ {q}
  /\ early' = [early EXCEPT ![q] = 0]
  /\ UNCHANGED <<traffic, announced, detailed, current, dropped>>

NetworkEvent ==
  \E q \in RequestID :
    Send(q) \/ RequestWillBeSent(q) \/ ExtraInfo(q) \/ Done(q)

\* Manager.Current and Manager.Wait: ready is closed by the first Observe that
\* succeeds and the snapshot is never taken back.
Ready == current # None

----------------------------------------------------------------------------

CaptureTypeOK ==
  /\ traffic \in Traffic
  /\ announced \in [RequestID -> 0..MaxHops]
  /\ detailed \in [RequestID -> 0..MaxHops]
  /\ finished \subseteq RequestID
  /\ eligible \subseteq RequestID
  /\ early \in [RequestID -> 0..MaxHops]
  /\ Cardinality(Pending) <= MaxEarly
  /\ current \in Source \cup {None}
  /\ dropped \subseteq Source

\* The snapshot is an authorization of a request that went to the configured
\* origin.  Of a request that was redirected this says only that one of its hops
\* went there: the headers of a hop may be joined with the URL of another, which
\* IdentityProviderIgnored is about.
NoForeignRequest ==
  Ready =>
    LET q == current.id
        h == current.hop
    IN /\ traffic[q][h].bearer
       /\ \E g \in 1..Sent(q) : FirstParty(q, g) /\ (g = h \/ Sent(q) > 1)

\* The full headers of this hop reached the observer while it could join them:
\* its request had not ended and they were not cleared.
Joinable(q, h) ==
  /\ announced[q] >= h /\ detailed[q] >= h
  /\ [id |-> q, hop |-> h] \notin dropped

\* Both events of an authorised request to the configured origin were handled:
\* there is a session, in whichever order they came.
NothingMissed ==
  (\E q \in RequestID : \E h \in 1..Sent(q) :
      FirstParty(q, h) /\ traffic[q][h].bearer /\ Joinable(q, h)) => Ready

\* A session is captured from no request that kept away from Outlook Web, and
\* from the first authorised one to it whose two events could be joined, whichever
\* of them came first.  (Not that the hop was one to Outlook Web, when its request
\* was redirected; and not that every such request is captured, when full headers
\* were cleared or came after its end.)
CaptureFollowsRequests == NoForeignRequest /\ NothingMissed

\* "Redirects through an identity provider are expected, but authorization from
\* those origins is ignored" (docs/authentication.md:74): the hop whose headers
\* became the snapshot went to the configured origin.
IdentityProviderIgnored == Ready => FirstParty(current.id, current.hop)
=============================================================================
