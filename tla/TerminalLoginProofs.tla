------------------------- MODULE TerminalLoginProofs -------------------------
(***************************************************************************)
(* Proofs about the sign-in of an account: a session is captured exactly   *)
(* when Outlook Web was sent an authorization, in whichever order Chrome   *)
(* tells of it, and what is typed into the text relay reaches the control  *)
(* that was chosen - for every number of requests, hops, early headers,    *)
(* commands, controls and browsers.                                        *)
(***************************************************************************)
EXTENDS TerminalLogin, FiniteSetTheorems, SequenceTheorems, TLAPS

(* The inductive invariant of the capture.                                 *)

\* The observer hears of hops in their order and of none that was not sent, and
\* the next hop is sent when the last one was announced.
HopsInv ==
  \A q \in RequestID :
    /\ announced[q] <= Sent(q) /\ Sent(q) <= announced[q] + 1
    /\ detailed[q] <= Sent(q) /\ early[q] <= detailed[q]

\* A request is eligible once a hop to the configured origin was announced, until
\* it ends.
EligibleInv ==
  \A q \in RequestID :
    /\ q \in eligible => \E g \in 1..announced[q] : FirstParty(q, g)
    /\ q \notin finished /\ (\E g \in 1..announced[q] : FirstParty(q, g)) =>
         q \in eligible

\* Full headers that nobody has joined yet are kept, or were not needed.
Waited(q, h) ==
  /\ FirstParty(q, h) /\ traffic[q][h].bearer
  /\ announced[q] < h /\ detailed[q] >= h
  /\ [id |-> q, hop |-> h] \notin dropped

WaitingInv ==
  \A q \in RequestID : \A h \in 1..Sent(q) :
    Waited(q, h) => early[q] = h \/ Ready

SnapshotInv == Ready => current.hop <= Sent(current.id)

CaptureInv ==
  /\ CaptureTypeOK /\ IsFiniteSet(Pending)
  /\ HopsInv /\ EligibleInv /\ WaitingInv /\ SnapshotInv /\ CaptureFollowsRequests

(* The inductive invariant of the relay.                                   *)

\* A marker on the page is a number of the view that was shown last.
MarkerInv ==
  \A e \in Element :
    marker[e] # 0 =>
      /\ interaction # None
      /\ marker[e] \in DOMAIN interaction.view /\ interaction.view[marker[e]] = e

\* A call that is served leads the interaction, and it stands where its type
\* leads: only calls that act reach the page, only the others are answered with
\* a fresh view.
ServingInv ==
  \A c \in Command :
    serving = c =>
      /\ Mine(c) /\ call[c] # None
      /\ step = "act" => call[c].type \in Acts
      /\ step = "view" => RefreshView(c)

\* What the person of c sees and has chosen is what the owner has shown, when c
\* leads the interaction.
InStep(c) ==
  LET k == call[c]
      m == cmd[c]
  IN /\ m.phase \in {"off", "menu", "keys"} => k = None
     /\ k # None /\ k.awaited /\ k.type \in {"focus", "key"} =>
          m.control = k.control /\ m.chosen = k.meant
     /\ Mine(c) =>
          /\ k # None /\ k.type \in Acts =>
               /\ k.control \in DOMAIN interaction.view
               /\ interaction.view[k.control] = k.meant
          /\ m.phase \in {"menu", "keys"} => m.view = interaction.view
          /\ m.phase = "keys" =>
               m.control \in DOMAIN m.view /\ m.view[m.control] = m.chosen

\* The types of the sign-in itself.
LoginTypeOK ==
  /\ browser \in {"none", "visible", "headless", "account"}
  /\ launches \in 0..MaxLaunches
  /\ page \in Page
  /\ marker \in [Element -> Nat]
  /\ interaction \in Interaction \cup {None}
  /\ serving \in Command \cup {Visible, None}
  /\ call \in [Command -> Call \cup {None}]
  /\ step \in {"idle", "act", "poll", "view"}
  /\ cmd \in [Command -> Shown]
  /\ relayed \in [meant: Element, reached: Element] \cup {None}

RelayInv ==
  /\ MarkerInv /\ ServingInv /\ KeysReachChosenControl
  /\ \A c \in Command : InStep(c)

SignInInv == CaptureInv /\ LoginTypeOK /\ RelayInv
----------------------------------------------------------------------------
(* Traffic.                                                                *)

\* What has been sent under an ID is a sequence of hops within the bound.
LEMMA HopsOf ==
  ASSUME CaptureAssumption, CaptureTypeOK, NEW q \in RequestID
  PROVE  /\ traffic[q] \in Seq(Hop) /\ Len(traffic[q]) \in 0..MaxHops
         /\ \A h \in 1..Len(traffic[q]) : traffic[q][h] \in Hop
<1>1. traffic[q] \in UNION {[1..n -> Hop] : n \in 0..MaxHops}
  BY DEF CaptureTypeOK, Traffic
<1>2. PICK n \in 0..MaxHops : traffic[q] \in [1..n -> Hop] BY <1>1
<1>3. n \in Nat /\ traffic[q] \in Seq(Hop) BY <1>2 DEF CaptureAssumption
<1>4. Len(traffic[q]) = n BY <1>2, <1>3
<1> QED BY <1>2, <1>3, <1>4

\* Send: another hop is appended, the others stay.
LEMMA HopAppended ==
  ASSUME CaptureAssumption, CaptureTypeOK, NEW q \in RequestID, Send(q)
  PROVE  /\ traffic' \in Traffic
         /\ \A p \in RequestID \ {q} : traffic'[p] = traffic[p]
         /\ Len(traffic'[q]) = Len(traffic[q]) + 1
         /\ \A h \in 1..Len(traffic[q]) : traffic'[q][h] = traffic[q][h]
<1>1. PICK hop \in Hop : traffic' = [traffic EXCEPT ![q] = Append(traffic[q], hop)]
  BY DEF Send
<1>2. /\ traffic[q] \in Seq(Hop) /\ Len(traffic[q]) \in 0..MaxHops
      /\ Len(traffic[q]) < MaxHops
  BY HopsOf DEF Send, Sent
<1>3. traffic \in Traffic BY DEF CaptureTypeOK
<1> DEFINE s == traffic[q]
           t == Append(s, hop)
<1>4. /\ t \in Seq(Hop) /\ Len(t) = Len(s) + 1
      /\ \A h \in 1..Len(s) : t[h] = s[h]
  BY <1>2
<1>5. t \in [1..Len(t) -> Hop] BY <1>4, LenProperties
<1>6. Len(t) \in 0..MaxHops BY <1>2, <1>4 DEF CaptureAssumption
<1>7. t \in UNION {[1..n -> Hop] : n \in 0..MaxHops} BY <1>5, <1>6
<1>8. traffic' = [traffic EXCEPT ![q] = t] BY <1>1
<1> HIDE DEF t
<1> QED BY <1>3, <1>4, <1>7, <1>8 DEF Traffic
----------------------------------------------------------------------------
(* The observer and the manager.                                           *)

\* The parts of CaptureTypeOK that the steps below need.
LEMMA CaptureTypes ==
  ASSUME CaptureAssumption, CaptureTypeOK, NEW q \in RequestID
  PROVE  /\ Sent(q) \in 0..MaxHops /\ announced[q] \in 0..MaxHops
         /\ detailed[q] \in 0..MaxHops /\ early[q] \in 0..MaxHops
         /\ MaxHops \in Nat /\ 0..MaxHops \subseteq Nat
BY HopsOf DEF CaptureTypeOK, CaptureAssumption, Sent

\* The next hop is sent: what is known of the hops before it stays true of them.
LEMMA SendKeepsCapture ==
  ASSUME CaptureAssumption, CaptureInv, NEW q \in RequestID, Send(q)
  PROVE  CaptureInv'
<1>0. /\ CaptureTypeOK /\ IsFiniteSet(Pending)
      /\ HopsInv /\ EligibleInv /\ WaitingInv /\ SnapshotInv
      /\ NoForeignRequest /\ NothingMissed
  BY DEF CaptureInv, CaptureFollowsRequests
<1>1. /\ UNCHANGED <<announced, detailed, finished, eligible, early, current, dropped>>
      /\ announced[q] = Sent(q)
  BY DEF Send
<1>2. /\ traffic' \in Traffic
      /\ \A p \in RequestID \ {q} : traffic'[p] = traffic[p]
      /\ Len(traffic'[q]) = Sent(q) + 1
      /\ \A h \in 1..Sent(q) : traffic'[q][h] = traffic[q][h]
  BY <1>0, HopAppended DEF Sent
<1>3. ASSUME NEW p \in RequestID
      PROVE  /\ Sent(p) \in Nat /\ Sent(p)' \in Nat /\ Sent(p)' >= Sent(p)
             /\ p # q => Sent(p)' = Sent(p)
             /\ announced[p] \in Nat /\ detailed[p] \in Nat /\ early[p] \in Nat
             /\ announced[p] <= Sent(p) /\ detailed[p] <= Sent(p)
             /\ \A h \in 1..Sent(p) : traffic'[p][h] = traffic[p][h]
  <2>1. /\ Sent(p) \in Nat /\ announced[p] \in Nat /\ detailed[p] \in Nat
        /\ early[p] \in Nat
    BY <1>0, <1>3, CaptureTypes
  <2>2. announced[p] <= Sent(p) /\ detailed[p] <= Sent(p) BY <1>0, <1>3 DEF HopsInv
  <2>3. CASE p = q BY <1>2, <2>1, <2>2, <2>3 DEF Sent
  <2>4. CASE p # q BY <1>2, <1>3, <2>1, <2>2, <2>4 DEF Sent
  <2> QED BY <2>3, <2>4
<1>4. CaptureTypeOK' /\ IsFiniteSet(Pending)'
  BY <1>0, <1>1, <1>2 DEF CaptureTypeOK, Pending
<1>5. HopsInv'
  BY <1>0, <1>1, <1>2, <1>3 DEF HopsInv, Sent
<1>6. EligibleInv'
  <2> SUFFICES ASSUME NEW p \in RequestID
               PROVE  /\ p \in eligible => \E g \in 1..announced[p] : FirstParty(p, g)'
                      /\ p \notin finished
                           /\ (\E g \in 1..announced[p] : FirstParty(p, g)') =>
                           p \in eligible
    BY <1>1 DEF EligibleInv
  <2>1. \A g \in 1..announced[p] : FirstParty(p, g)' <=> FirstParty(p, g)
    BY <1>3 DEF FirstParty
  <2> QED BY <1>0, <2>1 DEF EligibleInv
<1>a. ASSUME NEW p \in RequestID, NEW h \in 1..Sent(p)',
             announced[p] >= h \/ detailed[p] >= h
      PROVE  h \in 1..Sent(p)
  BY <1>3, <1>a
<1>7. WaitingInv'
  <2> SUFFICES ASSUME NEW p \in RequestID, NEW h \in 1..Sent(p)', Waited(p, h)'
               PROVE  early[p] = h \/ Ready
    BY <1>1 DEF WaitingInv, Ready
  <2>1. h \in 1..Sent(p) BY <1>1, <1>a DEF Waited
  <2>2. Waited(p, h) BY <1>1, <1>3, <2>1 DEF Waited, FirstParty
  <2> QED BY <1>0, <2>1, <2>2 DEF WaitingInv
<1>8. NothingMissed'
  <2> SUFFICES ASSUME NEW p \in RequestID, NEW h \in 1..Sent(p)',
                      FirstParty(p, h)', traffic'[p][h].bearer, Joinable(p, h)'
               PROVE  Ready
    BY <1>1 DEF NothingMissed, Ready
  <2>1. h \in 1..Sent(p) BY <1>1, <1>a DEF Joinable
  <2>2. FirstParty(p, h) /\ traffic[p][h].bearer /\ Joinable(p, h)
    BY <1>1, <1>3, <2>1 DEF Joinable, FirstParty
  <2> QED BY <1>0, <2>1, <2>2 DEF NothingMissed
<1>9. SnapshotInv' /\ NoForeignRequest'
  <2> SUFFICES ASSUME Ready PROVE SnapshotInv' /\ NoForeignRequest'
    BY <1>1 DEF SnapshotInv, NoForeignRequest, Ready
  <2>1. /\ current \in Source /\ current.id \in RequestID
        /\ current.hop \in 1..Sent(current.id)
    <3>1. current \in Source BY <1>0 DEF Ready, CaptureTypeOK
    <3>2. current.id \in RequestID /\ current.hop \in 1..MaxHops BY <3>1 DEF Source
    <3>3. current.hop <= Sent(current.id) BY <1>0 DEF SnapshotInv
    <3> QED BY <1>3, <3>1, <3>2, <3>3 DEF CaptureAssumption
  <2>2a. PICK p \in RequestID : p = current.id BY <2>1
  <2>2b. PICK h \in 1..Sent(p) : h = current.hop BY <2>1, <2>2a
  <2>2. p = current.id /\ h = current.hop BY <2>2a, <2>2b
  <2>3. traffic[p][h].bearer BY <1>0, <2>2 DEF NoForeignRequest
  <2>4. PICK g \in 1..Sent(p) : FirstParty(p, g) /\ (g = h \/ Sent(p) > 1)
    BY <1>0, <2>2 DEF NoForeignRequest
  <2>5. g \in 1..Sent(p)' /\ h <= Sent(p)' /\ (g = h \/ Sent(p)' > 1)
    BY <1>3, <2>4
  <2>6. FirstParty(p, g)' BY <1>3, <2>4 DEF FirstParty
  <2>7. traffic'[p][h].bearer BY <1>3, <2>3
  <2>8. current' = current BY <1>1
  <2>9. SnapshotInv' BY <2>2, <2>5, <2>8 DEF SnapshotInv, Sent
  <2>10. NoForeignRequest'
    <3>1. \E x \in 1..Len(traffic'[p]) :
             traffic'[p][x].firstParty /\ (x = h \/ Len(traffic'[p]) > 1)
      BY <2>5, <2>6 DEF FirstParty, Sent
    <3> QED BY <2>2, <2>7, <2>8, <3>1 DEF NoForeignRequest, FirstParty, Sent
  <2> QED BY <2>9, <2>10
<1> QED BY <1>4, <1>5, <1>6, <1>7, <1>8, <1>9 DEF CaptureInv, CaptureFollowsRequests

\* A snapshot that is kept, or taken from a request that went to the configured
\* origin, is a good one; and a session that was there stays.
LEMMA SnapshotTaken ==
  ASSUME CaptureAssumption, CaptureTypeOK, SnapshotInv, NoForeignRequest,
         UNCHANGED traffic,
         \/ current' = current
         \/ \E p \in RequestID : \E h \in 1..Sent(p), g \in 1..Sent(p) :
              /\ current' = [id |-> p, hop |-> h] /\ traffic[p][h].bearer
              /\ FirstParty(p, g) /\ (g = h \/ Sent(p) > 1)
  PROVE  /\ current' \in Source \cup {None} /\ (Ready => Ready')
         /\ SnapshotInv' /\ NoForeignRequest'
<1>1. CASE current' = current
  BY <1>1 DEF CaptureTypeOK, SnapshotInv, NoForeignRequest, Ready, Sent, FirstParty
<1>2. CASE \E p \in RequestID : \E h \in 1..Sent(p), g \in 1..Sent(p) :
              /\ current' = [id |-> p, hop |-> h] /\ traffic[p][h].bearer
              /\ FirstParty(p, g) /\ (g = h \/ Sent(p) > 1)
  <2>1. PICK p \in RequestID, h \in Nat : h \in 1..Sent(p) /\ (\E g \in 1..Sent(p) :
              /\ current' = [id |-> p, hop |-> h] /\ traffic[p][h].bearer
              /\ FirstParty(p, g) /\ (g = h \/ Sent(p) > 1))
    BY <1>2
  <2>2. h \in 1..MaxHops BY <2>1, CaptureTypes DEF CaptureAssumption
  <2>3. current' \in Source BY <2>1, <2>2 DEF Source
  <2>4. current'.id = p /\ current'.hop = h /\ Ready'
    BY <2>1, <2>3 DEF Ready, CaptureAssumption
  <2>5. \A x : Sent(x)' = Sent(x) /\ \A y : FirstParty(x, y)' <=> FirstParty(x, y)
    BY DEF Sent, FirstParty
  <2>6. h <= Sent(p) /\ traffic'[p][h].bearer
    BY <2>1, CaptureTypes
  <2>7. SnapshotInv' BY <2>4, <2>5, <2>6 DEF SnapshotInv
  <2>8. NoForeignRequest'
    BY <2>1, <2>4, <2>6 DEF NoForeignRequest, FirstParty, Sent
  <2> QED BY <2>3, <2>4, <2>7, <2>8
<1> QED BY <1>1, <1>2

\* Fewer headers wait than before.
LEMMA FewerPending ==
  ASSUME IsFiniteSet(Pending), Cardinality(Pending) <= MaxEarly, CaptureAssumption,
         Pending' \subseteq Pending
  PROVE  IsFiniteSet(Pending)' /\ Cardinality(Pending)' <= MaxEarly
<1>1. IsFiniteSet(Pending') /\ Cardinality(Pending') <= Cardinality(Pending)
  BY FS_Subset
<1>2. Cardinality(Pending') \in Nat /\ Cardinality(Pending) \in Nat
  BY <1>1, FS_CardinalityType
<1> QED BY <1>1, <1>2 DEF CaptureAssumption

\* The request is announced: its headers are joined with those that came early.
LEMMA AnnouncedKeepsCapture ==
  ASSUME CaptureAssumption, CaptureInv, NEW q \in RequestID, RequestWillBeSent(q)
  PROVE  CaptureInv'
<1>0. /\ CaptureTypeOK /\ IsFiniteSet(Pending) /\ Cardinality(Pending) <= MaxEarly
      /\ HopsInv /\ EligibleInv /\ WaitingInv /\ SnapshotInv
      /\ NoForeignRequest /\ NothingMissed
  BY DEF CaptureInv, CaptureFollowsRequests, CaptureTypeOK
<1>1. PICK h \in Nat : h = announced[q] + 1
  BY <1>0, CaptureTypes
<1>2. /\ h <= Sent(q) /\ announced' = [announced EXCEPT ![q] = h]
      /\ UNCHANGED <<traffic, detailed, finished, dropped>>
  BY <1>1 DEF RequestWillBeSent
<1>3. /\ h = Sent(q) /\ h \in 1..Sent(q) /\ h \in 1..MaxHops
      /\ announced[q] \in Nat /\ announced[q] < h
  BY <1>0, <1>1, <1>2, CaptureTypes DEF HopsInv
<1>4. \A p : Sent(p)' = Sent(p) /\ \A x : FirstParty(p, x)' <=> FirstParty(p, x)
  BY <1>2 DEF Sent, FirstParty
<1>5. /\ announced' \in [RequestID -> 0..MaxHops] /\ announced'[q] = h
      /\ \A p \in RequestID \ {q} : announced'[p] = announced[p]
  BY <1>0, <1>2, <1>3 DEF CaptureTypeOK
<1>6. CASE FirstParty(q, h)
  <2>1. PICK shown \in BOOLEAN :
          current' = IF early[q] = 0 THEN PageHeaders(q, h, shown)
                     ELSE Observe(PageHeaders(q, h, shown), q, early[q])
    BY <1>1, <1>6 DEF RequestWillBeSent
  <2>2. /\ eligible' = eligible \cup {q}
        /\ early' = [early EXCEPT ![q] = 0]
    BY <1>1, <1>6 DEF RequestWillBeSent
  <2>3. early[q] \in 0..Sent(q) /\ Sent(q) \in Nat
    BY <1>0, CaptureTypes DEF HopsInv
  <2>4. \/ current' = current
        \/ current' = [id |-> q, hop |-> h] /\ traffic[q][h].bearer
        \/ /\ early[q] # 0 /\ traffic[q][early[q]].bearer
           /\ current' = [id |-> q, hop |-> early[q]]
    BY <2>1 DEF PageHeaders, Observe
  <2>5. \/ current' = current
        \/ \E p \in RequestID : \E x \in 1..Sent(p), g \in 1..Sent(p) :
              /\ current' = [id |-> p, hop |-> x] /\ traffic[p][x].bearer
              /\ FirstParty(p, g) /\ (g = x \/ Sent(p) > 1)
    <3>1. CASE current' = current BY <3>1
    <3>2. CASE current' = [id |-> q, hop |-> h] /\ traffic[q][h].bearer
      BY <1>3, <1>6, <3>2
    <3>3. CASE /\ early[q] # 0 /\ traffic[q][early[q]].bearer
               /\ current' = [id |-> q, hop |-> early[q]]
      <4>1. /\ early[q] \in 1..Sent(q) /\ (h = early[q] \/ Sent(q) > 1)
        BY <1>3, <2>3, <3>3
      <4> QED BY <1>3, <1>6, <3>3, <4>1
    <3> QED BY <2>4, <3>1, <3>2, <3>3
  <2>6. /\ current' \in Source \cup {None} /\ (Ready => Ready')
        /\ SnapshotInv' /\ NoForeignRequest'
    BY <1>0, <1>2, <2>5, SnapshotTaken
  <2>7. /\ early' \in [RequestID -> 0..MaxHops] /\ early'[q] = 0
        /\ \A p \in RequestID \ {q} : early'[p] = early[p]
    BY <1>0, <2>2 DEF CaptureTypeOK, CaptureAssumption
  <2>8. IsFiniteSet(Pending)' /\ Cardinality(Pending)' <= MaxEarly
    BY <1>0, <2>7, FewerPending DEF Pending
  <2>9. CaptureTypeOK'
    BY <1>0, <1>2, <1>5, <2>2, <2>6, <2>7, <2>8 DEF CaptureTypeOK
  <2>10. HopsInv'
    BY <1>0, <1>2, <1>3, <1>4, <1>5, <2>7, CaptureTypes DEF HopsInv
  <2>11. EligibleInv'
    <3> SUFFICES ASSUME NEW p \in RequestID
                 PROVE  /\ p \in eligible' =>
                             \E g \in 1..announced'[p] : FirstParty(p, g)
                        /\ p \notin finished
                             /\ (\E g \in 1..announced'[p] : FirstParty(p, g)) =>
                             p \in eligible'
      BY <1>2, <1>4 DEF EligibleInv
    <3>1. CASE p = q BY <1>3, <1>5, <1>6, <2>2, <3>1
    <3>2. CASE p # q BY <1>0, <1>5, <2>2, <3>2 DEF EligibleInv
    <3> QED BY <3>1, <3>2
  <2>12. WaitingInv'
    <3> SUFFICES ASSUME NEW p \in RequestID, NEW x \in 1..Sent(p), Waited(p, x)'
                 PROVE  early'[p] = x \/ Ready'
      BY <1>4 DEF WaitingInv
    <3>1. p # q BY <1>2, <1>3, <1>5 DEF Waited
    <3>2. Waited(p, x) BY <1>2, <1>4, <1>5, <3>1 DEF Waited
    <3> QED BY <1>0, <2>6, <2>7, <3>1, <3>2 DEF WaitingInv
  <2>13. NothingMissed'
    <3> SUFFICES ASSUME NEW p \in RequestID, NEW x \in 1..Sent(p),
                        FirstParty(p, x), traffic[p][x].bearer, Joinable(p, x)'
                 PROVE  Ready'
      BY <1>2, <1>4 DEF NothingMissed
    <3>1. CASE announced[p] >= x
      BY <1>0, <1>2, <2>6, <3>1 DEF NothingMissed, Joinable
    <3>2. CASE ~(announced[p] >= x)
      <4>1. /\ p = q /\ x = h
        <5>1. announced'[p] >= x /\ x \in Int /\ Sent(p) \in Nat
          BY <1>0, CaptureTypes DEF Joinable
        <5>2. p = q BY <1>5, <3>2, <5>1
        <5> QED BY <1>1, <1>3, <1>5, <3>2, <5>1, <5>2
      <4>2. Waited(q, h)
        BY <1>2, <1>3, <4>1 DEF Waited, Joinable
      <4>3. early[q] = h \/ Ready BY <1>0, <1>3, <4>2 DEF WaitingInv
      <4>4. CASE early[q] = h
        <5>1. current' = [id |-> q, hop |-> h]
          BY <1>3, <2>1, <4>1, <4>4 DEF Observe
        <5>2. current' \in Source BY <1>3, <5>1 DEF Source
        <5> QED BY <5>2 DEF Ready, CaptureAssumption
      <4> QED BY <2>6, <4>3, <4>4
    <3> QED BY <3>1, <3>2
  <2> QED BY <2>6, <2>8, <2>9, <2>10, <2>11, <2>12, <2>13 DEF CaptureInv, CaptureFollowsRequests
<1>7. CASE ~FirstParty(q, h)
  <2>1. UNCHANGED <<current, eligible, early>>
    BY <1>1, <1>7 DEF RequestWillBeSent
  <2>2. /\ SnapshotInv' /\ NoForeignRequest' /\ (Ready <=> Ready')
    BY <1>0, <1>2, <2>1, SnapshotTaken DEF Ready
  <2>3. CaptureTypeOK' /\ IsFiniteSet(Pending)'
    BY <1>0, <1>2, <1>5, <2>1 DEF CaptureTypeOK, Pending
  <2>4. HopsInv'
    BY <1>0, <1>2, <1>3, <1>4, <1>5, <2>1, CaptureTypes DEF HopsInv
  <2>5. ASSUME NEW p \in RequestID, NEW x \in 1..Sent(p), FirstParty(p, x)
        PROVE  x <= announced'[p] <=> x <= announced[p]
    <3>1. x \in Int /\ Sent(p) \in Nat BY <1>0, CaptureTypes
    <3>2. CASE p = q BY <1>1, <1>3, <1>5, <1>7, <2>5, <3>1, <3>2
    <3>3. CASE p # q BY <1>5, <3>3
    <3> QED BY <3>2, <3>3
  <2>6. EligibleInv'
    <3> SUFFICES ASSUME NEW p \in RequestID
                 PROVE  (\E g \in 1..announced'[p] : FirstParty(p, g)) <=>
                        (\E g \in 1..announced[p] : FirstParty(p, g))
      BY <1>0, <1>2, <1>4, <2>1 DEF EligibleInv
    <3>1. CASE p = q BY <1>1, <1>3, <1>5, <1>7, <3>1
    <3>2. CASE p # q BY <1>5, <3>2
    <3> QED BY <3>1, <3>2
  <2>7. WaitingInv'
    <3> SUFFICES ASSUME NEW p \in RequestID, NEW x \in 1..Sent(p), Waited(p, x)'
                 PROVE  early[p] = x \/ Ready
      BY <1>4, <2>1, <2>2 DEF WaitingInv
    <3>1. announced[p] \in Nat /\ announced'[p] \in Nat /\ x \in Nat
      BY <1>0, <1>3, <1>5, CaptureTypes
    <3>2. Waited(p, x) BY <1>2, <1>4, <2>5, <3>1 DEF Waited
    <3> QED BY <1>0, <3>2 DEF WaitingInv
  <2>8. NothingMissed'
    <3> SUFFICES ASSUME NEW p \in RequestID, NEW x \in 1..Sent(p),
                        FirstParty(p, x), traffic[p][x].bearer, Joinable(p, x)'
                 PROVE  Ready
      BY <1>2, <1>4, <2>2 DEF NothingMissed
    <3>1. announced[p] \in Nat /\ announced'[p] \in Nat /\ x \in Nat
      BY <1>0, <1>3, <1>5, CaptureTypes
    <3>2. Joinable(p, x) BY <1>2, <2>5, <3>1 DEF Joinable
    <3> QED BY <1>0, <3>2 DEF NothingMissed
  <2> QED BY <2>2, <2>3, <2>4, <2>6, <2>7, <2>8 DEF CaptureInv, CaptureFollowsRequests
<1> QED BY <1>6, <1>7

\* Another header waits, and when too many did, no other.
LEMMA OneMorePending ==
  ASSUME CaptureAssumption, IsFiniteSet(Pending), Cardinality(Pending) <= MaxEarly,
         NEW q \in RequestID,
         IF Cardinality(Pending) >= MaxEarly THEN Pending' \subseteq {q}
         ELSE Pending' \subseteq Pending \cup {q}
  PROVE  IsFiniteSet(Pending)' /\ Cardinality(Pending)' <= MaxEarly
<1>1. Cardinality(Pending) \in Nat BY FS_CardinalityType
<1>2. CASE Cardinality(Pending) >= MaxEarly
  <2>1. IsFiniteSet({q}) /\ Cardinality({q}) = 1 BY FS_Singleton
  <2>2. IsFiniteSet(Pending') /\ Cardinality(Pending') <= 1
    BY <1>2, <2>1, FS_Subset
  <2>3. Cardinality(Pending') \in Nat BY <2>2, FS_CardinalityType
  <2> QED BY <2>2, <2>3 DEF CaptureAssumption
<1>3. CASE ~(Cardinality(Pending) >= MaxEarly)
  <2>1. /\ IsFiniteSet(Pending \cup {q})
        /\ Cardinality(Pending \cup {q}) <= Cardinality(Pending) + 1
    BY <1>1, FS_AddElement
  <2>2. /\ IsFiniteSet(Pending')
        /\ Cardinality(Pending') <= Cardinality(Pending \cup {q})
    BY <1>3, <2>1, FS_Subset
  <2>3. Cardinality(Pending') \in Nat /\ Cardinality(Pending \cup {q}) \in Nat
    BY <2>1, <2>2, FS_CardinalityType
  <2> QED BY <1>1, <1>3, <2>1, <2>2, <2>3 DEF CaptureAssumption
<1> QED BY <1>2, <1>3

\* The full headers of a hop: they are observed, or wait, or come too late.
LEMMA DetailedKeepsCapture ==
  ASSUME CaptureAssumption, CaptureInv, NEW q \in RequestID, ExtraInfo(q)
  PROVE  CaptureInv'
<1>0. /\ CaptureTypeOK /\ IsFiniteSet(Pending) /\ Cardinality(Pending) <= MaxEarly
      /\ HopsInv /\ EligibleInv /\ WaitingInv /\ SnapshotInv
      /\ NoForeignRequest /\ NothingMissed
  BY DEF CaptureInv, CaptureFollowsRequests, CaptureTypeOK
<1>1. PICK h \in Nat : h = detailed[q] + 1
  BY <1>0, CaptureTypes
<1>2. /\ h <= Sent(q) /\ detailed' = [detailed EXCEPT ![q] = h]
      /\ UNCHANGED <<traffic, announced, finished, eligible>>
  BY <1>1 DEF ExtraInfo
<1>3. /\ h \in 1..Sent(q) /\ h \in 1..MaxHops /\ detailed[q] \in Nat
      /\ Sent(q) \in Nat /\ announced[q] \in Nat
      /\ announced[q] <= Sent(q) /\ Sent(q) <= announced[q] + 1
  BY <1>0, <1>1, <1>2, CaptureTypes DEF HopsInv
<1>4. \A p : Sent(p)' = Sent(p) /\ \A x : FirstParty(p, x)' <=> FirstParty(p, x)
  BY <1>2 DEF Sent, FirstParty
<1>5. /\ detailed' \in [RequestID -> 0..MaxHops] /\ detailed'[q] = h
      /\ \A p \in RequestID \ {q} : detailed'[p] = detailed[p]
  BY <1>0, <1>2, <1>3 DEF CaptureTypeOK
<1>6. EligibleInv' BY <1>0, <1>2, <1>4 DEF EligibleInv
<1>7. ASSUME NEW p \in RequestID, NEW x \in 1..Sent(p), detailed'[p] >= x
      PROVE  detailed[p] >= x \/ (p = q /\ x = h)
  <2>1. x \in Int BY <1>0, CaptureTypes
  <2>2. CASE p = q BY <1>1, <1>3, <1>5, <1>7, <2>1, <2>2
  <2>3. CASE p # q BY <1>5, <1>7, <2>3
  <2> QED BY <2>2, <2>3
<1>8. CASE q \in eligible
  <2>1. current' = Observe(current, q, h) /\ UNCHANGED <<early, dropped>>
    BY <1>1, <1>8 DEF ExtraInfo
  <2>2. PICK g \in 1..announced[q] : FirstParty(q, g) BY <1>0, <1>8 DEF EligibleInv
  <2>3. g \in 1..Sent(q) /\ (g = h \/ Sent(q) > 1) BY <1>3, <2>2
  <2>4. \/ current' = current
        \/ current' = [id |-> q, hop |-> h] /\ traffic[q][h].bearer
    BY <2>1 DEF Observe
  <2>5. \/ current' = current
        \/ \E p \in RequestID : \E x \in 1..Sent(p), y \in 1..Sent(p) :
              /\ current' = [id |-> p, hop |-> x] /\ traffic[p][x].bearer
              /\ FirstParty(p, y) /\ (y = x \/ Sent(p) > 1)
    BY <1>3, <2>2, <2>3, <2>4
  <2>6. /\ current' \in Source \cup {None} /\ (Ready => Ready')
        /\ SnapshotInv' /\ NoForeignRequest'
    BY <1>0, <1>2, <2>5, SnapshotTaken
  <2>7. ASSUME traffic[q][h].bearer PROVE Ready'
    <3>1. current' = [id |-> q, hop |-> h] BY <2>1, <2>7 DEF Observe
    <3>2. current' \in Source BY <1>3, <3>1 DEF Source
    <3> QED BY <3>2 DEF Ready, CaptureAssumption
  <2>8. CaptureTypeOK' /\ IsFiniteSet(Pending)'
    BY <1>0, <1>2, <1>5, <2>1, <2>6 DEF CaptureTypeOK, Pending
  <2>9. HopsInv'
    <3> SUFFICES ASSUME NEW p \in RequestID
                 PROVE  /\ announced[p] <= Sent(p) /\ Sent(p) <= announced[p] + 1
                        /\ detailed'[p] <= Sent(p) /\ early[p] <= detailed'[p]
      BY <1>2, <1>4, <2>1 DEF HopsInv
    <3>1. CASE p = q
      BY <1>0, <1>1, <1>2, <1>3, <1>5, <3>1, CaptureTypes DEF HopsInv
    <3>2. CASE p # q BY <1>0, <1>5, <3>2 DEF HopsInv
    <3> QED BY <3>1, <3>2
  <2>10. WaitingInv'
    <3> SUFFICES ASSUME NEW p \in RequestID, NEW x \in 1..Sent(p), Waited(p, x)'
                 PROVE  early[p] = x \/ Ready'
      BY <1>4, <2>1 DEF WaitingInv
    <3>1. detailed[p] >= x \/ (p = q /\ x = h) BY <1>7 DEF Waited
    <3>2. CASE detailed[p] >= x
      <4>1. Waited(p, x) BY <1>2, <1>4, <2>1, <3>2 DEF Waited
      <4> QED BY <1>0, <2>6, <4>1 DEF WaitingInv
    <3>3. CASE p = q /\ x = h
      BY <1>2, <2>7, <3>3 DEF Waited
    <3> QED BY <3>1, <3>2, <3>3
  <2>11. NothingMissed'
    <3> SUFFICES ASSUME NEW p \in RequestID, NEW x \in 1..Sent(p),
                        FirstParty(p, x), traffic[p][x].bearer, Joinable(p, x)'
                 PROVE  Ready'
      BY <1>2, <1>4 DEF NothingMissed
    <3>1. detailed[p] >= x \/ (p = q /\ x = h) BY <1>7 DEF Joinable
    <3>2. CASE detailed[p] >= x
      <4>1. Joinable(p, x) BY <1>2, <2>1, <3>2 DEF Joinable
      <4> QED BY <1>0, <2>6, <4>1 DEF NothingMissed
    <3>3. CASE p = q /\ x = h BY <2>7, <3>3
    <3> QED BY <3>1, <3>2, <3>3
  <2> QED BY <1>6, <2>6, <2>8, <2>9, <2>10, <2>11 DEF CaptureInv, CaptureFollowsRequests
<1>9. CASE q \notin eligible
  <2> DEFINE full == Cardinality(Pending) >= MaxEarly
             cleared == IF full THEN {[id |-> p, hop |-> early[p]] : p \in Pending} ELSE {}
             late == IF q \in finished THEN {[id |-> q, hop |-> h]} ELSE {}
  <2>1. /\ early' = [[p \in RequestID |-> IF full THEN 0 ELSE early[p]] EXCEPT ![q] = h]
        /\ dropped' = dropped \cup cleared \cup late
        /\ UNCHANGED current
    BY <1>1, <1>9 DEF ExtraInfo
  <2>2. /\ early'[q] = h
        /\ \A p \in RequestID \ {q} : early'[p] = IF full THEN 0 ELSE early[p]
        /\ early' \in [RequestID -> 0..MaxHops]
    BY <1>0, <1>3, <2>1, CaptureTypes DEF CaptureTypeOK
  <2>3. cleared \subseteq Source /\ late \subseteq Source
    <3>1. \A p \in Pending : p \in RequestID /\ early[p] \in 1..MaxHops
      BY <1>0, CaptureTypes DEF Pending
    <3> QED BY <1>3, <3>1 DEF Source
  <2>4. \A p \in Pending : full => [id |-> p, hop |-> early[p]] \in dropped'
    BY <2>1
  <2>5. q \in finished => [id |-> q, hop |-> h] \in dropped' BY <2>1
  <2>6. dropped \subseteq dropped' /\ dropped' \subseteq Source
    BY <1>0, <2>1, <2>3 DEF CaptureTypeOK
  <2>7. IF full THEN Pending' \subseteq {q} ELSE Pending' \subseteq Pending \cup {q}
    BY <2>2 DEF Pending
  <2> HIDE DEF cleared, late
  <2>8. IsFiniteSet(Pending)' /\ Cardinality(Pending)' <= MaxEarly
    BY <1>0, <2>7, OneMorePending
  <2>9. CaptureTypeOK'
    BY <1>0, <1>2, <1>5, <2>1, <2>2, <2>6, <2>8 DEF CaptureTypeOK
  <2>10. /\ SnapshotInv' /\ NoForeignRequest' /\ (Ready <=> Ready')
    BY <1>0, <1>2, <2>1, SnapshotTaken DEF Ready
  <2>11. HopsInv'
    <3> SUFFICES ASSUME NEW p \in RequestID
                 PROVE  /\ announced[p] <= Sent(p) /\ Sent(p) <= announced[p] + 1
                        /\ detailed'[p] <= Sent(p) /\ early'[p] <= detailed'[p]
      BY <1>2, <1>4 DEF HopsInv
    <3>1. CASE p = q BY <1>2, <1>3, <1>5, <2>2, <3>1
    <3>2. CASE p # q
      <4>1. early'[p] = 0 \/ early'[p] = early[p] BY <2>2, <3>2
      <4> QED BY <1>0, <1>5, <3>2, <4>1, CaptureTypes DEF HopsInv
    <3> QED BY <3>1, <3>2
  <2>12. WaitingInv'
    <3> SUFFICES ASSUME NEW p \in RequestID, NEW x \in 1..Sent(p), Waited(p, x)'
                 PROVE  early'[p] = x \/ Ready
      BY <1>4, <2>10 DEF WaitingInv
    <3>1. detailed[p] >= x \/ (p = q /\ x = h) BY <1>7 DEF Waited
    <3>2. CASE detailed[p] >= x
      <4>1. Waited(p, x) BY <1>2, <1>4, <2>6, <3>2 DEF Waited
      <4>2. early[p] = x \/ Ready BY <1>0, <4>1 DEF WaitingInv
      <4>3. CASE early[p] = x /\ p = q
        BY <1>0, <1>1, <1>2, <1>3, <4>1, <4>3 DEF Waited, HopsInv
      <4>4. CASE early[p] = x /\ p # q
        <5>1. p \in Pending BY <4>4 DEF Pending
        <5>2. ~full BY <2>4, <4>4, <5>1 DEF Waited
        <5> QED BY <2>2, <4>4, <5>2
      <4> QED BY <4>2, <4>3, <4>4
    <3>3. CASE p = q /\ x = h BY <2>2, <3>3
    <3> QED BY <3>1, <3>2, <3>3
  <2>13. NothingMissed'
    <3> SUFFICES ASSUME NEW p \in RequestID, NEW x \in 1..Sent(p),
                        FirstParty(p, x), traffic[p][x].bearer, Joinable(p, x)'
                 PROVE  Ready
      BY <1>2, <1>4, <2>10 DEF NothingMissed
    <3>1. detailed[p] >= x \/ (p = q /\ x = h) BY <1>7 DEF Joinable
    <3>2. CASE detailed[p] >= x
      <4>1. Joinable(p, x) BY <1>2, <2>6, <3>2 DEF Joinable
      <4> QED BY <1>0, <4>1 DEF NothingMissed
    <3>3. CASE p = q /\ x = h
      <4>1. h \in 1..announced[q] BY <1>2, <1>3, <3>3 DEF Joinable
      <4>2. q \in finished BY <1>0, <1>9, <3>3, <4>1 DEF EligibleInv
      <4> QED BY <2>5, <3>3, <4>2 DEF Joinable
    <3> QED BY <3>1, <3>2, <3>3
  <2> QED BY <1>6, <2>8, <2>9, <2>10, <2>11, <2>12, <2>13 DEF CaptureInv, CaptureFollowsRequests
<1> QED BY <1>8, <1>9

\* A request that has ended is forgotten, when all its hops were announced.
LEMMA DoneKeepsCapture ==
  ASSUME CaptureAssumption, CaptureInv, NEW q \in RequestID, Done(q)
  PROVE  CaptureInv'
<1>0. /\ CaptureTypeOK /\ IsFiniteSet(Pending) /\ Cardinality(Pending) <= MaxEarly
      /\ HopsInv /\ EligibleInv /\ WaitingInv /\ SnapshotInv
      /\ NoForeignRequest /\ NothingMissed
  BY DEF CaptureInv, CaptureFollowsRequests, CaptureTypeOK
<1>1. /\ announced[q] = Sent(q)
      /\ finished' = finished \cup {q} /\ eligible' = eligible \ {q}
      /\ early' = [early EXCEPT ![q] = 0]
      /\ UNCHANGED <<traffic, announced, detailed, current, dropped>>
  BY DEF Done
<1>2. \A p : Sent(p)' = Sent(p) /\ \A x : FirstParty(p, x)' <=> FirstParty(p, x)
  BY <1>1 DEF Sent, FirstParty
<1>3. /\ early' \in [RequestID -> 0..MaxHops] /\ early'[q] = 0
      /\ \A p \in RequestID \ {q} : early'[p] = early[p]
  BY <1>0, <1>1 DEF CaptureTypeOK, CaptureAssumption
<1>4. IsFiniteSet(Pending)' /\ Cardinality(Pending)' <= MaxEarly
  BY <1>0, <1>3, FewerPending DEF Pending
<1>5. CaptureTypeOK'
  BY <1>0, <1>1, <1>3, <1>4 DEF CaptureTypeOK
<1>6. SnapshotInv' /\ NoForeignRequest' /\ (Ready <=> Ready')
  BY <1>0, <1>1, SnapshotTaken DEF Ready
<1>7. HopsInv' BY <1>0, <1>1, <1>2, <1>3, CaptureTypes DEF HopsInv
<1>8. EligibleInv' BY <1>0, <1>1, <1>2 DEF EligibleInv
<1>9. WaitingInv'
  <2> SUFFICES ASSUME NEW p \in RequestID, NEW x \in 1..Sent(p), Waited(p, x)'
               PROVE  early'[p] = x \/ Ready
    BY <1>2, <1>6 DEF WaitingInv
  <2>1. Waited(p, x) BY <1>1, <1>2 DEF Waited
  <2>2. p # q BY <1>0, <1>1, <2>1, CaptureTypes DEF Waited
  <2> QED BY <1>0, <1>3, <2>1, <2>2 DEF WaitingInv
<1>10. NothingMissed'
  BY <1>0, <1>1, <1>2, <1>6 DEF NothingMissed, Joinable
<1> QED BY <1>4, <1>5, <1>6, <1>7, <1>8, <1>9, <1>10 DEF CaptureInv, CaptureFollowsRequests

\* A browser that was just launched has seen nothing.
LEMMA NewBrowserCaptures ==
  ASSUME CaptureAssumption, NewBrowser
  PROVE  CaptureInv'
<1>1. /\ traffic' = [q \in RequestID |-> <<>>]
      /\ announced' = [q \in RequestID |-> 0] /\ detailed' = [q \in RequestID |-> 0]
      /\ finished' = {} /\ eligible' = {}
      /\ early' = [q \in RequestID |-> 0] /\ current' = None /\ dropped' = {}
  BY DEF NewBrowser
<1>2. \A q \in RequestID : traffic'[q] = <<>> /\ Len(traffic'[q]) = 0
  BY <1>1
<1>3. traffic' \in Traffic
  <2>1. <<>> \in [1..0 -> Hop] /\ 0 \in 0..MaxHops BY DEF CaptureAssumption
  <2>2. <<>> \in UNION {[1..n -> Hop] : n \in 0..MaxHops} BY <2>1
  <2> QED BY <1>1, <2>2 DEF Traffic
<1>4. Pending' = {} BY <1>1 DEF Pending
<1>5. IsFiniteSet(Pending)' /\ Cardinality(Pending)' <= MaxEarly
  BY <1>4, FS_EmptySet DEF CaptureAssumption
<1>6. CaptureTypeOK'
  BY <1>1, <1>3, <1>5 DEF CaptureTypeOK, CaptureAssumption
<1>7. \A q \in RequestID : Sent(q)' = 0 BY <1>2 DEF Sent
<1>8. HopsInv' /\ EligibleInv' /\ WaitingInv'
  BY <1>1, <1>7 DEF HopsInv, EligibleInv, WaitingInv, Waited
<1>9. SnapshotInv' /\ CaptureFollowsRequests'
  BY <1>1, <1>7 DEF SnapshotInv, CaptureFollowsRequests, NoForeignRequest, NothingMissed, Ready
<1> QED BY <1>5, <1>6, <1>8, <1>9 DEF CaptureInv

\* Every step of the browser's traffic keeps the invariant of the capture.
LEMMA CaptureStep ==
  ASSUME CaptureAssumption, CaptureInv,
         NetworkEvent \/ NewBrowser \/ UNCHANGED captureVars
  PROVE  CaptureInv'
<1>1. CASE NetworkEvent
  BY <1>1, SendKeepsCapture, AnnouncedKeepsCapture, DetailedKeepsCapture,
     DoneKeepsCapture DEF NetworkEvent
<1>2. CASE NewBrowser BY <1>2, NewBrowserCaptures
<1>3. CASE UNCHANGED captureVars
  <2>1. /\ UNCHANGED <<traffic, announced, detailed, finished, eligible, early,
                       current, dropped>>
    BY <1>3 DEF captureVars
  <2>2. \A p : Sent(p)' = Sent(p) /\ \A x : FirstParty(p, x)' <=> FirstParty(p, x)
    BY <2>1 DEF Sent, FirstParty
  <2>3. CaptureTypeOK' /\ IsFiniteSet(Pending)'
    BY <2>1 DEF CaptureInv, CaptureTypeOK, Pending
  <2>4. HopsInv' /\ EligibleInv'
    BY <2>1, <2>2 DEF CaptureInv, HopsInv, EligibleInv
  <2>5. SnapshotInv' /\ NoForeignRequest' /\ (Ready <=> Ready')
    BY <2>1, SnapshotTaken DEF CaptureInv, CaptureFollowsRequests, Ready
  <2>6. WaitingInv'
    BY <2>1, <2>2, <2>5 DEF CaptureInv, WaitingInv, Waited
  <2>7. NothingMissed'
    BY <2>1, <2>2, <2>5 DEF CaptureInv, CaptureFollowsRequests, NothingMissed, Joinable
  <2> QED BY <2>3, <2>4, <2>5, <2>6, <2>7 DEF CaptureInv, CaptureFollowsRequests
<1> QED BY <1>1, <1>2, <1>3

\* Before the first browser nothing was seen.
LEMMA CaptureStarts ==
  ASSUME CaptureAssumption, CaptureInit
  PROVE  CaptureInv
<1>1. /\ traffic = [q \in RequestID |-> <<>>]
      /\ announced = [q \in RequestID |-> 0] /\ detailed = [q \in RequestID |-> 0]
      /\ finished = {} /\ eligible = {}
      /\ early = [q \in RequestID |-> 0] /\ current = None /\ dropped = {}
  BY DEF CaptureInit
<1>2. \A q \in RequestID : traffic[q] = <<>> /\ Len(traffic[q]) = 0
  BY <1>1
<1>3. traffic \in Traffic
  <2>1. <<>> \in [1..0 -> Hop] /\ 0 \in 0..MaxHops BY DEF CaptureAssumption
  <2>2. <<>> \in UNION {[1..n -> Hop] : n \in 0..MaxHops} BY <2>1
  <2> QED BY <1>1, <2>2 DEF Traffic
<1>4. Pending = {} BY <1>1 DEF Pending
<1>5. IsFiniteSet(Pending) /\ Cardinality(Pending) <= MaxEarly
  BY <1>4, FS_EmptySet DEF CaptureAssumption
<1>6. CaptureTypeOK
  BY <1>1, <1>3, <1>5 DEF CaptureTypeOK, CaptureAssumption
<1>7. \A q \in RequestID : Sent(q) = 0 BY <1>2 DEF Sent
<1>8. HopsInv /\ EligibleInv /\ WaitingInv
  BY <1>1, <1>7 DEF HopsInv, EligibleInv, WaitingInv, Waited
<1>9. SnapshotInv /\ CaptureFollowsRequests
  BY <1>1, <1>7 DEF SnapshotInv, CaptureFollowsRequests, NoForeignRequest, NothingMissed, Ready
<1> QED BY <1>5, <1>6, <1>8, <1>9 DEF CaptureInv
----------------------------------------------------------------------------
(* The page and its numbers.                                               *)

\* A page is a list of controls, numbered from 1, each of them once.
LEMMA PageOf ==
  ASSUME TerminalAssumption
  PROVE  /\ <<>> \in Page
         /\ \A p \in Page : \A n \in DOMAIN p :
              n \in Nat \ {0} /\ p[n] \in Element
<1>1. Cardinality(Element) \in Nat BY FS_CardinalityType DEF TerminalAssumption
<1>2. <<>> \in [1..0 -> Element] /\ 0 \in 0..Cardinality(Element) BY <1>1
<1>3. IsInjective(<<>>) BY DEF IsInjective
<1>4. <<>> \in Page BY <1>2, <1>3 DEF Page
<1>5. ASSUME NEW p \in Page, NEW n \in DOMAIN p
      PROVE  n \in Nat \ {0} /\ p[n] \in Element
  <2>1. PICK k \in 0..Cardinality(Element) : p \in [1..k -> Element]
    BY DEF Page
  <2> QED BY <1>1, <2>1
<1> QED BY <1>4, <1>5

\* Numbered: the marker of a control of the page is its number there.
LEMMA NumberedMarks ==
  ASSUME TerminalAssumption, NEW p \in Page
  PROVE  /\ Numbered(p) \in [Element -> Nat]
         /\ \A e \in Element : Numbered(p)[e] # 0 =>
              Numbered(p)[e] \in DOMAIN p /\ p[Numbered(p)[e]] = e
<1>1. ASSUME NEW e \in Element
      PROVE  /\ Numbered(p)[e] \in Nat
             /\ Numbered(p)[e] # 0 =>
                  Numbered(p)[e] \in DOMAIN p /\ p[Numbered(p)[e]] = e
  <2>1. Numbered(p)[e] = IF e \in Range(p) THEN CHOOSE n \in DOMAIN p : p[n] = e
                         ELSE 0
    BY DEF Numbered
  <2>2. CASE e \in Range(p)
    <3>1. \E n \in DOMAIN p : p[n] = e BY <2>2 DEF Range
    <3>2. Numbered(p)[e] \in DOMAIN p /\ p[Numbered(p)[e]] = e
      BY <2>1, <2>2, <3>1
    <3> QED BY <3>2, PageOf
  <2>3. CASE e \notin Range(p) BY <2>1, <2>3
  <2> QED BY <2>2, <2>3
<1>2. Numbered(p) = [e \in Element |-> Numbered(p)[e]] BY DEF Numbered
<1> HIDE DEF Numbered
<1> QED BY <1>1, <1>2
----------------------------------------------------------------------------
(* The commands.                                                           *)

\* A command that this step leaves alone is still in step with the owner.
LEMMA OthersStayInStep ==
  ASSUME NEW c \in Command, InStep(c), call'[c] = call[c], cmd'[c] = cmd[c],
         Mine(c)' => Mine(c) /\ interaction'.view = interaction.view
  PROVE  InStep(c)'
BY DEF InStep

\* A command asks: what it says of a control is what its person has chosen from
\* the view.
LEMMA AskKeepsRelay ==
  ASSUME TerminalAssumption, LoginTypeOK, RelayInv, NEW c \in Command,
         NEW type \in ActionType, NEW phase \in {"asking", "leaving"},
         NEW control \in Nat, NEW meant \in Element \cup {None},
         Ask(c, type, phase, control, meant),
         Mine(c) /\ type \in Acts =>
           control \in DOMAIN interaction.view /\ interaction.view[control] = meant
  PROVE  LoginTypeOK' /\ RelayInv'
<1> DEFINE k == [type |-> type, control |-> control, meant |-> meant,
                 awaited |-> TRUE]
           m == [cmd[c] EXCEPT !.phase = phase, !.control = control,
                               !.chosen = meant]
<1>1. /\ call[c] = None
      /\ call' = [call EXCEPT ![c] = k] /\ cmd' = [cmd EXCEPT ![c] = m]
      /\ UNCHANGED <<browser, launches, page, marker, interaction, serving, step,
                     relayed>>
  BY DEF Ask, LoginTypeOK
<1>2. k \in Call /\ k # None
  <2>1. k \in Call BY DEF Call
  <2>2. None \notin Call BY DEF TerminalAssumption
  <2> QED BY <2>1, <2>2
<1>3. /\ m \in Shown /\ m.phase = phase /\ m.control = control /\ m.chosen = meant
  <2>1. PICK x \in Shown : x = cmd[c] BY DEF LoginTypeOK
  <2>2. m = [x EXCEPT !.phase = phase, !.control = control, !.chosen = meant]
    BY <2>1
  <2> QED BY <2>2 DEF Shown
<1>4. k.type = type /\ k.control = control /\ k.meant = meant
  OBVIOUS
<1> HIDE DEF k, m
<1>5. /\ call'[c] = k /\ cmd'[c] = m
      /\ \A d \in Command \ {c} : call'[d] = call[d] /\ cmd'[d] = cmd[d]
  BY <1>1 DEF LoginTypeOK
<1>6. LoginTypeOK'
  BY <1>1, <1>2, <1>3 DEF LoginTypeOK
<1>7. MarkerInv' /\ KeysReachChosenControl'
  BY <1>1 DEF RelayInv, MarkerInv, KeysReachChosenControl
<1>8. ServingInv'
  <2>1. serving # c BY <1>1 DEF RelayInv, ServingInv
  <2> QED BY <1>1, <1>5, <2>1 DEF RelayInv, ServingInv, Mine, RefreshView
<1>9. ASSUME NEW d \in Command PROVE InStep(d)'
  <2>1. Mine(d)' <=> Mine(d) BY <1>1 DEF Mine
  <2>2. InStep(d) BY DEF RelayInv
  <2>3. CASE d = c
    BY <1>1, <1>3, <1>4, <1>5, <2>1, <2>3 DEF InStep
  <2>4. CASE d # c
    BY <1>1, <1>5, <2>1, <2>2, <2>4, OthersStayInStep
  <2> QED BY <2>3, <2>4
<1> QED BY <1>6, <1>7, <1>8, <1>9 DEF RelayInv

\* What a command does leaves the owner and the page alone, and what it asks
\* for was chosen from the view it shows.
LEMMA CommandKeepsRelay ==
  ASSUME TerminalAssumption, LoginTypeOK, RelayInv, NEW c \in Command,
         CommandNext(c)
  PROVE  LoginTypeOK' /\ RelayInv' /\ UNCHANGED captureVars
<1>0. /\ cmd[c] \in Shown /\ InStep(c)
      /\ cmd[c].view \in Page /\ cmd[c].control \in Nat
      /\ cmd[c].chosen \in Element \cup {None}
  BY DEF LoginTypeOK, RelayInv, Shown
<1>1. CASE \/ Start(c) \/ Refresh(c) \/ Quit(c) \/ BreakOff(c)
  <2>1. PICK type \in {"start", "refresh", "cancel"}, phase \in {"asking", "leaving"} :
          Ask(c, type, phase, 0, None)
    BY <1>1 DEF Start, Refresh, Quit, BreakOff
  <2>2. type \in ActionType /\ type \notin Acts BY DEF ActionType, Acts
  <2>3. LoginTypeOK' /\ RelayInv' BY <2>1, <2>2, AskKeepsRelay
  <2> QED BY <2>1, <2>3 DEF Ask
<1>2. CASE Choose(c)
  <2>1. PICK n \in DOMAIN cmd[c].view :
          Ask(c, IF cmd[c].view[n] \in Input THEN "focus" ELSE "activate",
              "asking", n, cmd[c].view[n])
    BY <1>2 DEF Choose
  <2>2. PICK type \in {"focus", "activate"} :
          type = IF cmd[c].view[n] \in Input THEN "focus" ELSE "activate"
    OBVIOUS
  <2>3. Ask(c, type, "asking", n, cmd[c].view[n]) BY <2>1, <2>2
  <2>4. n \in Nat /\ cmd[c].view[n] \in Element BY <1>0, PageOf
  <2>5. Mine(c) => cmd[c].view = interaction.view
    BY <1>0, <1>2 DEF Choose, Phase, InStep
  <2>6. type \in ActionType BY DEF ActionType
  <2>7. Mine(c) => n \in DOMAIN interaction.view
                   /\ interaction.view[n] = cmd[c].view[n]
    BY <2>5
  <2>8. LoginTypeOK' /\ RelayInv' BY <2>3, <2>4, <2>6, <2>7, AskKeepsRelay
  <2> QED BY <2>3, <2>8 DEF Ask
<1>3. CASE Relay(c)
  <2>1. PICK type \in {"key", "enter", "tab"} :
          Ask(c, type, "asking", cmd[c].control, cmd[c].chosen)
    BY <1>3 DEF Relay
  <2>2. type \in ActionType BY DEF ActionType
  <2>3. Mine(c) => /\ cmd[c].control \in DOMAIN interaction.view
                   /\ interaction.view[cmd[c].control] = cmd[c].chosen
    BY <1>0, <1>3 DEF Relay, Phase, InStep
  <2>4. LoginTypeOK' /\ RelayInv' BY <1>0, <2>1, <2>2, <2>3, AskKeepsRelay
  <2> QED BY <2>1, <2>4 DEF Ask
<1>4. CASE Escape(c)
  <2> DEFINE m == Menu(cmd[c].view)
  <2>1. /\ cmd' = [cmd EXCEPT ![c] = m] /\ cmd[c].phase = "keys"
        /\ UNCHANGED <<captureVars, browser, launches, page, marker, interaction,
                       serving, call, step, relayed>>
    BY <1>4 DEF Escape, Phase
  <2>2. m \in Shown /\ m.phase = "menu" /\ m.view = cmd[c].view
    BY <1>0 DEF Menu, Blank, Shown
  <2> HIDE DEF m
  <2>3. cmd'[c] = m /\ \A d \in Command \ {c} : cmd'[d] = cmd[d]
    BY <2>1 DEF LoginTypeOK
  <2>4. LoginTypeOK' BY <2>1, <2>2 DEF LoginTypeOK
  <2>5. MarkerInv' /\ KeysReachChosenControl' /\ ServingInv'
    BY <2>1 DEF RelayInv, MarkerInv, KeysReachChosenControl, ServingInv, Mine,
                RefreshView
  <2>6. ASSUME NEW d \in Command PROVE InStep(d)'
    <3>1. Mine(d)' <=> Mine(d) BY <2>1 DEF Mine
    <3>2. InStep(d) BY DEF RelayInv
    <3>3. CASE d = c BY <1>0, <2>1, <2>2, <2>3, <3>1, <3>3 DEF InStep
    <3>4. CASE d # c BY <2>1, <2>3, <3>1, <3>2, <3>4, OthersStayInStep
    <3> QED BY <3>3, <3>4
  <2> QED BY <2>1, <2>4, <2>5, <2>6 DEF RelayInv
<1>5. CASE GiveUp(c)
  <2>1. PICK m : m = Blank("ended") OBVIOUS
  <2>2. m \in Shown /\ m.phase = "ended"
    BY <2>1, PageOf DEF Blank, Shown
  <2>3. /\ cmd' = [cmd EXCEPT ![c] = m]
        /\ UNCHANGED <<captureVars, browser, launches, page, marker, interaction,
                       serving, step, relayed>>
    BY <1>5, <2>1 DEF GiveUp
  <2>4. PICK k : /\ call' = [call EXCEPT ![c] = k] /\ (k = None => serving # c \/ call[c] = None)
                 /\ \/ k = None
                    \/ call[c] # None /\ k = [call[c] EXCEPT !.awaited = FALSE]
    <3>1. CASE serving # c /\ call' = [call EXCEPT ![c] = None] BY <3>1
    <3>2. CASE call' = [call EXCEPT ![c] = IF @ = None THEN None
                                           ELSE [@ EXCEPT !.awaited = FALSE]]
      <4>1. PICK x : x = IF call[c] = None THEN None
                         ELSE [call[c] EXCEPT !.awaited = FALSE]
        OBVIOUS
      <4>2. call' = [call EXCEPT ![c] = x] BY <3>2, <4>1 DEF LoginTypeOK
      <4>3. call[c] # None => x # None
        <5>1. SUFFICES ASSUME call[c] # None PROVE x # None OBVIOUS
        <5>2. PICK y \in Call : y = call[c] BY <5>1 DEF LoginTypeOK
        <5>3. x = [y EXCEPT !.awaited = FALSE] BY <4>1, <5>1, <5>2
        <5>4. x \in Call BY <5>3 DEF Call
        <5>5. None \notin Call BY DEF TerminalAssumption
        <5> QED BY <5>4, <5>5
      <4> QED BY <4>1, <4>2, <4>3
    <3> QED BY <1>5, <3>1, <3>2 DEF GiveUp
  <2>5. k \in Call \cup {None}
        /\ (k # None => /\ call[c] # None /\ k.type = call[c].type
                        /\ k.control = call[c].control /\ k.meant = call[c].meant
                        /\ k.awaited = FALSE)
    <3>1. CASE k = None BY <3>1
    <3>2. CASE k # None
      <4>1. PICK x \in Call : x = call[c] /\ x # None
        BY <2>4, <3>2 DEF LoginTypeOK
      <4>2. k = [x EXCEPT !.awaited = FALSE] BY <2>4, <3>2, <4>1
      <4>3. /\ k \in Call /\ k.type = x.type /\ k.control = x.control
            /\ k.meant = x.meant /\ k.awaited = FALSE
        BY <4>2 DEF Call
      <4> QED BY <4>1, <4>3
    <3> QED BY <3>1, <3>2
  <2>6. /\ cmd'[c] = m /\ call'[c] = k
        /\ \A d \in Command \ {c} : cmd'[d] = cmd[d] /\ call'[d] = call[d]
    BY <2>3, <2>4 DEF LoginTypeOK
  <2>7. LoginTypeOK' BY <2>2, <2>3, <2>4, <2>5 DEF LoginTypeOK
  <2>8. MarkerInv' /\ KeysReachChosenControl'
    BY <2>3 DEF RelayInv, MarkerInv, KeysReachChosenControl
  <2>9. ServingInv'
    <3> SUFFICES ASSUME NEW d \in Command, serving = d
                 PROVE  /\ Mine(d) /\ call'[d] # None
                        /\ step = "act" => call'[d].type \in Acts
                        /\ step = "view" => RefreshView(d)'
      BY <2>3 DEF ServingInv, Mine
    <3>1. /\ Mine(d) /\ call[d] # None
          /\ step = "act" => call[d].type \in Acts
          /\ step = "view" => RefreshView(d)
      BY DEF RelayInv, ServingInv
    <3>2. call'[d] # None /\ call'[d].type = call[d].type
      BY <2>4, <2>5, <2>6, <3>1
    <3> QED BY <3>1, <3>2 DEF RefreshView
  <2>10. ASSUME NEW d \in Command PROVE InStep(d)'
    <3>1. Mine(d)' <=> Mine(d) BY <2>3 DEF Mine
    <3>2. InStep(d) BY DEF RelayInv
    <3>3. CASE d = c BY <1>0, <2>2, <2>3, <2>5, <2>6, <3>1, <3>3 DEF InStep
    <3>4. CASE d # c BY <2>3, <2>6, <3>1, <3>2, <3>4, OthersStayInStep
    <3> QED BY <3>3, <3>4
  <2> QED BY <2>3, <2>7, <2>8, <2>9, <2>10 DEF RelayInv
<1> QED BY <1>1, <1>2, <1>3, <1>4, <1>5 DEF CommandNext
----------------------------------------------------------------------------
(* The owner.                                                              *)

\* The owner answers: a command that still waits sees the view that the owner
\* has shown, and a relay that is open keeps to the control it was opened for.
LEMMA AnswerKeepsRelay ==
  ASSUME TerminalAssumption, LoginTypeOK, RelayInv, NEW c \in Command,
         call[c] # None, NEW status, NEW view \in Page, Answer(c, status, view),
         \/ status # "pending" /\ (interaction' = None \/ UNCHANGED interaction)
         \/ /\ status = "pending" /\ Mine(c)
            /\ interaction' \in Interaction /\ interaction'.caller = c
            /\ interaction'.view = view
            /\ call[c].type \in {"focus", "key"} => view = interaction.view
  PROVE  /\ serving' = None /\ step' = "idle" /\ relayed' = None
         /\ call' \in [Command -> Call \cup {None}] /\ cmd' \in [Command -> Shown]
         /\ ServingInv' /\ KeysReachChosenControl'
         /\ \A d \in Command : InStep(d)'
<1>1. /\ serving' = None /\ step' = "idle" /\ relayed' = None
      /\ call' = [call EXCEPT ![c] = None]
  BY DEF Answer
<1>2. PICK x \in Shown : x = cmd[c] BY DEF LoginTypeOK
<1>3. PICK k \in Call : k = call[c] BY DEF LoginTypeOK
<1>4. PICK n \in Shown :
        /\ cmd' = [cmd EXCEPT ![c] = n]
        /\ \/ ~k.awaited /\ n = x
           \/ n.phase = "ended"
           \/ /\ status = "pending" /\ k.type \notin {"focus", "key"}
              /\ n.phase = "menu" /\ n.view = view
           \/ /\ status = "pending" /\ k.type \in {"focus", "key"} /\ k.awaited
              /\ n.phase = "keys" /\ n.view = view
              /\ n.control = x.control /\ n.chosen = x.chosen
  <2>1. CASE ~k.awaited
    <3>1. cmd' = cmd BY <1>3, <2>1 DEF Answer
    <3>2. cmd' = [cmd EXCEPT ![c] = x] BY <1>2, <3>1 DEF LoginTypeOK
    <3> QED BY <2>1, <3>2
  <2>2. CASE k.awaited
    <3>1. PICK n : n = IF status # "pending" THEN Blank("ended")
                       ELSE IF k.type \in {"focus", "key"}
                       THEN [x EXCEPT !.phase = "keys", !.view = view]
                       ELSE Menu(view)
      OBVIOUS
    <3>2. cmd' = [cmd EXCEPT ![c] = n] BY <1>2, <1>3, <2>2, <3>1 DEF Answer
    <3>3. CASE status # "pending"
      <4>1. n = Blank("ended") BY <3>1, <3>3
      <4>2. n \in Shown /\ n.phase = "ended" BY <4>1, PageOf DEF Blank, Shown
      <4> QED BY <3>2, <4>2
    <3>4. CASE status = "pending" /\ k.type \notin {"focus", "key"}
      <4>1. n = Menu(view) BY <3>1, <3>4
      <4>2. n \in Shown /\ n.phase = "menu" /\ n.view = view
        BY <4>1 DEF Menu, Blank, Shown
      <4> QED BY <3>2, <3>4, <4>2
    <3>5. CASE status = "pending" /\ k.type \in {"focus", "key"}
      <4>1. n = [x EXCEPT !.phase = "keys", !.view = view] BY <3>1, <3>5
      <4>2. /\ n \in Shown /\ n.phase = "keys" /\ n.view = view
            /\ n.control = x.control /\ n.chosen = x.chosen
        BY <4>1 DEF Shown
      <4> QED BY <2>2, <3>2, <3>5, <4>2
    <3> QED BY <3>3, <3>4, <3>5
  <2> QED BY <2>1, <2>2
<1>5. /\ call'[c] = None /\ cmd'[c] = n
      /\ \A d \in Command \ {c} : call'[d] = call[d] /\ cmd'[d] = cmd[d]
  BY <1>1, <1>4 DEF LoginTypeOK
<1>6. call' \in [Command -> Call \cup {None}] /\ cmd' \in [Command -> Shown]
  BY <1>1, <1>4 DEF LoginTypeOK
<1>7. ServingInv' /\ KeysReachChosenControl'
  BY <1>1 DEF ServingInv, KeysReachChosenControl, TerminalAssumption
<1>8. interaction' # None => Mine(c)' <=> Mine(c)
  BY DEF Mine
<1>9. ASSUME NEW d \in Command PROVE InStep(d)'
  <2>1. InStep(c) /\ InStep(d) BY DEF RelayInv
  <2>2. None \notin Interaction BY DEF TerminalAssumption
  <2>3. CASE d # c
    <3>1. Mine(d)' => Mine(d) /\ interaction'.view = interaction.view
      BY <2>3 DEF Mine
    <3> QED BY <1>5, <2>1, <2>3, <3>1, OthersStayInStep
  <2>4. CASE d = c
    <3>1. CASE ~k.awaited /\ n = x
      <4>1. n.phase \notin {"menu", "keys"}
        BY <1>2, <1>3, <2>1, <3>1 DEF InStep
      <4> QED BY <1>5, <2>4, <4>1 DEF InStep
    <3>2. CASE n.phase = "ended"
      BY <1>5, <2>4, <3>2 DEF InStep
    <3>3. CASE /\ status = "pending" /\ k.type \notin {"focus", "key"}
               /\ n.phase = "menu" /\ n.view = view
      BY <1>5, <2>4, <3>3 DEF InStep
    <3>4. CASE /\ status = "pending" /\ k.type \in {"focus", "key"} /\ k.awaited
               /\ n.phase = "keys" /\ n.view = view
               /\ n.control = x.control /\ n.chosen = x.chosen
      <4>1. x.control = k.control /\ x.chosen = k.meant
        BY <1>2, <1>3, <2>1, <3>4 DEF InStep
      <4>2. /\ k.control \in DOMAIN interaction.view
            /\ interaction.view[k.control] = k.meant
        BY <1>3, <2>1, <3>4 DEF InStep, Acts
      <4>3. view = interaction.view BY <1>3, <3>4
      <4> QED BY <1>5, <2>4, <3>4, <4>1, <4>2, <4>3 DEF InStep
    <3> QED BY <1>4, <3>1, <3>2, <3>3, <3>4
  <2> QED BY <2>3, <2>4
<1> QED BY <1>1, <1>6, <1>7, <1>9

\* A call that ends with anything but a view: the interaction is left alone, or
\* dropped with its browser.
LEMMA EndsKeepRelay ==
  ASSUME TerminalAssumption, LoginTypeOK, RelayInv, NEW c \in Command,
         call[c] # None, NEW status, status # "pending", Answer(c, status, <<>>),
         \/ UNCHANGED <<browser, page, marker, interaction>>
         \/ /\ interaction' = None /\ page' = <<>> /\ marker' = Unmarked
            /\ browser' \in {"none", "account"},
         UNCHANGED launches
  PROVE  LoginTypeOK' /\ RelayInv'
<1>1. /\ serving' = None /\ step' = "idle" /\ relayed' = None
      /\ call' \in [Command -> Call \cup {None}] /\ cmd' \in [Command -> Shown]
      /\ ServingInv' /\ KeysReachChosenControl'
      /\ \A d \in Command : InStep(d)'
  BY AnswerKeepsRelay, PageOf
<1>2. CASE UNCHANGED <<browser, page, marker, interaction>>
  <2>1. LoginTypeOK' BY <1>1, <1>2 DEF LoginTypeOK
  <2>2. MarkerInv' BY <1>2 DEF RelayInv, MarkerInv
  <2> QED BY <1>1, <2>1, <2>2 DEF RelayInv
<1>3. CASE /\ interaction' = None /\ page' = <<>> /\ marker' = Unmarked
           /\ browser' \in {"none", "account"}
  <2>1. LoginTypeOK' BY <1>1, <1>3, PageOf DEF LoginTypeOK, Unmarked
  <2>2. MarkerInv' BY <1>3 DEF MarkerInv, Unmarked
  <2> QED BY <1>1, <2>1, <2>2 DEF RelayInv
<1> QED BY <1>2, <1>3

\* A call that is served leads the interaction: a fact of ServingInv.
LEMMA ServedLeads ==
  ASSUME LoginTypeOK, RelayInv, NEW c \in Command, serving = c
  PROVE  /\ Mine(c) /\ call[c] # None /\ call[c] \in Call
         /\ interaction \in Interaction /\ interaction.caller = c
         /\ step = "act" => call[c].type \in Acts
         /\ step = "view" => RefreshView(c)
         /\ interaction.view \in Page
<1>1. /\ Mine(c) /\ call[c] # None
      /\ step = "act" => call[c].type \in Acts
      /\ step = "view" => RefreshView(c)
  BY DEF RelayInv, ServingInv
<1>2. interaction \in Interaction /\ interaction.caller = c
  BY <1>1 DEF Mine, LoginTypeOK
<1> QED BY <1>1, <1>2 DEF Interaction, LoginTypeOK

\* The calls that reach the mutex and end at once, or whose browser fails.
LEMMA EndingsKeepRelay ==
  ASSUME TerminalAssumption, LoginTypeOK, RelayInv, NEW c \in Command,
         \/ AlreadyDone(c)   \/ NotMine(c) \/ LaunchFails(c)  \/ Expire(c)
         \/ Cancel(c)        \/ ActFails(c) \/ Authenticated(c)
         \/ AccountFails(c)  \/ SnapshotFails(c)
  PROVE  LoginTypeOK' /\ RelayInv' /\ UNCHANGED captureVars
<1>1. CASE AlreadyDone(c)
  BY <1>1, EndsKeepRelay DEF AlreadyDone
<1>2. CASE NotMine(c)
  BY <1>2, EndsKeepRelay DEF NotMine
<1>3. CASE LaunchFails(c)
  BY <1>3, EndsKeepRelay DEF LaunchFails
<1>4. CASE Expire(c)
  BY <1>4, EndsKeepRelay DEF Expire, DropInteraction
<1>5. CASE Cancel(c)
  BY <1>5, EndsKeepRelay DEF Cancel, DropInteraction
<1>6. CASE ActFails(c)
  BY <1>6, EndsKeepRelay, ServedLeads DEF ActFails, At
<1>7. CASE Authenticated(c)
  BY <1>7, EndsKeepRelay, ServedLeads DEF Authenticated, At
<1>8. CASE AccountFails(c)
  BY <1>8, EndsKeepRelay, ServedLeads DEF AccountFails, DropInteraction, At
<1>9. CASE SnapshotFails(c)
  BY <1>9, EndsKeepRelay, ServedLeads DEF SnapshotFails, At
<1> QED BY <1>1, <1>2, <1>3, <1>4, <1>5, <1>6, <1>7, <1>8, <1>9

\* The markers and the view change together, when no call that acts is under way.
LEMMA ViewsKeepRelay ==
  ASSUME TerminalAssumption, LoginTypeOK, RelayInv, NEW c \in Command,
         Snapshot(c) \/ ShowAgain(c)
  PROVE  LoginTypeOK' /\ RelayInv' /\ UNCHANGED captureVars
<1>1. CASE Snapshot(c)
  <2>1. /\ serving = c /\ step = "view" /\ marker' = Numbered(page)
        /\ interaction' = [interaction EXCEPT !.view = page]
        /\ Answer(c, "pending", page)
        /\ UNCHANGED <<captureVars, browser, launches, page>>
    BY <1>1 DEF Snapshot, At
  <2>2. /\ Mine(c) /\ call[c] # None /\ RefreshView(c)
        /\ interaction \in Interaction /\ interaction.caller = c
    BY <2>1, ServedLeads
  <2>3. page \in Page BY DEF LoginTypeOK
  <2>4. PICK i \in Interaction : i = interaction BY <2>2
  <2>5. interaction' = [i EXCEPT !.view = page] BY <2>1, <2>4
  <2>6. interaction' \in Interaction /\ interaction'.caller = c
        /\ interaction'.view = page
    BY <2>2, <2>3, <2>4, <2>5 DEF Interaction
  <2>7. call[c].type \notin {"focus", "key"} BY <2>2 DEF RefreshView
  <2>8. /\ serving' = None /\ step' = "idle" /\ relayed' = None
        /\ call' \in [Command -> Call \cup {None}] /\ cmd' \in [Command -> Shown]
        /\ ServingInv' /\ KeysReachChosenControl'
        /\ \A d \in Command : InStep(d)'
    BY <2>1, <2>2, <2>3, <2>6, <2>7, AnswerKeepsRelay
  <2>9. LoginTypeOK'
    BY <2>1, <2>3, <2>6, <2>8, NumberedMarks DEF LoginTypeOK
  <2>10. MarkerInv'
    <3>1. interaction' # None BY <2>6 DEF TerminalAssumption
    <3> QED BY <2>1, <2>3, <2>6, <3>1, NumberedMarks DEF MarkerInv
  <2> QED BY <2>1, <2>8, <2>9, <2>10 DEF RelayInv
<1>2. CASE ShowAgain(c)
  <2>1. /\ serving = c /\ Answer(c, "pending", interaction.view)
        /\ UNCHANGED <<captureVars, browser, launches, page, marker, interaction>>
    BY <1>2 DEF ShowAgain, At
  <2>2. /\ Mine(c) /\ call[c] # None /\ interaction.view \in Page
        /\ interaction \in Interaction /\ interaction.caller = c
    BY <2>1, ServedLeads
  <2>3. /\ serving' = None /\ step' = "idle" /\ relayed' = None
        /\ call' \in [Command -> Call \cup {None}] /\ cmd' \in [Command -> Shown]
        /\ ServingInv' /\ KeysReachChosenControl'
        /\ \A d \in Command : InStep(d)'
    BY <2>1, <2>2, AnswerKeepsRelay
  <2>4. LoginTypeOK' BY <2>1, <2>3 DEF LoginTypeOK
  <2>5. MarkerInv' BY <2>1 DEF RelayInv, MarkerInv
  <2> QED BY <2>1, <2>3, <2>4, <2>5 DEF RelayInv
<1> QED BY <1>1, <1>2

\* A new interaction: nobody has chosen anything of its page yet.
LEMMA NewKeepsRelay ==
  ASSUME TerminalAssumption, LoginTypeOK, RelayInv, NEW c \in Command,
         NewInteraction(c)
  PROVE  LoginTypeOK' /\ RelayInv' /\ NewBrowser
<1> DEFINE i == [caller |-> c, late |-> FALSE, view |-> <<>>]
<1>1. /\ call[c] # None /\ call[c].type = "start" /\ interaction = None
      /\ browser' = "headless" /\ launches' = launches + 1 /\ launches < MaxLaunches
      /\ interaction' = i /\ page' \in Page /\ marker' = Unmarked
      /\ serving' = c /\ step' = "poll"
      /\ UNCHANGED <<call, cmd, relayed>> /\ NewBrowser
  BY DEF NewInteraction, Launch
<1>2. i \in Interaction /\ i.caller = c /\ i.view = <<>>
  BY PageOf DEF Interaction
<1> HIDE DEF i
<1>3. LoginTypeOK'
  BY <1>1, <1>2 DEF LoginTypeOK, Unmarked, TerminalAssumption
<1>4. i # None BY <1>2 DEF TerminalAssumption
<1>5. MarkerInv' /\ KeysReachChosenControl'
  BY <1>1 DEF MarkerInv, Unmarked, RelayInv, KeysReachChosenControl
<1>6. ServingInv'
  BY <1>1, <1>2, <1>4 DEF ServingInv, Mine
<1>7. ASSUME NEW d \in Command PROVE InStep(d)'
  <2>1. InStep(d) BY DEF RelayInv
  <2>2. CASE d = c
    <3>1. call[c].type \notin Acts BY <1>1 DEF Acts
    <3> QED BY <1>1, <2>1, <2>2, <3>1 DEF InStep
  <2>3. CASE d # c
    <3>1. ~Mine(d)' BY <1>1, <1>2, <2>3 DEF Mine
    <3> QED BY <1>1, <2>1, <3>1, OthersStayInStep
  <2> QED BY <2>2, <2>3
<1> QED BY <1>1, <1>3, <1>5, <1>6, <1>7 DEF RelayInv

\* A call that goes on: to its action, and from there to its look at the session.
LEMMA ProgressKeepsRelay ==
  ASSUME TerminalAssumption, LoginTypeOK, RelayInv, NEW c \in Command,
         Continue(c) \/ Act(c) \/ NotReady(c)
  PROVE  LoginTypeOK' /\ RelayInv' /\ UNCHANGED captureVars
<1>1. UNCHANGED <<captureVars, browser, launches, page, marker, interaction, call, cmd>>
  BY DEF Continue, Act, NotReady
<1>2. \A d \in Command : InStep(d)'
  <2>1. \A d \in Command : Mine(d)' <=> Mine(d) BY <1>1 DEF Mine
  <2> QED BY <1>1, <2>1, OthersStayInStep DEF RelayInv
<1>3. MarkerInv' BY <1>1 DEF RelayInv, MarkerInv
<1>4. CASE Continue(c)
  <2>1. /\ Mine(c) /\ call[c] # None /\ serving' = c
        /\ step' = IF call[c].type \in Acts THEN "act" ELSE "poll"
        /\ UNCHANGED relayed
    BY <1>4 DEF Continue
  <2>2. ServingInv' BY <1>1, <2>1 DEF ServingInv, Mine
  <2>3. KeysReachChosenControl' BY <2>1 DEF RelayInv, KeysReachChosenControl
  <2>4. LoginTypeOK' BY <1>1, <2>1 DEF LoginTypeOK
  <2> QED BY <1>1, <1>2, <1>3, <2>2, <2>3, <2>4 DEF RelayInv
<1>5. CASE NotReady(c)
  <2>1. /\ serving = c /\ RefreshView(c) /\ step' = "view" /\ UNCHANGED <<serving, relayed>>
    BY <1>5 DEF NotReady, At
  <2>2. ServingInv' BY <1>1, <2>1 DEF RelayInv, ServingInv, Mine, RefreshView
  <2>3. KeysReachChosenControl' BY <2>1 DEF RelayInv, KeysReachChosenControl
  <2>4. LoginTypeOK' BY <1>1, <2>1 DEF LoginTypeOK
  <2> QED BY <1>1, <1>2, <1>3, <2>2, <2>3, <2>4 DEF RelayInv
<1>6. CASE Act(c)
  <2>1. /\ serving = c /\ step = "act" /\ step' = "poll" /\ UNCHANGED serving
    BY <1>6 DEF Act, At
  <2>2. PICK e \in Range(page) :
          /\ marker[e] = call[c].control
          /\ relayed' = [meant |-> call[c].meant, reached |-> e]
    BY <1>6 DEF Act
  <2>3. /\ Mine(c) /\ call[c] # None /\ call[c].type \in Acts
        /\ interaction.view \in Page
    BY <2>1, ServedLeads
  <2>4. e \in Element
    <3>1. PICK n \in DOMAIN page : page[n] = e BY <2>2 DEF Range
    <3> QED BY <3>1, PageOf DEF LoginTypeOK
  <2>5. /\ call[c].control \in DOMAIN interaction.view
        /\ interaction.view[call[c].control] = call[c].meant
    BY <2>3 DEF RelayInv, InStep
  <2>6. call[c].control # 0 /\ call[c].meant \in Element
    BY <2>3, <2>5, PageOf
  <2>7. e = call[c].meant
    BY <2>2, <2>4, <2>5, <2>6 DEF RelayInv, MarkerInv
  <2>8. /\ relayed' \in [meant: Element, reached: Element]
        /\ relayed'.reached = relayed'.meant
    BY <2>2, <2>4, <2>6, <2>7
  <2>9. KeysReachChosenControl' BY <2>8 DEF KeysReachChosenControl
  <2>10. ServingInv' BY <1>1, <2>1 DEF RelayInv, ServingInv, Mine, RefreshView
  <2>11. LoginTypeOK' BY <1>1, <2>1, <2>8 DEF LoginTypeOK
  <2> QED BY <1>1, <1>2, <1>3, <2>9, <2>10, <2>11 DEF RelayInv
<1> QED BY <1>4, <1>5, <1>6
----------------------------------------------------------------------------
(* The sign-in.                                                            *)

\* What the page, a visible login and the deadline do.
LEMMA SurroundingsKeepRelay ==
  ASSUME TerminalAssumption, LoginTypeOK, RelayInv,
         PageChanges \/ VisibleLogin \/ VisibleDone \/ VisibleFailed \/ DeadlinePasses
  PROVE  LoginTypeOK' /\ RelayInv' /\ (NewBrowser \/ UNCHANGED captureVars)
<1>1. CASE PageChanges
  <2>1. /\ page' \in Page
        /\ UNCHANGED <<captureVars, browser, launches, interaction, serving, call,
                       step, cmd, relayed>>
    BY <1>1 DEF PageChanges
  <2>2. PICK renewed \in SUBSET Element :
          marker' = [e \in Element |-> IF e \in renewed THEN 0 ELSE marker[e]]
    BY <1>1 DEF PageChanges
  <2>3. LoginTypeOK' BY <2>1, <2>2 DEF LoginTypeOK
  <2>4. MarkerInv' BY <2>1, <2>2 DEF RelayInv, MarkerInv
  <2>5. ServingInv' /\ KeysReachChosenControl'
    BY <2>1 DEF RelayInv, ServingInv, KeysReachChosenControl, Mine, RefreshView
  <2>6. \A d \in Command : InStep(d)'
    BY <2>1, OthersStayInStep DEF RelayInv, Mine
  <2> QED BY <2>1, <2>3, <2>4, <2>5, <2>6 DEF RelayInv
<1>2. CASE VisibleLogin \/ VisibleDone \/ VisibleFailed
  <2>1. /\ UNCHANGED <<page, marker, interaction, call, step, cmd, relayed>>
        /\ serving' \in {Visible, None}
        /\ browser' \in {"visible", "account", "none"}
        /\ launches' \in 0..MaxLaunches
        /\ NewBrowser \/ UNCHANGED captureVars
    BY <1>2 DEF VisibleLogin, VisibleDone, VisibleFailed, Launch, LoginTypeOK,
                TerminalAssumption
  <2>2. LoginTypeOK' BY <2>1 DEF LoginTypeOK
  <2>3. ServingInv' BY <2>1 DEF ServingInv, TerminalAssumption
  <2>4. MarkerInv' /\ KeysReachChosenControl'
    BY <2>1 DEF RelayInv, MarkerInv, KeysReachChosenControl
  <2>5. \A d \in Command : InStep(d)'
    BY <2>1, OthersStayInStep DEF RelayInv, Mine
  <2> QED BY <2>1, <2>2, <2>3, <2>4, <2>5 DEF RelayInv
<1>3. CASE DeadlinePasses
  <2>1. /\ interaction # None /\ interaction' = [interaction EXCEPT !.late = TRUE]
        /\ UNCHANGED <<captureVars, browser, launches, page, marker, serving, call,
                       step, cmd, relayed>>
    BY <1>3 DEF DeadlinePasses
  <2>2. PICK i \in Interaction : i = interaction BY <2>1 DEF LoginTypeOK
  <2>3. interaction' = [i EXCEPT !.late = TRUE] BY <2>1, <2>2
  <2>4. /\ interaction' \in Interaction /\ interaction'.caller = interaction.caller
        /\ interaction'.view = interaction.view
    BY <2>2, <2>3 DEF Interaction
  <2>5. interaction' # None BY <2>4 DEF TerminalAssumption
  <2>6. \A d \in Command : Mine(d)' <=> Mine(d) BY <2>1, <2>4, <2>5 DEF Mine
  <2>7. LoginTypeOK' BY <2>1, <2>4 DEF LoginTypeOK
  <2>8. MarkerInv' BY <2>1, <2>4, <2>5 DEF RelayInv, MarkerInv
  <2>9. ServingInv' /\ KeysReachChosenControl'
    BY <2>1, <2>6 DEF RelayInv, ServingInv, KeysReachChosenControl, RefreshView
  <2>10. \A d \in Command : InStep(d)'
    BY <2>1, <2>4, <2>6, OthersStayInStep DEF RelayInv
  <2> QED BY <2>1, <2>7, <2>8, <2>9, <2>10 DEF RelayInv
<1> QED BY <1>1, <1>2, <1>3

\* A step that leaves the sign-in alone.
LEMMA FramedRelay ==
  ASSUME LoginTypeOK, RelayInv, UNCHANGED loginVars
  PROVE  LoginTypeOK' /\ RelayInv'
<1>1. UNCHANGED <<browser, launches, page, marker, interaction, serving, call,
                  step, cmd, relayed>>
  BY DEF loginVars
<1>2. LoginTypeOK' BY <1>1 DEF LoginTypeOK
<1>3. \A d \in Command : InStep(d)'
  BY <1>1, OthersStayInStep DEF RelayInv, Mine
<1>4. MarkerInv' /\ ServingInv' /\ KeysReachChosenControl'
  BY <1>1 DEF RelayInv, MarkerInv, ServingInv, KeysReachChosenControl, Mine,
              RefreshView
<1> QED BY <1>2, <1>3, <1>4 DEF RelayInv

\* Init: no browser, no call, and every command is off.
LEMMA SignInStarts ==
  ASSUME CaptureAssumption, TerminalAssumption, Init
  PROVE  SignInInv
<1>1. CaptureInv BY CaptureStarts DEF Init
<1>2. Blank("off") \in Shown /\ Blank("off").phase = "off"
  BY PageOf DEF Blank, Shown
<1>3. LoginTypeOK
  BY <1>2, PageOf DEF Init, LoginTypeOK, Unmarked, TerminalAssumption
<1>4. RelayInv
  <2>1. MarkerInv /\ KeysReachChosenControl
    BY DEF Init, MarkerInv, KeysReachChosenControl, Unmarked
  <2>2. ServingInv BY DEF Init, ServingInv, TerminalAssumption
  <2>3. ASSUME NEW c \in Command PROVE InStep(c)
    <3>1. call[c] = None /\ interaction = None BY DEF Init
    <3> QED BY <3>1 DEF InStep, Mine, Init, Blank
  <2> QED BY <2>1, <2>2, <2>3 DEF RelayInv
<1> QED BY <1>1, <1>3, <1>4 DEF SignInInv

\* Every step keeps the invariant.
LEMMA SignInStep ==
  ASSUME CaptureAssumption, TerminalAssumption, SignInInv, [Next]_vars
  PROVE  SignInInv'
<1>1. CaptureInv /\ LoginTypeOK /\ RelayInv BY DEF SignInInv
<1>2. LoginTypeOK' /\ RelayInv' /\ (NetworkEvent \/ NewBrowser \/ UNCHANGED captureVars)
  <2>1. CASE Traffics
    BY <1>1, <2>1, FramedRelay DEF Traffics
  <2>2. CASE PageChanges \/ VisibleLogin \/ VisibleDone \/ VisibleFailed \/ DeadlinePasses
    BY <1>1, <2>2, SurroundingsKeepRelay
  <2>3. ASSUME NEW c \in Command, CommandNext(c)
        PROVE  LoginTypeOK' /\ RelayInv' /\ UNCHANGED captureVars
    BY <1>1, <2>3, CommandKeepsRelay
  <2>4. ASSUME NEW c \in Command, Serve(c)
        PROVE  LoginTypeOK' /\ RelayInv' /\ (NewBrowser \/ UNCHANGED captureVars)
    <3>1. CASE NewInteraction(c) BY <1>1, <3>1, NewKeepsRelay
    <3>2. CASE Snapshot(c) \/ ShowAgain(c) BY <1>1, <3>2, ViewsKeepRelay
    <3>3. CASE Continue(c) \/ Act(c) \/ NotReady(c)
      BY <1>1, <3>3, ProgressKeepsRelay
    <3>4. CASE ~NewInteraction(c) /\ ~Snapshot(c) /\ ~ShowAgain(c) /\ ~Continue(c)
               /\ ~Act(c) /\ ~NotReady(c)
      BY <1>1, <2>4, <3>4, EndingsKeepRelay DEF Serve
    <3> QED BY <3>1, <3>2, <3>3, <3>4
  <2>5. CASE UNCHANGED vars
    BY <1>1, <2>5, FramedRelay DEF vars
  <2> QED BY <2>1, <2>2, <2>3, <2>4, <2>5 DEF Next
<1>3. CaptureInv' BY <1>1, <1>2, CaptureStep
<1> QED BY <1>2, <1>3 DEF SignInInv

\* The inductive invariant holds of every sign-in.
THEOREM SignInInvariant == Spec => []SignInInv
<1>1. Init => SignInInv
  BY CaptureAssumption, TerminalAssumption, SignInStarts
<1>2. SignInInv /\ [Next]_vars => SignInInv'
  BY CaptureAssumption, TerminalAssumption, SignInStep
<1> QED BY <1>1, <1>2, PTL DEF Spec

\* The state of every sign-in has its type, and no more than MaxEarly headers ever
\* wait for their request.
THEOREM SignInTyping == Spec => []SignInTypeOK
<1>1. SignInInv => SignInTypeOK
  BY DEF SignInInv, CaptureInv, LoginTypeOK, SignInTypeOK
<1> QED BY <1>1, SignInInvariant, PTL

\* Whatever the order of the two events of each hop: a session is captured from a
\* request that was sent to Outlook Web, in one of its hops when it was redirected,
\* and one is captured once such an authorised hop had both its events handled
\* while the observer could join them.  That the hop captured from is the one that
\* went there is no theorem: of a redirected request it is false
\* (IdentityProviderIgnored).
THEOREM CapturesFollowRequests == Spec => []CaptureFollowsRequests
<1>1. SignInInv => CaptureFollowsRequests BY DEF SignInInv, CaptureInv
<1> QED BY <1>1, SignInInvariant, PTL

\* What is typed or activated through the text relay reaches the control that the
\* person chose from the view on the terminal, although pages change, views are
\* cached and other commands come and go.
THEOREM KeysAreNotMisdirected == Spec => []KeysReachChosenControl
<1>1. SignInInv => KeysReachChosenControl BY DEF SignInInv, RelayInv
<1> QED BY <1>1, SignInInvariant, PTL
==============================================================================
