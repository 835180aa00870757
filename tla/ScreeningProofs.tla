--------------------------- MODULE ScreeningProofs ---------------------------
(***************************************************************************)
(* Proofs about Screening: with the handlers and the compliance keeper     *)
(* beside it, the exchange is still the exchange, so that its theorems     *)
(* hold here too; no application escapes its screening but by a crash, and *)
(* no screening is replaced.                                               *)
(***************************************************************************)
EXTENDS Screening, ExchangeProofs

allVars == <<vars, screeningVars>>

-----------------------------------------------------------------------------
(* The exchange is left alone.                                             *)

LEMMA ExchangeStep == [ScreeningNext]_allVars => [Next]_vars
  <1> SUFFICES ASSUME [ScreeningNext]_allVars PROVE [Next]_vars
    OBVIOUS
  <1>1. CASE Operating
    BY <1>1 DEF Operating, Next
  <1>2. ASSUME NEW u \in Users, NEW w \in DOMAIN wallets, NEW tier \in Requests,
               NEW country \in Countries, NEW named \in BOOLEAN,
               Submit(u, w, tier, country, named)
        PROVE  Next
    <2>1. (country \in HighRisk) \in Sanctions
      BY ScreeningAssumption
    <2>2. SubmitKYC(u, w, tier, country \in HighRisk)
      BY <1>2 DEF Submit
    <2> QED BY <2>1, <2>2 DEF Next
  <1>3. CASE \/ \E h \in handlers : ScreenApplicant(h)
             \/ \E u \in Users, country \in Countries : ScreenAnybody(u, country)
             \/ UNCHANGED allVars
    BY <1>3 DEF ScreenApplicant, ScreenAnybody, allVars
  <1>4. CASE RestartBoth
    BY <1>4 DEF RestartBoth, Next
  <1> QED BY <1>1, <1>2, <1>3, <1>4 DEF ScreeningNext

\* The endpoints that call both keepers do to the exchange what the exchange
\* does by itself: each of its theorems holds next to any screenings, handlers
\* in flight and restarts of both files.
THEOREM ScreeningIsExchange == ScreeningSpec => Spec
  <1>1. ScreeningInit => Init
    BY DEF ScreeningInit
  <1> QED BY <1>1, ExchangeStep, PTL DEF ScreeningSpec, Spec, allVars

\* In particular a user keeps to one active wallet, and a wallet that drew a
\* sanctions match stays frozen, whatever the endpoints do to both keepers.
THEOREM EndpointsKeepSanctions ==
    ScreeningSpec => []OnePerUser /\ []SanctionedIsFrozen
  BY ScreeningIsExchange, OneWalletPerUser, SanctionsLast

-----------------------------------------------------------------------------
(* Applications and their screenings.                                      *)

Screenings == screeningSeq \in Nat /\ DOMAIN screenings \subseteq 1 .. screeningSeq

\* There is a due outcome for every application, and a handler knows its own.
HandlersKnow ==
    /\ DOMAIN due = DOMAIN apps
    /\ due \in Seq({"none", "match", "clear"})
    /\ \A h \in handlers :
          /\ h.app \in DOMAIN apps
          /\ h.user = apps[h.app].user
          /\ due[h.app] = Outcome(h.country)

\* What a screening says of an application.
Answers(n, a) ==
    /\ screenings[n].user = apps[a].user
    /\ screenings[n].match <=> due[a] = "match"

Screened(a) ==
    \/ due[a] = "none"
    \/ a \in unscreened
    \/ \E h \in handlers : h.app = a
    \/ \E n \in DOMAIN screenings : Answers(n, a)

LEMMA AllScreened ==
  /\ ApplicationsAreScreened <=> \A a \in DOMAIN apps : Screened(a)
  /\ ApplicationsAreScreened' <=> (\A a \in DOMAIN apps : Screened(a))'
  BY DEF ApplicationsAreScreened, Screened, Answers

ScreeningInv ==
    RegistrySaved /\ Screenings /\ HandlersKnow /\ ApplicationsAreScreened

\* Operations change nobody's application into another's.
SameApplicants ==
    /\ DOMAIN apps' = DOMAIN apps
    /\ \A a \in DOMAIN apps : apps'[a].user = apps[a].user

LEMMA OperateKeeps ==
  ASSUME TypeOK, RegistrySaved, Operate
  PROVE  SameApplicants /\ RegistrySaved'
  <1>1. CASE AppsKept
    BY <1>1, OperateRegistry DEF AppsKept, SameApplicants
  <1>2. CASE \E u \in Users : Opened(u)
    BY <1>2, OperateRegistry DEF Opened, SameApplicants
  <1> QED BY <1>1, <1>2, OperateRegistry

\* A screening adds an entry under a new number, and leaves all others.
LEMMA ScreenAdds ==
  ASSUME Screenings, NEW u, NEW country, ScreenUser(u, country)
  PROVE  /\ Screenings'
         /\ \A n \in DOMAIN screenings :
               n \in DOMAIN screenings' /\ screenings'[n] = screenings[n]
         /\ \E n \in DOMAIN screenings' :
               screenings'[n] = [user |-> u, match |-> country \in Blocked]
  <1>1. /\ screeningSeq' = screeningSeq + 1
        /\ screenings' = [n \in DOMAIN screenings \cup {screeningSeq'} |->
              IF n = screeningSeq' THEN [user |-> u, match |-> country \in Blocked]
              ELSE screenings[n]]
    BY DEF ScreenUser
  <1>2. screeningSeq' \notin DOMAIN screenings
    BY <1>1 DEF Screenings
  <1>3. Screenings'
    <2>1. DOMAIN screenings' = DOMAIN screenings \cup {screeningSeq'}
      BY <1>1
    <2> QED BY <1>1, <2>1 DEF Screenings
  <1>4. screenings'[screeningSeq'] = [user |-> u, match |-> country \in Blocked]
    BY <1>1
  <1> QED BY <1>1, <1>2, <1>3, <1>4

\* The outcome that a screening records.
LEMMA Recorded ==
  ASSUME NEW u, NEW country, NEW S, NEW s, s = [user |-> u, match |-> country \in S]
  PROVE  s.match = (country \in S)
  <1> DEFINE m == country \in S
  <1>1. s = [user |-> u, match |-> m]
    OBVIOUS
  <1> HIDE DEF m
  <1>2. s.match = m
    BY <1>1
  <1> QED BY <1>2 DEF m

\* The screening of a handler answers its application.
LEMMA HandlerAnswers ==
  ASSUME NEW u, NEW country, NEW a, NEW n, u = apps[a].user, due[a] = Outcome(country),
         screenings[n] = [user |-> u, match |-> country \in Blocked]
  PROVE  Answers(n, a)
  <1>1. screenings[n].user = apps[a].user
    OBVIOUS
  <1>2. screenings[n].match = (country \in Blocked)
    BY Recorded
  <1>3. due[a] = "match" <=> country \in Blocked
    BY DEF Outcome
  <1> QED BY <1>1, <1>2, <1>3 DEF Answers

LEMMA ScreeningStep == TypeOK /\ ScreeningInv /\ [ScreeningNext]_allVars => ScreeningInv'
  <1> SUFFICES ASSUME TypeOK, ScreeningInv, [ScreeningNext]_allVars
               PROVE  ScreeningInv'
    OBVIOUS
  <1>0. /\ RegistrySaved /\ Screenings /\ HandlersKnow
        /\ \A a \in DOMAIN apps : Screened(a)
        /\ apps \in Seq(App)
    BY AllScreened DEF ScreeningInv, TypeOK, FileOK, Persisted
  \* Steps that leave the applications to their applicants, their screenings
  \* to them, and the handlers alone.
  <1>1. ASSUME SameApplicants, RegistrySaved', Screenings',
               handlers' = handlers, due' = due, unscreened' = unscreened,
               \A n \in DOMAIN screenings :
                  n \in DOMAIN screenings' /\ screenings'[n] = screenings[n]
        PROVE  ScreeningInv'
    <2>1. HandlersKnow'
      BY <1>0, <1>1 DEF HandlersKnow, SameApplicants
    <2>2. ASSUME NEW a \in DOMAIN apps' PROVE Screened(a)'
      <3>1. a \in DOMAIN apps /\ Screened(a)
        BY <1>0, <1>1 DEF SameApplicants
      <3>2. \A n \in DOMAIN screenings : Answers(n, a) => Answers(n, a)'
        BY <1>1, <3>1 DEF Answers, SameApplicants
      <3> QED BY <1>1, <3>1, <3>2 DEF Screened
    <2>3. (\A a \in DOMAIN apps : Screened(a))'
      BY <2>2
    <2> QED BY <1>1, <2>1, <2>3, AllScreened DEF ScreeningInv
  <1>2. CASE Operating
    <2>1. SameApplicants /\ RegistrySaved'
      BY <1>0, <1>2, OperateKeeps DEF Operating
    <2>2. UNCHANGED <<screenings, screeningSeq, handlers, due, unscreened>>
      BY <1>2 DEF Operating, screeningVars, complianceVars
    <2> QED BY <1>0, <1>1, <2>1, <2>2 DEF Screenings
  <1>3. ASSUME NEW u \in Users, NEW w \in DOMAIN wallets, NEW tier \in Requests,
               NEW country \in Countries, NEW named \in BOOLEAN,
               Submit(u, w, tier, country, named)
        PROVE  ScreeningInv'
    <2> DEFINE new == Len(apps) + 1
    <2>1. PICK app : apps' = Append(apps, app) /\ app.user = u /\ Save
      BY <1>3 DEF Submit, SubmitKYC
    <2>2. PICK o \in {"none", "match", "clear"} :
             /\ due' = Append(due, o)
             /\ \/ o = "none" /\ handlers' = handlers
                \/ /\ o = Outcome(country)
                   /\ handlers' = handlers \cup
                         {[app |-> new, user |-> u, country |-> country]}
      BY <1>3 DEF Submit, Outcome
    <2>3. UNCHANGED <<screenings, screeningSeq, unscreened>>
      BY <1>3 DEF Submit, complianceVars
    <2>4. /\ Len(due) = Len(apps) /\ Len(apps) \in Nat /\ DOMAIN apps = 1 .. Len(apps)
          /\ due \in Seq({"none", "match", "clear"})
      <3>1. due \in Seq({"none", "match", "clear"}) /\ DOMAIN due = DOMAIN apps
        BY <1>0 DEF HandlersKnow
      <3>2. \A m \in Nat, n \in Nat : 1 .. m = 1 .. n => m = n
        OBVIOUS
      <3>3. /\ DOMAIN apps = 1 .. Len(apps) /\ DOMAIN due = 1 .. Len(due)
            /\ Len(due) \in Nat /\ Len(apps) \in Nat
        BY <1>0, <3>1
      <3> QED BY <3>1, <3>2, <3>3
    <2>5. /\ DOMAIN apps' = DOMAIN apps \cup {new} /\ new \notin DOMAIN apps
          /\ \A a \in DOMAIN apps : apps'[a] = apps[a]
          /\ apps'[new] = app
      BY <1>0, <2>1, <2>4
    <2>6. /\ DOMAIN due' = DOMAIN apps'
          /\ \A a \in DOMAIN apps : due'[a] = due[a]
          /\ due'[new] = o
          /\ due' \in Seq({"none", "match", "clear"})
      BY <2>2, <2>4, <2>5
    <2>7. HandlersKnow'
      BY <1>0, <2>1, <2>2, <2>5, <2>6 DEF HandlersKnow
    <2>8. ASSUME NEW a \in DOMAIN apps' PROVE Screened(a)'
      <3>1. CASE a = new
        <4>1. CASE o = "none"
          BY <2>6, <3>1, <4>1 DEF Screened
        <4>2. CASE o # "none"
          <5>1. [app |-> new, user |-> u, country |-> country] \in handlers'
            BY <2>2, <4>2
          <5>2. [app |-> new, user |-> u, country |-> country].app = a
            BY <3>1
          <5> QED BY <5>1, <5>2 DEF Screened
        <4> QED BY <4>1, <4>2
      <3>2. CASE a # new
        <4>1. a \in DOMAIN apps /\ Screened(a) /\ due'[a] = due[a] /\ apps'[a] = apps[a]
          BY <1>0, <2>5, <2>6, <3>2
        <4>2. \A n \in DOMAIN screenings : Answers(n, a) => Answers(n, a)'
          BY <2>3, <4>1 DEF Answers
        <4>3. handlers \subseteq handlers'
          BY <2>2
        <4> QED BY <2>3, <4>1, <4>2, <4>3 DEF Screened
      <3> QED BY <3>1, <3>2
    <2>9. (\A a \in DOMAIN apps : Screened(a))'
      BY <2>8
    <2>10. RegistrySaved' /\ Screenings'
      BY <1>0, <2>1, <2>3, SavedRegistry DEF Screenings
    <2> QED BY <2>7, <2>9, <2>10, AllScreened DEF ScreeningInv
  <1>4. ASSUME NEW h \in handlers, ScreenApplicant(h)
        PROVE  ScreeningInv'
    <2>1. /\ handlers' = handlers \ {h}
          /\ UNCHANGED <<wallets, apps, disk, due, unscreened>>
          /\ ScreenUser(h.user, h.country)
      BY <1>4 DEF ScreenApplicant, vars, persistent
    <2>2. /\ Screenings'
          /\ \A n \in DOMAIN screenings :
                n \in DOMAIN screenings' /\ screenings'[n] = screenings[n]
          /\ \E n \in DOMAIN screenings' :
                screenings'[n] = [user |-> h.user, match |-> h.country \in Blocked]
      BY <1>0, <2>1, ScreenAdds
    <2>3. RegistrySaved' /\ HandlersKnow'
      BY <1>0, <2>1 DEF RegistrySaved, HandlersKnow
    <2>4. \E n \in DOMAIN screenings' : Answers(n, h.app)'
      <3>1. PICK n \in DOMAIN screenings' :
               screenings'[n] = [user |-> h.user, match |-> h.country \in Blocked]
        BY <2>2
      <3>2. h.user = apps'[h.app].user /\ due'[h.app] = Outcome(h.country)
        BY <1>0, <2>1 DEF HandlersKnow
      <3>3. screenings'[n].user = apps'[h.app].user
        BY <3>1, <3>2
      <3>4. screenings'[n].match = (h.country \in Blocked)
        BY <3>1, Recorded
      <3>5. due'[h.app] = "match" <=> h.country \in Blocked
        BY <3>2 DEF Outcome
      <3>6. Answers(n, h.app)'
        BY <3>3, <3>4, <3>5 DEF Answers
      <3> QED BY <3>6
    <2>5. ASSUME NEW a \in DOMAIN apps' PROVE Screened(a)'
      <3>1. a \in DOMAIN apps /\ Screened(a)
        BY <1>0, <2>1
      <3>2. \A n \in DOMAIN screenings : Answers(n, a) => Answers(n, a)'
        BY <2>1, <2>2 DEF Answers
      <3>3. CASE a = h.app
        BY <2>4, <3>3 DEF Screened
      <3>4. CASE a # h.app
        BY <2>1, <2>2, <3>1, <3>2, <3>4 DEF Screened
      <3> QED BY <3>3, <3>4
    <2>6. (\A a \in DOMAIN apps : Screened(a))'
      BY <2>5
    <2> QED BY <2>2, <2>3, <2>6, AllScreened DEF ScreeningInv
  <1>5. ASSUME NEW u \in Users, NEW country \in Countries, ScreenAnybody(u, country)
        PROVE  ScreeningInv'
    <2>1. /\ ScreenUser(u, country)
          /\ UNCHANGED <<wallets, apps, disk, handlers, due, unscreened>>
      BY <1>5 DEF ScreenAnybody, vars, persistent
    <2>2. SameApplicants /\ RegistrySaved'
      BY <1>0, <2>1 DEF SameApplicants, RegistrySaved
    <2>3. /\ Screenings'
          /\ \A n \in DOMAIN screenings :
                n \in DOMAIN screenings' /\ screenings'[n] = screenings[n]
      BY <1>0, <2>1, ScreenAdds
    <2> QED BY <1>1, <2>1, <2>2, <2>3
  <1>6. CASE RestartBoth
    <2>2. RegistrySaved'
      BY <1>0, <1>6, RestartRegistry DEF RestartBoth
    <2>3. apps' = apps \/ apps' = <<>>
      BY <1>0, <1>6, RestartRegistry DEF RestartBoth
    <2>4. handlers' = {} /\ due' = SubSeq(due, 1, Len(apps'))
      BY <1>6 DEF RestartBoth
    <2>5. /\ due' \in Seq({"none", "match", "clear"})
          /\ DOMAIN due' = DOMAIN apps'
          /\ \A a \in DOMAIN apps' : due'[a] = due[a] /\ apps'[a] = apps[a]
          /\ DOMAIN apps' \subseteq DOMAIN apps
      <3>1. due \in Seq({"none", "match", "clear"}) /\ DOMAIN due = DOMAIN apps
        BY <1>0 DEF HandlersKnow
      <3>2. \A m \in Nat, n \in Nat : 1 .. m = 1 .. n => m = n
        OBVIOUS
      <3>3. /\ DOMAIN apps = 1 .. Len(apps) /\ DOMAIN due = 1 .. Len(due)
            /\ Len(due) \in Nat /\ Len(apps) \in Nat
        BY <1>0, <3>1
      <3>4. Len(due) = Len(apps)
        BY <3>1, <3>2, <3>3
      <3>5. CASE apps' = apps
        <4>1. due' = due
          BY <2>4, <3>1, <3>4, <3>5
        <4> QED BY <3>1, <3>5, <4>1
      <3>6. CASE apps' = <<>>
        <4>1. due' = <<>>
          BY <2>4, <3>1, <3>6
        <4> QED BY <3>6, <4>1
      <3> QED BY <2>3, <3>5, <3>6
    <2>6. HandlersKnow'
      BY <2>4, <2>5 DEF HandlersKnow
    <2>7. CASE /\ ComplianceLoaded
               /\ unscreened' = (unscreened \cup {h.app : h \in handlers}) \cap DOMAIN due'
      <3>1. UNCHANGED <<screenings, screeningSeq>>
        BY <2>7 DEF ComplianceLoaded, LoadedSeq
      <3>2. ASSUME NEW a \in DOMAIN apps' PROVE Screened(a)'
        <4>1. /\ a \in DOMAIN apps /\ Screened(a) /\ due'[a] = due[a]
              /\ apps'[a] = apps[a] /\ a \in DOMAIN due'
          BY <1>0, <2>5
        <4>2. \A n \in DOMAIN screenings : Answers(n, a) => Answers(n, a)'
          BY <3>1, <4>1 DEF Answers
        <4> QED BY <2>7, <3>1, <4>1, <4>2 DEF Screened
      <3>3. (\A a \in DOMAIN apps : Screened(a))'
        BY <3>2
      <3>4. Screenings'
        BY <1>0, <3>1 DEF Screenings
      <3> QED BY <2>2, <2>6, <3>3, <3>4, AllScreened DEF ScreeningInv
    <2>8. CASE ComplianceLost /\ unscreened' = DOMAIN due'
      <3>1. (\A a \in DOMAIN apps : Screened(a))'
        BY <2>5, <2>8 DEF Screened
      <3>2. Screenings'
        BY <2>8 DEF ComplianceLost, Screenings
      <3> QED BY <2>2, <2>6, <3>1, <3>2, AllScreened DEF ScreeningInv
    <2> QED BY <1>6, <2>7, <2>8 DEF RestartBoth
  <1>7. CASE UNCHANGED allVars
    <2>1. UNCHANGED <<wallets, apps, disk, screenings, screeningSeq, handlers, due, unscreened>>
      BY <1>7 DEF allVars, vars, persistent, screeningVars, complianceVars
    <2>2. SameApplicants /\ RegistrySaved' /\ Screenings'
      BY <1>0, <2>1 DEF SameApplicants, RegistrySaved, Screenings
    <2> QED BY <1>1, <2>1, <2>2
  <1> QED BY <1>2, <1>3, <1>4, <1>5, <1>6, <1>7 DEF ScreeningNext

LEMMA ScreeningInvInit == ScreeningInit => ScreeningInv
  <1> SUFFICES ASSUME ScreeningInit PROVE ScreeningInv
    OBVIOUS
  <1>1. /\ wallets = <<>> /\ apps = <<>> /\ disk = Blank /\ due = <<>> /\ handlers = {}
        /\ screenings = <<>> /\ screeningSeq = 0
    BY DEF ScreeningInit, Init, ComplianceInit
  <1>2. RegistrySaved /\ Screenings /\ HandlersKnow
    BY <1>1 DEF RegistrySaved, Blank, Screenings, HandlersKnow
  <1>3. ApplicationsAreScreened
    BY <1>1 DEF ApplicationsAreScreened
  <1> QED BY <1>2, <1>3 DEF ScreeningInv

LEMMA ScreeningInvariant == ScreeningSpec => []ScreeningInv
  <1>1. ScreeningSpec => []TypeOK
    BY ScreeningIsExchange, TypeCorrect
  <1> QED BY <1>1, ScreeningInvInit, ScreeningStep, PTL DEF ScreeningSpec, allVars

\* For any number of applications, handlers, screenings and restarts, an
\* application on file is screened unless a crash came between its two calls.
THEOREM EveryoneIsScreened == ScreeningSpec => []ApplicationsAreScreened
  <1>1. ScreeningInv => ApplicationsAreScreened
    BY DEF ScreeningInv
  <1> QED BY <1>1, ScreeningInvariant, PTL

-----------------------------------------------------------------------------
(* Screenings are kept.                                                    *)

KeptStep ==
    \/ DOMAIN screenings' = {} /\ screeningSeq' = 0
    \/ \A n \in DOMAIN screenings :
          n \in DOMAIN screenings' /\ screenings'[n] = screenings[n]

LEMMA EachIsKept == Screenings /\ [ScreeningNext]_allVars => KeptStep
  <1> SUFFICES ASSUME Screenings, [ScreeningNext]_allVars PROVE KeptStep
    OBVIOUS
  <1>1. ASSUME NEW u, NEW country, ScreenUser(u, country) PROVE KeptStep
    BY <1>1, ScreenAdds DEF KeptStep
  <1>2. ASSUME screenings' = screenings PROVE KeptStep
    BY <1>2 DEF KeptStep
  <1>3. CASE Operating \/ UNCHANGED allVars
    BY <1>2, <1>3 DEF Operating, allVars, screeningVars, complianceVars
  <1>4. CASE \E u \in Users, w \in DOMAIN wallets, tier \in Requests,
                country \in Countries, named \in BOOLEAN : Submit(u, w, tier, country, named)
    BY <1>2, <1>4 DEF Submit, complianceVars
  <1>5. CASE \/ \E h \in handlers : ScreenApplicant(h)
             \/ \E u \in Users, country \in Countries : ScreenAnybody(u, country)
    BY <1>1, <1>5 DEF ScreenApplicant, ScreenAnybody
  <1>6. CASE RestartBoth
    <2>1. CASE ComplianceLoaded
      BY <1>2, <2>1 DEF ComplianceLoaded
    <2>2. CASE ComplianceLost
      BY <2>2 DEF ComplianceLost, KeptStep
    <2> QED BY <1>6, <2>1, <2>2 DEF RestartBoth
  <1> QED BY <1>3, <1>4, <1>5, <1>6 DEF ScreeningNext

\* No screening is ever replaced by a later one: numbers are given out once,
\* whatever restarts there were, as long as the file is whole.
THEOREM ScreeningsKept == ScreeningSpec => ScreeningsAreKept
  <1>1. ScreeningInv => Screenings
    BY DEF ScreeningInv
  <1>2. KeptStep =>
           \/ DOMAIN screenings' = {} /\ screeningSeq' = 0
           \/ \A n \in DOMAIN screenings :
                 n \in DOMAIN screenings' /\ screenings'[n] = screenings[n]
    BY DEF KeptStep
  <1> QED BY <1>1, <1>2, EachIsKept, ScreeningInvariant, PTL
          DEF ScreeningSpec, ScreeningsAreKept, allVars

=============================================================================
