------------------------------- MODULE Screening -------------------------------
(***************************************************************************)
(* The KYC endpoints of cmd/ftgd/rpc_exchange.go, which call two keepers:  *)
(* handleKYCSubmit hands an application to the exchange (module Exchange)  *)
(* and then has the applicant screened by the compliance keeper (module    *)
(* Compliance), without a lock over the two calls and without looking at   *)
(* the second result.  Each keeper has its own file, so that a crash may   *)
(* fall between the two, and its own list of countries.                    *)
(***************************************************************************)
EXTENDS Exchange, Compliance

CONSTANTS
    HighRisk,       \* the countries runAMLChecks calls high-risk
    MaxInFlight     \* bound

ASSUME ScreeningAssumption ==
    /\ HighRisk \subseteq Countries
    /\ Sanctions = BOOLEAN
    /\ MaxInFlight \in Nat

VARIABLES
    handlers,     \* handleKYCSubmit between its two calls
    due,          \* per application: what its screening finds
    unscreened    \* history: applications whose screening a crash prevented
                  \* or lost

screeningVars == <<complianceVars, handlers, due, unscreened>>

Outcome(country) == IF country \in Blocked THEN "match" ELSE "clear"

-----------------------------------------------------------------------------

Operating == Operate /\ UNCHANGED screeningVars

\* handleKYCSubmit up to the return of SubmitKYC.  An application without the
\* applicant's full name is accepted but not screened.
Submit(u, w, tier, country, named) ==
    /\ Cardinality(handlers) < MaxInFlight
    /\ SubmitKYC(u, w, tier, country \in HighRisk)
    /\ due' = Append(due, IF named THEN Outcome(country) ELSE "none")
    /\ handlers' = IF named
                   THEN handlers \cup {[app |-> Len(apps) + 1, user |-> u,
                                        country |-> country]}
                   ELSE handlers
    /\ UNCHANGED <<complianceVars, unscreened>>

\* Mutated form of ScreenApplicant: a rejected application is not screened.
ScreenUnlessRejected(h) ==
    /\ handlers' = handlers \ {h}
    /\ IF apps[h.app].sanctioned THEN UNCHANGED complianceVars
       ELSE ScreenUser(h.user, h.country)
    /\ UNCHANGED <<vars, due, unscreened>>

\* The rest of handleKYCSubmit.
ScreenApplicant(h) ==
    /\ handlers' = handlers \ {h}
    /\ ScreenUser(h.user, h.country)
    /\ UNCHANGED <<vars, due, unscreened>>

\* handleKYCScreen: anybody may be screened for any country.
ScreenAnybody(u, country) ==
    /\ ScreenUser(u, country)
    /\ UNCHANGED <<vars, handlers, due, unscreened>>

\* The process dies, with its handlers, and both keepers load their files.
RestartBoth ==
    /\ Restart
    /\ handlers' = {}
    /\ due' = SubSeq(due, 1, Len(apps'))
    /\ \/ /\ ComplianceLoaded
          /\ unscreened' = (unscreened \cup {h.app : h \in handlers}) \cap DOMAIN due'
       \/ /\ TornWrites
          /\ ComplianceLost
          /\ unscreened' = DOMAIN due'

ScreeningInit ==
    /\ Init
    /\ ComplianceInit
    /\ handlers = {} /\ due = <<>> /\ unscreened = {}

ScreeningNext ==
    \/ Operating
    \/ \E u \in Users, w \in DOMAIN wallets, tier \in Requests,
          country \in Countries, named \in BOOLEAN : Submit(u, w, tier, country, named)
    \/ \E h \in handlers : ScreenApplicant(h)
    \/ \E u \in Users, country \in Countries : ScreenAnybody(u, country)
    \/ RestartBoth

ScreeningSpec == ScreeningInit /\ [][ScreeningNext]_<<vars, screeningVars>>

-----------------------------------------------------------------------------
(* Properties.                                                             *)

\* Every application on file that names its applicant is being screened, has
\* a screening on the other file that says what the compliance list says of
\* its country, or lost it to a crash between the two calls or inside a write
\* (handleKYCSubmit, over whatever other handlers and restarts there were).
ApplicationsAreScreened ==
    \A a \in DOMAIN apps :
        \/ due[a] = "none"
        \/ a \in unscreened
        \/ \E h \in handlers : h.app = a
        \/ \E n \in DOMAIN screenings :
              /\ screenings[n].user = apps[a].user
              /\ screenings[n].match <=> due[a] = "match"

\* A screening is never changed or replaced, whatever restarts there were, but
\* for a torn file (the ids of ScreenUser, numbered by a saved counter).
ScreeningsAreKept ==
    [][\/ DOMAIN screenings' = {} /\ screeningSeq' = 0
       \/ \A n \in DOMAIN screenings :
             n \in DOMAIN screenings' /\ screenings'[n] = screenings[n]]_<<vars, screeningVars>>

\* x/kyc/types/types.go:104 switches on AutoFreezeOnSanctions, one of the
\* "Auto-freeze rules": no user with a sanctions match owns a wallet that may
\* trade.  Nothing reads that setting.
MatchFreezes ==
    \A n \in DOMAIN screenings, w \in DOMAIN wallets :
        screenings[n].match /\ wallets[w].user = screenings[n].user => ~MayTrade(w)

=============================================================================
