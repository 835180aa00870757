------------------------------ MODULE Compliance ------------------------------
(***************************************************************************)
(* The compliance keeper (x/kyc/keeper/keeper.go): the screenings of users *)
(* against the list of blocked jurisdictions.  The keeper has a lock and a *)
(* file of its own (kyc_state.json), which every operation writes before   *)
(* it unlocks.  Flags are left out: nothing in the running node calls      *)
(* CheckTransaction, which raises them, so that there is none to resolve.  *)
(***************************************************************************)
EXTENDS Integers, FiniteSets

CONSTANTS
    Countries,       \* country codes
    Blocked,         \* those that types.go restricts as "blocked"
    MaxScreenings    \* bound

ASSUME ComplianceAssumption == Blocked \subseteq Countries /\ MaxScreenings \in Nat

VARIABLES
    screenings,      \* k.Screenings: user and MatchFound, by number
    screeningSeq     \* k.ScreeningSeq

complianceVars == <<screenings, screeningSeq>>

ComplianceInit == screenings = <<>> /\ screeningSeq = 0

\* The two branches of ScreenUser differ in MatchFound.
ScreenUser(u, country) ==
    /\ screeningSeq < MaxScreenings
    /\ screeningSeq' = screeningSeq + 1
    /\ screenings' = [n \in DOMAIN screenings \cup {screeningSeq'} |->
          IF n = screeningSeq' THEN [user |-> u, match |-> country \in Blocked]
          ELSE screenings[n]]

\* Mutated form of LoadedSeq: the counter is not in the file.
SeqNotSaved == 0

LoadedSeq == screeningSeq

\* NewKeeper of a file that is whole.
ComplianceLoaded == screeningSeq' = LoadedSeq /\ screenings' = screenings

\* NewKeeper of a file that does not parse.
ComplianceLost == screeningSeq' = 0 /\ screenings' = <<>>

=============================================================================
