----------------------------- MODULE EnergyMint -----------------------------
(***************************************************************************)
(* The energymint keeper (x/energymint/keeper): authorised minters turn    *)
(* energy certificates into tokens.  A certificate's MWh is an SDK decimal *)
(* (18 places); here it is a number of parts of which DecScale make a MWh. *)
(***************************************************************************)
EXTENDS Bank

CONSTANTS
    Certs,             \* external certificate ids
    Quantities,        \* MWh quantities requested, in parts of a MWh
    DecScale,          \* parts of a MWh
    TokensPerMwh,      \* TokensPerMwh * MicroFTGPerToken in the code
    MinCertificateMwh  \* params.MinCertificateMwh, in parts of a MWh

ASSUME EnergyMintAssumption ==
    /\ Quantities \subseteq Int /\ DecScale \in Nat \ {0}
    /\ TokensPerMwh \in Nat \ {0} /\ MinCertificateMwh \in Nat

VARIABLES
    minters,        \* addresses stored under AuthorizedMinterKey
    certificates,   \* by external id: the quantity, the tokens and the owner
    totalMinted, totalBackedMwh

mintVars == <<minters, certificates, totalMinted, totalBackedMwh>>

MintInit ==
    /\ minters = {} /\ certificates = <<>>
    /\ totalMinted = 0 /\ totalBackedMwh = 0

\* Mutated form of HasCertificate: certificates are looked up under a key
\* nothing is stored with.
NeverStored(ext) == FALSE

HasCertificate(ext) == ext \in DOMAIN certificates

\* Mutated form of TokensFor: a fraction of a uftg is rounded up.
TokensRoundedUp(mwh) == (mwh * TokensPerMwh + DecScale - 1) \div DecScale

\* MulInt64 is exact, TruncateInt drops the fraction of a uftg.
TokensFor(mwh) == (mwh * TokensPerMwh) \div DecScale

\* `documented' tells whether the certificate has an accepted provenance type
\* and an IPFS hash.
MintFromCertificate(sender, ext, mwh, documented, dest) ==
    LET tokens == TokensFor(mwh) IN
    /\ sender \in minters
    /\ documented
    /\ mwh >= MinCertificateMwh
    /\ ~HasCertificate(ext)
    /\ balance' = [balance EXCEPT ![dest] = @ + tokens]
    /\ certificates' = [e \in DOMAIN certificates \cup {ext} |->
          IF e = ext THEN [mwh |-> mwh, tokens |-> tokens, owner |-> sender]
          ELSE certificates[e]]
    /\ totalMinted' = totalMinted + tokens
    /\ totalBackedMwh' = totalBackedMwh + mwh
    /\ UNCHANGED minters

AddMinter(sender, addr) ==
    /\ sender = Authority
    /\ minters' = minters \cup {addr}
    /\ UNCHANGED <<balance, certificates, totalMinted, totalBackedMwh>>

RemoveMinter(sender, addr) ==
    /\ sender = Authority
    /\ minters' = minters \ {addr}
    /\ UNCHANGED <<balance, certificates, totalMinted, totalBackedMwh>>

=============================================================================
