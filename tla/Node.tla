-------------------------------- MODULE Node --------------------------------
(***************************************************************************)
(* The running node: the block ticker of cmd/ftgd/start_real.go, the mint  *)
(* and burn handlers of cmd/ftgd/rpc_server.go, each in a goroutine of its *)
(* own, and the token ledger they call (module ChainState).  A handler     *)
(* reads the height under the node's read lock, releases it, and hands the *)
(* height to the ledger later, under the ledger's own lock: blocks may be  *)
(* produced and other requests served in between.  The height is on disk   *)
(* only every SaveEvery blocks and after a graceful stop; the ledger is    *)
(* saved by each of its operations.  A block whose height is to be saved   *)
(* counts before it is on disk: the process may die in between, while the  *)
(* ticker still holds the node's lock.  A write that returns an error (a   *)
(* full disk), which the code drops, is not modelled.                      *)
(*                                                                         *)
(* A graceful stop is three steps: the signal cancels the context, Start   *)
(* reads the state and then writes it, without the node's lock.  Nothing   *)
(* waits for the ticker goroutine or for the HTTP server, which go on      *)
(* until the process exits.  Ticks are seconds apart and the stop takes    *)
(* none, so that one block at most is still produced: the tick that was    *)
(* pending, or being handled, when the context was cancelled.              *)
(***************************************************************************)
EXTENDS ChainState

CONSTANTS
    MWhs, BurnAmounts, TransferAmounts,  \* amounts requested
    SaveEvery,     \* 100 in the code
    TornWrites,    \* may the process die inside os.WriteFile?
    MaxHeight, MaxBurns, MaxInFlight     \* bounds

ASSUME NodeAssumption ==
    /\ MWhs \subseteq Nat \ {0}
    /\ BurnAmounts \subseteq Int64 /\ TransferAmounts \subseteq Int64
    /\ SaveEvery \in Nat \ {0}
    /\ TornWrites \in BOOLEAN
    /\ MaxHeight \in Nat /\ MaxBurns \in Nat /\ MaxInFlight \in Nat

VARIABLES
    height,      \* n.State.Height
    saving,      \* is produceBlock, with the node's lock, yet to save it?
    diskHeight,  \* the height in state.json
    requests,    \* handlers that have read the height and not yet called
    running,     \* is the process up?
    shutdown,    \* how far a graceful stop has got
    final,       \* the height the final saveState has read, 0 before
    late         \* has a block been produced since the signal?

stopVars == <<shutdown, final, late>>
nodeVars == <<height, saving, diskHeight, requests, running, stopVars>>
vars == <<chainVars, nodeVars>>

MintRequest == [kind : {"mint"}, ext : Certs, mwh : MWhs, height : Nat]
BurnRequest == [kind : {"burn"}, amount : BurnAmounts, height : Nat]

-----------------------------------------------------------------------------

\* Mutated form of SaveDue: no block saves the height.
NeverDue(h) == FALSE

SaveDue(h) == h % SaveEvery = 0

\* produceBlock up to its last test: the block counts, in memory.
CommitBlock ==
    /\ running
    /\ ~saving
    /\ height < MaxHeight
    /\ ~late
    /\ late' = (shutdown # "none")
    /\ height' = height + 1
    /\ saving' = SaveDue(height + 1)
    /\ UNCHANGED <<chainVars, diskHeight, requests, running, shutdown, final>>

\* The rest of produceBlock for a block that is saved.
SaveBlock ==
    /\ running
    /\ saving
    /\ saving' = FALSE
    /\ diskHeight' = height
    /\ UNCHANGED <<chainVars, height, requests, running, stopVars>>

\* handleMint and handleBurn up to the release of the node's read lock, which
\* waits for produceBlock.  handleMint refuses an MWh amount that is not
\* positive; handleBurn passes any amount on.
Receive(r) ==
    /\ running
    /\ ~saving
    /\ Cardinality(requests) < MaxInFlight
    /\ r.height = height
    /\ requests' = requests \cup {r}
    /\ UNCHANGED <<chainVars, height, saving, diskHeight, running, stopVars>>

\* The rest of handleMint; a refused certificate is an error response.
ServeMint(r) ==
    /\ running /\ r.kind = "mint"
    /\ requests' = requests \ {r}
    /\ IF Registered(r.ext)
       THEN UNCHANGED chainVars
       ELSE MintFromCertificate(r.ext, r.mwh, r.height)
    /\ UNCHANGED <<height, saving, diskHeight, running, stopVars>>

\* The rest of handleBurn.
ServeBurn(r) ==
    /\ running /\ r.kind = "burn"
    /\ requests' = requests \ {r}
    /\ IF r.amount > totalSupply
       THEN UNCHANGED chainVars
       ELSE Len(burns) < MaxBurns /\ BurnTokens(r.amount, r.height)
    /\ UNCHANGED <<height, saving, diskHeight, running, stopVars>>

Transfer(amount, dest) ==
    /\ running
    /\ TransferFromMinting(amount, dest)
    /\ UNCHANGED nodeVars

\* SIGINT or SIGTERM: the context is cancelled.
Signal ==
    /\ running
    /\ shutdown = "none"
    /\ shutdown' = "asked"
    /\ UNCHANGED <<chainVars, height, saving, diskHeight, requests, running, final,
                   late>>

\* The final saveState reads the height, without the lock.
BeginFinalSave ==
    /\ running
    /\ shutdown = "asked"
    /\ shutdown' = "saving"
    /\ final' = height
    /\ UNCHANGED <<chainVars, height, saving, diskHeight, requests, running, late>>

\* It writes what it read, and the process exits; requests in flight die with
\* it.  (If the ticker goroutine writes the file at the same time, the two may
\* leave one that does not parse: for the file that is a crash.)
EndFinalSave ==
    /\ shutdown = "saving"
    /\ running' = FALSE
    /\ diskHeight' = final
    /\ requests' = {} /\ saving' = FALSE
    /\ shutdown' = "none" /\ final' = 0 /\ late' = FALSE
    /\ UNCHANGED <<chainVars, height>>

\* Is state.json being written, by the ticker or by the final save?
Writing == saving \/ shutdown = "saving"

\* A crash between two steps, or inside os.WriteFile of either file, which then
\* does not parse and is ignored by the next start: no ledger, or height zero.
Crash ==
    /\ running
    /\ running' = FALSE
    /\ requests' = {} /\ saving' = FALSE
    /\ shutdown' = "none" /\ final' = 0 /\ late' = FALSE
    /\ \/ UNCHANGED <<chainVars, diskHeight>>
       \/ TornWrites /\ ChainLost /\ diskHeight' = diskHeight
       \/ /\ TornWrites /\ Writing
          /\ diskHeight' = 0 /\ UNCHANGED chainVars
    /\ UNCHANGED height

\* Mutated form of Loaded: the node starts without reading state.json.
NotLoaded == 0

Loaded == diskHeight

\* systemd starts the process again (NewFTGNode, NewChainState).
Restart ==
    /\ ~running
    /\ running' = TRUE
    /\ height' = Loaded
    /\ UNCHANGED <<chainVars, saving, diskHeight, requests, stopVars>>

-----------------------------------------------------------------------------

Init ==
    /\ ChainInit
    /\ height = 0 /\ saving = FALSE /\ diskHeight = 0
    /\ requests = {}
    /\ running = TRUE
    /\ shutdown = "none" /\ final = 0 /\ late = FALSE

Next ==
    \/ CommitBlock
    \/ SaveBlock
    \/ \E ext \in Certs, mwh \in MWhs :
          Receive([kind |-> "mint", ext |-> ext, mwh |-> mwh, height |-> height])
    \/ \E amount \in BurnAmounts :
          Receive([kind |-> "burn", amount |-> amount, height |-> height])
    \/ \E r \in requests : ServeMint(r) \/ ServeBurn(r)
    \/ \E amount \in TransferAmounts, dest \in Accounts : Transfer(amount, dest)
    \/ Signal \/ BeginFinalSave \/ EndFinalSave
    \/ Crash
    \/ Restart

Spec == Init /\ [][Next]_vars

-----------------------------------------------------------------------------
(* Properties.                                                             *)

\* Every variable has its type.
TypeOK ==
    /\ ChainTypeOK
    /\ height \in Nat /\ saving \in BOOLEAN /\ diskHeight \in Nat
    /\ requests \subseteq MintRequest \cup BurnRequest
    /\ running \in BOOLEAN
    /\ shutdown \in {"none", "asked", "saving"}
    /\ final \in Nat /\ late \in BOOLEAN

\* A crash takes back fewer blocks than separate two saves of state.json, or as
\* many when it comes between a block and its save; and no handler holds a
\* height the running chain has not reached: it only ever lags (produceBlock,
\* saveState, and the heights handleMint and handleBurn read before they call
\* the ledger).
HeightsNearDisk ==
    running =>
        /\ diskHeight <= height
        /\ \/ height < diskHeight + SaveEvery
           \/ saving /\ height = diskHeight + SaveEvery
        /\ \A r \in requests : r.height <= height

\* The height that a restart resumes from never goes back, whatever mixture of
\* crashes and graceful stops there was, unless a crash tears state.json while
\* it is written, or the final save of a graceful stop overwrites the one of
\* the last block with the height before it: then by that block (saveState in
\* Start and in produceBlock, which do not exclude each other).
DiskHeightGrows ==
    [][\/ diskHeight' >= diskHeight
       \/ Writing /\ diskHeight' = 0
       \/ shutdown = "saving" /\ late /\ diskHeight' = diskHeight - 1]_vars

-----------------------------------------------------------------------------
(* Refinement.                                                             *)

Token == INSTANCE TokenSupply WITH
    Width <- 2 * Half, Burnable <- BurnAmounts,
    backed <- {certificates[i].ext : i \in DOMAIN certificates},
    minted <- totalMinted, burned <- totalBurned, supply <- totalSupply

\* The ledger behind the RPC server is a token supply, modulo the width of its
\* counters: concurrent, repeated and refused requests, transfers, blocks,
\* stops and crashes show as one mint per certificate, as burns, or not at all.
\* A burn may be of a negative amount, which handleBurn and BurnTokens do not
\* refuse: it adds to the supply with no certificate behind it, and is taken
\* off the burned total.
ImplementsSupply == Token!Spec

=============================================================================
