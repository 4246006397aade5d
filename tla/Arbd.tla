-------------------------------- MODULE Arbd --------------------------------
(***************************************************************************)
(* cmd/arbd/main.go from main to the exit of the process: run reads the    *)
(* environment, loads and validates the configuration file                 *)
(* (internal/config), builds the clients, starts the pipeline, and on its  *)
(* return runs what it has deferred.                                       *)
(*                                                                         *)
(* Which of several defects is reported first, and in which words, is left *)
(* out; the embedded ABI of the quoter parses.                             *)
(***************************************************************************)
EXTENDS Pipeline

CONSTANTS
  Envs,   \* environments after godotenv: variable -> "unset", "bad" or "good"
  Files   \* contents of the configuration file: see Durations and Valid

VARIABLES
  env, file,
  rpc         \* the Uniswap adapter's RPC client: "none", "open" or "closed"

bootVars == <<env, file, rpc>>
arbdVars == <<vars, bootVars>>

-----------------------------------------------------------------------------
(* What run asks of its inputs. *)

Required == {"ETH_RPC_URL", "ETH_RPC_WS_URL", "BINANCE_BASE_URL",
             "UNISWAP_POOL_FEE", "UNISWAP_QUOTER_ADDRESS"}
Parsed == {"UNISWAP_POOL_FEE", "UNISWAP_QUOTER_ADDRESS", "LOG_LEVEL", "PRETTY_ALERTS"}

\* loadEnv: a missing .env is fine, a malformed one is not.
Sound(e) ==
  /\ e[".env"] # "bad"
  /\ \A v \in Required : e[v] # "unset"
  /\ \A v \in Parsed : e[v] # "bad"

Checked == {"call_timeout", "reconnect_initial", "reconnect_max"}
Durations == Checked \cup {"request_timeout", "cooldown", "interval",
                           "initial_wait", "max_wait"}

\* Config.validate.
Valid(f) ==
  /\ f.sizes # <<>> /\ \A i \in DOMAIN f.sizes : f.sizes[i] > 0
  /\ \A v \in Venues : f.rps[v] > 0
  /\ \A d \in Checked : f.durations[d] > 0

\* config.Load.
Loads(f) == f.readable /\ f.parses /\ Valid(f)

-----------------------------------------------------------------------------
ArbdInit ==
  /\ StagesInit
  /\ mPc = "env" /\ exitError = FALSE
  /\ env \in Envs /\ file \in Files
  /\ rpc = "none"

\* run goes on to a place, or returns an error from where it is.
Go(ok, to, return) ==
  /\ mPc' = IF ok THEN to ELSE return
  /\ exitError' = ~ok

LoadEnv ==
  /\ mPc = "env"
  /\ Go(Sound(env), "config", "gone")
  /\ UNCHANGED <<sVars, dVars, pVars, cancelled, bootVars>>

LoadConfig ==
  /\ mPc = "config"
  /\ Go(Loads(file), "build", "gone")
  /\ UNCHANGED <<sVars, dVars, pVars, cancelled, bootVars>>

\* Nobody listens for signals yet: the runtime ends the process.
Killed ==
  /\ mPc \in {"env", "config"}
  /\ mPc' = "gone"
  /\ UNCHANGED <<sVars, dVars, pVars, exitError, cancelled, bootVars>>

\* The clients are built, the three goroutines started.  Only the RPC client
\* may fail, on its URL: it connects when it is used.
BuildClients ==
  /\ mPc = "build"
  /\ Go(env["ETH_RPC_URL"] = "good", "consume", "exit")
  /\ rpc' = IF env["ETH_RPC_URL"] = "good" THEN "open" ELSE rpc
  /\ UNCHANGED <<sVars, dVars, pVars, cancelled, env, file>>

SignalWhileBuilding == mPc = "build" /\ Signal /\ UNCHANGED bootVars

Run == Next /\ UNCHANGED bootVars

\* run's deferred calls, uniswapClose and cancel, and main's os.Exit.
Return ==
  /\ mPc = "exit"
  /\ mPc' = "gone" /\ cancelled' = TRUE
  /\ rpc' = IF rpc = "open" THEN "closed" ELSE rpc
  /\ UNCHANGED <<sVars, dVars, pVars, exitError, env, file>>

ArbdNext ==
  \/ LoadEnv \/ LoadConfig \/ Killed \/ BuildClients \/ SignalWhileBuilding
  \/ Run \/ Return

ArbdSpec == ArbdInit /\ [][ArbdNext]_arbdVars

ArbdFairSpec ==
  /\ ArbdSpec
  /\ WF_arbdVars(LoadEnv \/ LoadConfig \/ BuildClients \/ Return)
  /\ Fairness

-----------------------------------------------------------------------------
(* Properties. *)

\* The types of the stages, in the program that composes them, and its own.
TypeOK ==
  /\ S!TypeOK /\ D!TypeOK /\ P!TypeOK
  /\ mPc \in {"env", "config", "build", "consume", "awaitSub", "awaitDisp",
              "awaitPf", "exit", "gone"}
  /\ exitError \in BOOLEAN /\ env \in Envs /\ file \in Files
  /\ rpc \in {"none", "open", "closed"}
  /\ Alive => Sound(env) /\ Loads(file) /\ rpc = "open"

\* However the process ends -- refused at any step of the start-up, signalled
\* at any time, given up by the Subscriber -- it leaves no client and no
\* connection open, and the RPC client is not closed under a Snapshot that
\* uses it, but for one case: when the Subscriber has given up on a dial that
\* timed out and the signal has come too, in either order, awaitShutdown
\* returns the Subscriber's error without waiting for the Dispatcher.
LeavesNothing ==
  [][mPc # "gone" /\ mPc' = "gone" =>
       /\ rpc' # "open" /\ live' = 0
       /\ calls # {} => cancelled /\ sResult = "deadline"]_arbdVars

\* The start-up comes to an end, in the pipeline or outside; the process ends
\* after the signal, and after a Subscriber that gives up, wherever each
\* goroutine is then.
Ends ==
  /\ mPc = "env" ~> mPc \in {"consume", "gone"}
  /\ cancelled \/ sPc = "done" ~> mPc = "gone"

\* config.Load's comment: validation rejects non-positive durations.
NonPositiveRejected == Alive => \A d \in Durations : file.durations[d] > 0
=============================================================================
