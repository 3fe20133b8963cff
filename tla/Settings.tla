-------------------------------- MODULE Settings --------------------------------
(***************************************************************************)
(* The environment variables of the bot: Settings::from_env of             *)
(* crates/liquidator/src/settings.rs, the checks main makes after it, and  *)
(* the arguments made from them (router.rs).  A variable is unset, set to  *)
(* something that does not parse, or set; of the values that parse, those  *)
(* of CHAIN_ID, SELL_FEE_BPS and SELL_DEX matter.                          *)
(***************************************************************************)
EXTENDS ChainRegistry, Sequences, FiniteSetsExt

Names == {"RPC_URL", "PRIVATE_KEY", "CONTRACT_ADDRESS", "CHAIN_ID", "AAVE_POOL_DATA_PROVIDER",
          "DISCOVERY_START_BLOCK", "BORROWER_CACHE_PATH", "MIN_PROFIT", "SELL_DEX",
          "SELL_FEE_BPS", "POLL_INTERVAL_SECS"}

Environment == [given : [Names -> {"unset", "junk", "set"}],
                chain_id : Nat, sell_fee : Nat, sell_dex : STRING]

SellFee(env) == IF env.given["SELL_FEE_BPS"] = "unset" THEN 3000 ELSE env.sell_fee
SellDex(env) == IF env.given["SELL_DEX"] = "unset" THEN "uniswap" ELSE env.sell_dex
Spec_of(env) == for_chain_id(env.chain_id)

\* require_env, and parse() of a variable that is required or may be left out.
Present(env, v) == env.given[v] # "unset"
Parses(env, v) == env.given[v] = "set"
ParsesIfSet(env, v) == env.given[v] # "junk"

\* The checks of from_env in the order they are made, each with what its message
\* names.
FromEnv(env) ==
  << <<"RPC_URL", Present(env, "RPC_URL")>>,
     <<"PRIVATE_KEY", Present(env, "PRIVATE_KEY")>>,
     <<"CONTRACT_ADDRESS", Parses(env, "CONTRACT_ADDRESS")>>,
     <<"CHAIN_ID", Parses(env, "CHAIN_ID")>>,
     <<"AAVE_POOL_DATA_PROVIDER", Parses(env, "AAVE_POOL_DATA_PROVIDER")>>,
     <<"DISCOVERY_START_BLOCK", ParsesIfSet(env, "DISCOVERY_START_BLOCK")>>,
     <<"MIN_PROFIT", ParsesIfSet(env, "MIN_PROFIT")>>,
     <<"SELL_FEE_BPS", ParsesIfSet(env, "SELL_FEE_BPS")>>,
     <<"POLL_INTERVAL_SECS", ParsesIfSet(env, "POLL_INTERVAL_SECS")>> >>

\* The checks main makes after it, up to the first request.  Two of the messages
\* name the chain and no variable: "unsupported chain id", "Aave is not deployed on".
InMain(env) ==
  << <<"chain", env.chain_id \in Supported>>,
     <<"chain", env.chain_id \in Supported => lending_protocol_available(Spec_of(env))>>,
     <<"PRIVATE_KEY", ParsesIfSet(env, "PRIVATE_KEY")>>,
     <<"RPC_URL", ParsesIfSet(env, "RPC_URL")>> >>

Checks(env) == [k \in 1 .. 13 |-> IF k <= 9 THEN FromEnv(env)[k] ELSE InMain(env)[k - 9]]

Failed(checks) == {k \in DOMAIN checks : ~ checks[k][2]}

\* Seeded bug: the message of one check is copied from the next.
ComplaintCopied(env) ==
  LET checks == Checks(env)
      v == IF Failed(checks) = {} THEN "none" ELSE checks[Min(Failed(checks))][1]
  IN  IF v = "MIN_PROFIT" THEN "SELL_FEE_BPS" ELSE v

\* main returns the first error: what its message names.
Complaint(env) ==
  LET checks == Checks(env)
  IN  IF Failed(checks) = {} THEN "none" ELSE checks[Min(Failed(checks))][1]

\* The variable behind a message: the one it names, or the one that chose the chain.
VariableOf(message) == IF message = "chain" THEN "CHAIN_ID" ELSE message

\* Uint::<24, 1>::from panics on a number of more bits.
FeeEncodes(env) == SellFee(env) < 2 ^ 24

\* What the contract deployed on the chain can do for the bot; how it is set up
\* on a chain the script does not know is not known here.
HasPool(env) == env.chain_id \in Deployable => Routers(env.chain_id).aave
HasRouter(env) == env.chain_id \in Deployable => SellDex(env) \in Routers(env.chain_id).dexes
=============================================================================
