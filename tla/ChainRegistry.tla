----------------------------- MODULE ChainRegistry -----------------------------
(***************************************************************************)
(* The two tables of chains: the registry the bot reads                    *)
(* (crates/config/src/chain_spec.rs) and the routers the contract is       *)
(* deployed with (script/Deploy.s.sol).  Of an address it matters whether  *)
(* there is one.                                                           *)
(***************************************************************************)
EXTENDS Naturals

ChainSpec(id, status, pool, vault) ==
  [chain_id |-> id, status |-> status, aave_pool |-> pool, balancer_vault |-> vault]

BASE_MAINNET == ChainSpec(8453, "Live", TRUE, TRUE)
ETHEREUM_MAINNET == ChainSpec(1, "Live", TRUE, TRUE)
ARBITRUM_ONE == ChainSpec(42161, "Live", TRUE, TRUE)
OPTIMISM == ChainSpec(10, "Live", TRUE, TRUE)
POLYGON == ChainSpec(137, "Live", TRUE, TRUE)
BNB_CHAIN == ChainSpec(56, "Preview", TRUE, FALSE)
MONAD == ChainSpec(41454, "Live", FALSE, FALSE)

all_chains == {BASE_MAINNET, ETHEREUM_MAINNET, ARBITRUM_ONE, OPTIMISM, POLYGON, BNB_CHAIN, MONAD}
Supported == {8453, 1, 42161, 10, 137, 56, 41454}

\* Defined for the ids in Supported; None for the others.
for_chain_id(id) ==
  CASE id = 8453 -> BASE_MAINNET
    [] id = 1 -> ETHEREUM_MAINNET
    [] id = 42161 -> ARBITRUM_ONE
    [] id = 10 -> OPTIMISM
    [] id = 137 -> POLYGON
    [] id = 56 -> BNB_CHAIN
    [] id = 41454 -> MONAD

\* Seeded bug: the pool is taken for granted.
PoolAssumed(spec) == TRUE

lending_protocol_available(spec) == spec.aave_pool
balancer_available(spec) == spec.balancer_vault

-----------------------------------------------------------------------------
(* Deploy.run: other chains revert *)

Deployable == {8453, 84532, 41454}

\* Does the contract on this chain have a pool and a vault, and which DEX names
\* have a router?
Routers(id) ==
  CASE id = 8453 -> [aave |-> TRUE, balancer |-> TRUE,
                     dexes |-> {"uniswap", "sushiswap", "baseswap", "pancakeswap", "aerodrome"}]
    [] id = 84532 -> [aave |-> TRUE, balancer |-> FALSE, dexes |-> {"uniswap"}]
    [] id = 41454 -> [aave |-> FALSE, balancer |-> FALSE, dexes |-> {}]
=============================================================================
