----------------------------- MODULE AtomicVault -----------------------------
(***************************************************************************)
(* What the AlphaRouting contract promises its owner: it holds assets, and *)
(* a liquidation is an order that is either filled in one step, with at    *)
(* least the profit that was asked for and no other holding touched, or    *)
(* leaves every balance as it was.  Nothing else happens while an order is *)
(* open.  AlphaRouting is shown to implement this specification.           *)
(***************************************************************************)
EXTENDS Naturals

CONSTANTS Assets,      \* what the vault may hold
          NoOrder      \* value of order when none is open

VARIABLES holdings,    \* holdings[a]: settled balance of asset a
          order        \* the open order, or NoOrder

vars == <<holdings, order>>

Order == [asset : Assets, minProfit : Nat]

Init == holdings \in [Assets -> Nat] /\ order = NoOrder

Place == /\ order = NoOrder
         /\ order' \in Order
         /\ UNCHANGED holdings

Fill ==
  /\ order # NoOrder
  /\ holdings' \in [Assets -> Nat]
  /\ holdings'[order.asset] >= holdings[order.asset] + order.minProfit
  /\ \A a \in Assets \ {order.asset} : holdings'[a] >= holdings[a]
  /\ order' = NoOrder

Cancel == order # NoOrder /\ order' = NoOrder /\ UNCHANGED holdings

\* The owner takes assets out, or somebody sends some: between orders only.
Move(a) ==
  /\ order = NoOrder
  /\ holdings' \in [Assets -> Nat]
  /\ \A other \in Assets \ {a} : holdings'[other] = holdings[other]
  /\ UNCHANGED order

Next == Place \/ Fill \/ Cancel \/ \E a \in Assets : Move(a)

Spec == Init /\ [][Next]_vars
=============================================================================
