---------------------------- MODULE MCRebalance ----------------------------
(***************************************************************************)
(* Two tokens, targets of up to two shares in eighths, prices in tenths of *)
(* a dollar.  The cap is below what two targets cost, so that the scale is *)
(* at work; books are fair, dear (over the price limit of a leader who     *)
(* paid 5), cheap, or without asks for more than three quarters of a share.*)
(***************************************************************************)
EXTENDS Rebalance

MCAssets == <<"cold", "warm">>

Level(price, size) == [price |-> price, size |-> size]
Position(size, avgPrice) == [size |-> size, avgPrice |-> avgPrice]

MCLeaderPositions == { Nothing, Position(1, 5), Position(2, 5) }

Fair  == [asks |-> <<Level(5, 10), Level(6, 40)>>, bids |-> <<Level(4, 40)>>]
Dear  == [asks |-> <<Level(8, 40)>>, bids |-> <<Level(7, 40)>>]
Cheap == [asks |-> <<Level(3, 40)>>, bids |-> <<Level(2, 6), Level(1, 40)>>]
Thin  == [asks |-> <<Level(6, 6)>>, bids |-> <<Level(5, 40)>>]

MCBooks == { Fair, Dear, Cheap, Thin }
MCOwnOrders == { 8, -4 }
MCCap   == 6000
MCMaxLoss == 5000
=============================================================================
