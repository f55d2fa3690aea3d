----------------------------- MODULE MCTableRun -----------------------------
(* Two arms, the two-arm plate, a cup for the right arm and a fork in the    *)
(* left arm's drawer; the right arm reaches the fork, the left not the cup.  *)
EXTENDS TableRun
CONSTANTS left, right, plate, cup, fork, drawer

MCArms == {left, right}
MCObjects == {plate, cup, fork}
MCBimanual == {plate}
MCDrawers == {drawer}
MCDrawerOf == (plate :> None) @@ (cup :> None) @@ (fork :> drawer)
MCDrawerArm == drawer :> left
MCOrder == <<plate, cup, fork>>
MCDefaultArm == (plate :> left) @@ (cup :> right) @@ (fork :> left)
MCReach == {<<right, fork>>}
MCMayFail == {left}
=============================================================================
