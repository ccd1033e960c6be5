---------------------------- MODULE MCCoordinator ----------------------------
(***************************************************************************)
(* Five blocks on four inputs: block 1 on input 1, block 2 with the        *)
(* coordinator, blocks 3 and 4 on input 2, block 5 on input 3.  Blocks 3   *)
(* and 4 have a window each; three statements, two of them true.            *)
(***************************************************************************)
EXTENDS Coordinator

MCFrames == [i \in 0..3 |-> <<<<2>>, <<1>>, <<3, 4>>, <<5>>>>[i + 1]]
MCCarrier == <<2, 3>>
MCRoom == [w \in {2, 3} |-> 1]
MCProgram == <<<<"op", 1>>, <<"op", 2>>, <<"op", 3>>>>

Digits(d, e) == [b \in {3, 4} |-> IF b = 3 THEN d ELSE e]
True1 == Digits(<<0, 1>>, <<0, 0>>)
True2 == Digits(<<0, 0>>, <<1, 1>>)
Untrue == Digits(<<1, 0>>, <<1, 0>>)
MCStatement == {True1, True2, Untrue}

One == <<<<"byte", 1>>>>
Two == <<<<"byte", 2>>>>
MCPayload ==
    <<{One}, {One}, {Two, One \o One, Two \o One}, {Two, Two \o One}, {One}>>
Wit(three, four) == <<One, One, three, four, One>>
MCQuotient == {One, Two}
MCOpened == {<<True1, Wit(Two \o One, Two)>>, <<True2, Wit(Two, Two \o One)>>,
             <<Untrue, Wit(One \o One, Two \o One)>>}
MCRelation == {<<True1, Wit(Two \o One, Two), One>>, <<True2, Wit(Two, Two \o One), Two>>}

\* Scripts of the right length with other code.
Other(w) == [j \in DOMAIN Redeem(w) |-> IF j = 1 THEN <<"drop">> ELSE <<"op", 9>>]
MCForeign == {Other(1), Other(2)}
Genuine == [w \in 1..3 |-> P2sh(Redeem(w))]
MCCoins ==
    {Genuine,
     [Genuine EXCEPT ![1] = P2sh(Other(1))],
     [Genuine EXCEPT ![1] = Genuine[2], ![2] = Genuine[1]],
     [Genuine EXCEPT ![1] = <<Genuine[1][1]>>, ![2] = <<Genuine[1][2]>> \o Genuine[2]]}
===============================================================================
