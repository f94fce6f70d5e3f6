----------------------------- MODULE MCNetRegister -----------------------------
(* Two guests, g1 and g2, to check NetRegister with.                          *)
EXTENDS NetRegister, TLC

CONSTANTS g1, g2, other

OneNic(g) == [mac |-> g, fqdn |-> g, ip |-> g]
SecondNic(g) == [mac |-> "no", fqdn |-> other, ip |-> other]

(* A nic each, all different; g2 with a second nic.                           *)
NicsApart == g1 :> <<OneNic(g1)>> @@ g2 :> <<OneNic(g2)>>
NicsMore  == g1 :> <<OneNic(g1)>> @@ g2 :> <<OneNic(g2), SecondNic(g2)>>

(* No name is a part of another one.                                          *)
Exact == {<<g1, g1>>, <<g2, g2>>, <<other, other>>}

Works == {TRUE}
Fails == {FALSE}
May == BOOLEAN

================================================================================
