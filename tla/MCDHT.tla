------------------------------- MODULE MCDHT -------------------------------
(* DHT for TLC: eight ids, of which four are nodes.  Two of those share the   *)
(* first bucket with the zero id; the target lies between the two.            *)
EXTENDS DHT

N001 == <<0, 0, 1>>
N011 == <<0, 1, 1>>
N100 == <<1, 0, 0>>
N110 == <<1, 1, 0>>

Self111 == <<1, 1, 1>>
Target010 == <<0, 1, 0>>
FourNodes == {N001, N011, N100, N110}
TwoBootstraps == <<N110, N100>>
=============================================================================
