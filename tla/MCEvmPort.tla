----------------------------- MODULE MCEvmPort -----------------------------
EXTENDS EvmPort, TLC

CONSTANTS payer, small, full, ghost

\* The sender, two contracts, an address without an account.
Accounts == {payer, small, full, ghost}
Contracts == {small, full}
Heirs == {full, Nobody}
Money == payer :> 4 @@ small :> 1 @@ full :> 0 @@ ghost :> 0

\* One contract has fewer slots than are sent as a whole, one as many.
Storage == payer :> <<0, 0>> @@ small :> <<1, 0>> @@ full :> <<1, 1>> @@ ghost :> <<0, 0>>
Slots == [x \in Accounts |-> [k \in 0 .. 1 |-> Storage[x][k + 1]]]
=============================================================================
