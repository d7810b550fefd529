--------------------------------- MODULE MCBus --------------------------------
(* An instance of BusTransaction for TLC: payloads that need stuffing, one too   *)
(* long for the receive buffer, early bits.                                      *)
EXTENDS BusTransaction

SomePayloads == {<<>>, <<255>>, <<1, 128>>}
SomeAddresses == {<<85, 15>>}
SomeEarlyBits == {<<>>, <<1>>, <<1, 1>>}
=============================================================================
