------------------------------ MODULE MCSettings ------------------------------
(* Small values for Settings: bytes of three bits, some of the settings look  *)
(* like a head byte or a length; out of range are powers above 4, frequencies *)
(* above 6 and regions above 3.                                               *)
EXTENDS Settings

MCCommands == {SetRegion, GetRegion, SetPower, GetPower}
MCGarbage == {<<>>, <<4, 0, 1, 1, 3, 2>>}
MCConfigurations ==
    {[region |-> <<>>, powers |-> <<4>>],
     [region |-> <<3, 5, 5>>, powers |-> <<1, 2, 4, 4>>],
     [region |-> <<7, 6, 5>>, powers |-> <<3, 5, 4, 4>>],
     [region |-> <<4, 0, 7>>, powers |-> <<1, 2>>]}
==============================================================================
