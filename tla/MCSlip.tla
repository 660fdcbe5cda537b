-------------------------------- MODULE MCSlip --------------------------------
(* Slip with a buffer of four bytes: packets of two to four bytes (the last is
   too long), a request for the prefix, half of one, a comment with the other
   half and an empty frame. *)
EXTENDS Slip

Frames  == {<<>>, <<"bang", "S">>, <<"bang">>, <<"x", "S">>, <<"tick", "END">>,
            <<"tick", "ESC", "x">>, <<"tick", "x", "x", "S">>}
Unescaped == {f \in Frames : "ESC" \notin {f[i] : i \in DOMAIN f}}
Both    == [mote |-> Frames, gateway |-> Unescaped]
Packets == [gateway |-> {<<"tick", "x">>, <<"tick", "END">>, <<"tick", "ESC", "x">>}]
=============================================================================
