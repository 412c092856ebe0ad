------------------------------ MODULE MCZoneTree ------------------------------
EXTENDS ZoneTree

CONSTANT p1

Top == <<"x">>
Mid == <<"x", "y">>
Low == <<"x", "y", "z">>
MCNames == {Top, Mid, Low}
MCPlaces == MCNames \X {p1}

=============================================================================
