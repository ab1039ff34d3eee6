--------------------------- MODULE MCUnitRegistry ---------------------------
(***************************************************************************)
(* A small instance of UnitRegistry for TLC.  One behaviour starts with    *)
(* empty tables, one with two countries and a city.                        *)
(***************************************************************************)
EXTENDS UnitRegistry, TLC

CONSTANTS r1, r2, here, there, uess, serial

SeededRows ==
    [i \in Id |->
        IF i = 1 THEN [kind |-> "country", name |-> here, code |-> here]
        ELSE IF i = 2 THEN [kind |-> "country", name |-> there, code |-> there]
        ELSE IF i = 3 THEN [kind |-> "city", name |-> here, country |-> 1, state |-> None]
        ELSE Unused]

NoProfile == [located |-> FALSE, customer |-> FALSE]
CustomerOnly == [NoProfile EXCEPT !.customer = TRUE]
FullProfile == [located |-> TRUE, customer |-> TRUE]

Regions ==
    [overlap |-> TRUE, kinds |-> {"state", "city"}, names |-> {there}, profiles |-> {}]
Sites ==
    [overlap |-> TRUE, kinds |-> {"country", "warehouse", "site"}, names |-> {here, there},
     profiles |-> {NoProfile}]
Racing ==
    [overlap |-> TRUE, kinds |-> {"site", "model", "unit"}, names |-> {here},
     profiles |-> {FullProfile}]
OneAtATime ==
    [overlap |-> FALSE, kinds |-> {"site", "model", "unit"}, names |-> {here},
     profiles |-> {NoProfile, CustomerOnly, FullProfile}]

AllModes == {Regions, Sites, Racing, OneAtATime}

Alike == Permutations({r1, r2})
=============================================================================
