------------------------------- MODULE MCCron -------------------------------
(* Two minutes, two hours, months of two and three days, two to the year.   *)
EXTENDS Cron

MCMonthLengths == <<3, 2, 3, 3, 3, 2, 3>>

Any == {<<"any">>}
One(n) == {<<"number", n>>}

MCExpressions ==
    {<<mi, ho, da, mo, dw>> :
        mi \in {Any, One(1), {<<"every", 2>>}, {<<"every", 0>>}},
        ho \in {Any, One(0), {<<"steps", 0, 1, 2>>}},
        da \in {Any, One(3), {<<"range", 2, 3>>}, {<<"range", 3, 2>>}, One(4)},
        mo \in {Any, One(2)},
        dw \in {Any, One(7), {<<"number", 0>>, <<"number", 3>>}, {<<"from", 1, 4>>}}}
=============================================================================
