----------------------------- MODULE MCReadings -----------------------------
(* Readings for TLC: both sides of every limit, and of every length of a *)
(* numeral.                                                              *)
EXTENDS Readings

Samples ==
  [current |-> {-1500, -1000, -999, 0, 999, 1000, 49999, 50000, 700999, 701000, 849999,
                850000, 2000000},
   voltage |-> {0, 9999, 10000, 99999, 100000, 999999, 1000000, 3499999, 3500000, 5509999,
                5510000, 5609999, 5610000, 12000000},
   health  |-> {"Good", "Ok", "Overheat"},
   temp    |-> {-123, -10, -9, -1, 0, 9, 10, 399, 400, 480, 500, 501},
   level   |-> {0, 8, 9, 23, 24, 73, 74, 98, 99, 100}]
=============================================================================
