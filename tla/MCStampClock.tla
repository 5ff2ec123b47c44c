----------------------------- MODULE MCStampClock -----------------------------
\* The code's unit, TTL and skew with a stamp of 6 bits instead of 16, so that
\* the clock can run through two wraps second by second. Requests are made at
\* every offset inside a stamp unit and just before a wrap; the host clock
\* stays within, at and beyond the tolerated skew.
EXTENDS StampClock

MCBirths == (100 .. 103) \union (252 .. 257)
MCSteps  == {1, 4, 117}
MCDrifts == {-64, -61, -60, -59, -1, 0, 1, 3, 64}

=============================================================================
