------------------------------- MODULE TimeVal -------------------------------
(***************************************************************************
 timeval.c: the arithmetic of the deadlines and of the guard time.  A timeval
 is a number of seconds and of microseconds; the sums and differences carry
 or borrow once, which is enough as long as both operands are normalised.

 The units are parameters: 100 units of 10 ms, 10 ms in each, 1000
 microseconds in a millisecond.  TLC checks the users of this module with a
 second of a few microseconds; EscSeqProofs proves what they rest on for
 every choice of the units.
 ***************************************************************************)
EXTENDS Integers

CONSTANTS
    TensPerSec,   \* units of 10 ms in a second
    MsPerTen,     \* milliseconds in such a unit
    UsecPerMs     \* microseconds in a millisecond

ASSUME TimeAssumption ==
    /\ TensPerSec \in Nat \ {0}
    /\ MsPerTen \in Nat \ {0}
    /\ UsecPerMs \in Nat \ {0}

UsecPerTen == MsPerTen * UsecPerMs
UsecPerSec == TensPerSec * UsecPerTen
MsPerSec   == TensPerSec * MsPerTen

\* What gettimeofday() returns, and what every operation here has to return.
Timeval == [sec : Int, usec : 0..(UsecPerSec - 1)]

\* What a timeval stands for.
Micros(t) == t.sec * UsecPerSec + t.usec

\* The time 0 that ttyBufRReset() writes: before anything the clock shows.
ZeroT == [sec |-> 0, usec |-> 0]

timevalSet10ms(b) ==
    [sec |-> b \div TensPerSec, usec |-> (b % TensPerSec) * UsecPerTen]

\* Mutant: a sum of exactly a second is not carried.
timevalAdd_NoCarry(a, b) ==
    IF a.usec + b.usec > UsecPerSec
    THEN [sec |-> a.sec + b.sec + 1, usec |-> a.usec + b.usec - UsecPerSec]
    ELSE [sec |-> a.sec + b.sec, usec |-> a.usec + b.usec]

timevalAdd(a, b) ==
    LET usec == a.usec + b.usec
        sec == a.sec + b.sec
    IN  IF usec >= UsecPerSec THEN [sec |-> sec + 1, usec |-> usec - UsecPerSec]
                              ELSE [sec |-> sec, usec |-> usec]

timevalSub(a, b) ==
    LET usec == a.usec - b.usec
        sec == a.sec - b.sec
    IN  IF usec < 0 THEN [sec |-> sec - 1, usec |-> usec + UsecPerSec]
                    ELSE [sec |-> sec, usec |-> usec]

timevalCmp(a, b) ==
    CASE a.sec < b.sec -> -1
      [] a.sec > b.sec -> 1
      [] a.sec = b.sec /\ a.usec < b.usec -> -1
      [] a.sec = b.sec /\ a.usec > b.usec -> 1
      [] OTHER -> 0

\* How long poll() may sleep until the deadline, in milliseconds.
timevalRemainingMs(deadline, now) ==
    LET remaining == timevalSub(deadline, now)
        ms == remaining.sec * MsPerSec + remaining.usec \div UsecPerMs
    IN  IF timevalCmp(now, deadline) >= 0 THEN 0 ELSE IF ms <= 0 THEN 1 ELSE ms
=============================================================================
