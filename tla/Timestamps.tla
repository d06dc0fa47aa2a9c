----------------------------- MODULE Timestamps -----------------------------
(* How internal/store keeps and compares instants. SQLite has no time type:   *)
(* leases and eligibility are TEXT. Go writes them as RFC3339Nano, which cuts *)
(* trailing zeros of the fraction; a renewal, by strftime, writes a fixed     *)
(* number of digits. The guards compare julianday() of the text, which is a   *)
(* whole number of milliseconds; the ORDER BYs compare the text.              *)
(*                                                                            *)
(* An instant is a number of ticks; the digits are scaled down, and all that  *)
(* is above the second, of fixed width, is one number.                        *)
EXTENDS Naturals, Sequences, FiniteSets

CONSTANTS
  Base,         \* 10
  NanoDigits,   \* 9, the digits RFC3339Nano starts from
  MilliDigits,  \* 3, the digits of strftime's %f
  Seconds       \* bound: instants are less than this many seconds apart

ASSUME TimestampsAssumption ==
  /\ Base \in Nat \ {0, 1}
  /\ MilliDigits \in Nat /\ NanoDigits \in Nat /\ MilliDigits <= NanoDigits
  /\ Seconds \in 1 .. Base * Base

(* A fact of arithmetic, for the proofs: they cannot do the induction.        *)
ASSUME PowersArePositive == \A n \in 0 .. NanoDigits : Base ^ n \in Nat \ {0}

VARIABLES
  rows,   \* two rows with a lease or an eligibility, the first with the lower id
  now,    \* the instant a statement runs at
  rounds  \* julianday() rounds a fraction to milliseconds, or cuts it: versions
          \* of SQLite differ

timestampVars == <<rows, now, rounds>>

Second == Base ^ NanoDigits
Milli == Base ^ (NanoDigits - MilliDigits)
Instants == 0 .. Seconds * Second - 1

(* Characters by their order in ASCII: '.' before the digits, then 'Z'.       *)
Dot == 0
Char(digit) == digit + 1
Zulu == Base + 1

-----------------------------------------------------------------------------
(* Writing. *)

(* The first n digits of the fraction of a second.                            *)
Fraction(at, n) ==
  [i \in 1 .. n |-> Char((at \div Base ^ (NanoDigits - i)) % Base)]

Whole(at) == <<Char(at \div (Second * Base)), Char((at \div Second) % Base)>>

(* time.RFC3339Nano: the shortest fraction that is exact, or none; it has as  *)
(* many digits as there are shorter fractions that are not.                   *)
RFC3339Nano(at) ==
  LET inexact == {n \in 0 .. NanoDigits - 1 : at % Base ^ (NanoDigits - n) # 0}
      n == Cardinality(inexact)
  IN IF n = 0 THEN Whole(at) \o <<Zulu>>
              ELSE Whole(at) \o <<Dot>> \o Fraction(at, n) \o <<Zulu>>

(* strftime('%Y-%m-%dT%H:%M:%fZ')                                             *)
Strftime(at) == Whole(at) \o <<Dot>> \o Fraction(at, MilliDigits) \o <<Zulu>>

Text(row) == IF row.writer = "go" THEN RFC3339Nano(row.at) ELSE Strftime(row.at)

-----------------------------------------------------------------------------
(* Comparing. *)

(* TEXT under the BINARY collation.                                           *)
Before(s, t) ==
  \E i \in 1 .. Len(t) :
    /\ i <= Len(s) + 1
    /\ \A j \in 1 .. i - 1 : s[j] = t[j]
    /\ i <= Len(s) => s[i] < t[i]

(* julianday() of a text; that of now has the whole milliseconds of the clock.*)
JulianDay(at) == (at + IF rounds THEN Milli \div 2 ELSE 0) \div Milli

(* Mutant of Live: the text is compared.                                      *)
LiveByText(row, at) == Before(RFC3339Nano(at), Text(row))

(* julianday(lease_expires_at) > julianday('now')                             *)
Live(row, at) == JulianDay(row.at) > at \div Milli

(* Mutant of Selected: ordered by the id alone.                               *)
SelectedById == rows[1]

(* ORDER BY next_eligible_at, id and ORDER BY lease_expires_at, id LIMIT 1.   *)
Selected == IF Before(Text(rows[2]), Text(rows[1])) THEN rows[2] ELSE rows[1]

-----------------------------------------------------------------------------
(* Any two rows and any instant: a renewal's instant is one that julianday    *)
(* has, a whole number of milliseconds; Go's clock has every instant.         *)
Rows ==
  {row \in [at : Instants, writer : {"go", "sql"}] :
     row.writer = "sql" => row.at % Milli = 0}

TimestampsInit == rows \in Rows \X Rows /\ now \in Instants /\ rounds \in BOOLEAN

TimestampsNext == UNCHANGED timestampVars

TimestampsSpec == TimestampsInit /\ [][TimestampsNext]_timestampVars

-----------------------------------------------------------------------------
(* Properties. *)

(* The fence is right to a millisecond: an attempt whose lease ended longer   *)
(* ago is refused, and one whose lease lasts longer is admitted, whichever of *)
(* the two clocks and formats wrote the lease.                                *)
FenceIsExact ==
  /\ Live(rows[1], now) => now < rows[1].at + Milli
  /\ now + Milli <= rows[1].at => Live(rows[1], now)

(* The row that Next or NextExpired selects is at most a second later than    *)
(* the other one: trimmed fractions disorder rows of one second only.         *)
OvertakenWithinASecond ==
  \A i \in {1, 2} : Selected.at < rows[i].at + Second
=============================================================================
