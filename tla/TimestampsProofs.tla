--------------------------- MODULE TimestampsProofs ---------------------------
(* What the stored texts promise, for every base, width of the fraction and   *)
(* range of instants.                                                         *)
EXTENDS Timestamps, FiniteSetTheorems, TLAPS

-----------------------------------------------------------------------------
(* Division. *)

LEMMA Quotient ==
  ASSUME NEW a \in Nat, NEW m \in Nat \ {0}
  PROVE  /\ a \div m \in Nat
         /\ m * (a \div m) <= a /\ a < m * (a \div m) + m
BY SMTT(30)

LEMMA Multiples ==
  ASSUME NEW m \in Nat \ {0}, NEW q \in Nat, NEW r \in Nat, q < r
  PROVE  m * q + m <= m * r
<1>1. PICK d \in Nat : r = q + 1 + d
  <2>1. r - q - 1 \in Nat /\ r = q + 1 + (r - q - 1)
    OBVIOUS
  <2> QED BY <2>1
<1>2. m * r = m * q + m + m * d /\ m * d \in Nat /\ m * q \in Nat
  BY <1>1, SMTT(30)
<1> QED BY <1>2

LEMMA Half ==
  ASSUME NEW m \in Nat \ {0}
  PROVE  m \div 2 \in Nat /\ m \div 2 < m
OBVIOUS

(* Two readings in whole units of m, the first of them shifted by less than   *)
(* one unit, are in the order of their instants but for one unit.             *)
LEMMA FenceArithmetic ==
  ASSUME NEW m \in Nat \ {0}, NEW c \in Nat, c < m, NEW lease \in Nat, NEW at \in Nat
  PROVE  /\ (lease + c) \div m > at \div m => at < lease + m
         /\ at + m <= lease => (lease + c) \div m > at \div m
<1>1. PICK q, r : q = (lease + c) \div m /\ r = at \div m
  OBVIOUS
<1>2. /\ q \in Nat /\ m * q <= lease + c /\ lease + c < m * q + m
      /\ r \in Nat /\ m * r <= at /\ at < m * r + m
  <2>1. lease + c \in Nat
    OBVIOUS
  <2> QED BY <1>1, <2>1, Quotient
<1>3. m * q \in Nat /\ m * r \in Nat
  BY <1>2
<1>4. ASSUME q > r PROVE at < lease + m
  <2>1. m * r + m <= m * q
    BY <1>2, <1>4, Multiples
  <2> QED BY <1>2, <1>3, <2>1
<1>5. ASSUME at + m <= lease PROVE q > r
  <2>1. CASE q < r
    <3>1. m * q + m <= m * r
      BY <1>2, <2>1, Multiples
    <3> QED BY <1>2, <1>3, <1>5, <3>1
  <2>2. CASE q = r
    BY <1>2, <1>3, <1>5, <2>2
  <2> QED BY <1>2, <2>1, <2>2
<1> QED BY <1>1, <1>4, <1>5

-----------------------------------------------------------------------------
(* The fence. *)

LEMMA Units ==
  /\ Base \in Nat \ {0} /\ Second \in Nat \ {0} /\ Milli \in Nat \ {0}
  /\ Instants \subseteq Nat
<1>1. /\ Base \in Nat \ {0} /\ NanoDigits \in 0 .. NanoDigits
      /\ NanoDigits - MilliDigits \in 0 .. NanoDigits /\ Seconds \in Nat
  BY TimestampsAssumption
<1>2. Second \in Nat \ {0} /\ Milli \in Nat \ {0}
  BY <1>1, PowersArePositive DEF Second, Milli
<1>3. Seconds * Second \in Nat
  BY <1>1, <1>2, SMTT(30)
<1> QED BY <1>1, <1>2, <1>3 DEF Instants

(* Inductive invariant: nothing changes, what the rows hold are instants.     *)
RowsOK ==
  /\ \A i \in {1, 2} : rows[i].at \in Nat /\ rows[i].writer \in {"go", "sql"}
  /\ now \in Nat /\ rounds \in BOOLEAN

LEMMA RowsInvariant == TimestampsSpec => []RowsOK
<1>1. TimestampsInit => RowsOK
  <2> SUFFICES ASSUME TimestampsInit PROVE RowsOK
    OBVIOUS
  <2>1. rows[1] \in Rows /\ rows[2] \in Rows
    BY DEF TimestampsInit
  <2>2. \A row \in Rows : row.at \in Instants /\ row.writer \in {"go", "sql"}
    BY DEF Rows
  <2> QED BY <2>1, <2>2, Units DEF RowsOK, TimestampsInit
<1>2. RowsOK /\ [TimestampsNext]_timestampVars => RowsOK'
  BY DEF RowsOK, TimestampsNext, timestampVars
<1> QED BY <1>1, <1>2, PTL DEF TimestampsSpec

(* A lease is judged right to a millisecond, whichever of Go's clock and      *)
(* SQLite's wrote it and whether or not julianday() rounds.                   *)
THEOREM FenceIsExactHolds == TimestampsSpec => []FenceIsExact
<1>1. ASSUME RowsOK PROVE FenceIsExact
  <2>1. PICK m, c : m = Milli /\ c = IF rounds THEN Milli \div 2 ELSE 0
    OBVIOUS
  <2>2. m \in Nat \ {0} /\ c \in Nat /\ c < m
    BY <2>1, Units, Half
  <2>3. PICK lease, at : lease = rows[1].at /\ at = now
    OBVIOUS
  <2>4. lease \in Nat /\ at \in Nat
    BY <1>1, <2>3 DEF RowsOK
  <2>5. Live(rows[1], now) <=> (lease + c) \div m > at \div m
    BY <2>1, <2>3 DEF Live, JulianDay
  <2> QED BY <2>1, <2>2, <2>3, <2>4, <2>5, FenceArithmetic DEF FenceIsExact
<1> QED BY <1>1, RowsInvariant, PTL

-----------------------------------------------------------------------------
(* Seconds as the two digits they are written with. *)

LEMMA QuotientIsUnique ==
  ASSUME NEW a \in Nat, NEW m \in Nat \ {0}, NEW q \in Nat,
         m * q <= a, a < m * q + m
  PROVE  a \div m = q
<1>1. PICK r : r = a \div m
  OBVIOUS
<1>2. r \in Nat /\ m * r <= a /\ a < m * r + m /\ m * r \in Nat /\ m * q \in Nat
  BY <1>1, Quotient
<1>3. q < r => m * q + m <= m * r
  BY <1>2, Multiples
<1>4. r < q => m * r + m <= m * q
  BY <1>2, Multiples
<1> QED BY <1>1, <1>2, <1>3, <1>4

LEMMA QuotientOfQuotient ==
  ASSUME NEW a \in Nat, NEW m \in Nat \ {0}, NEW b \in Nat \ {0}
  PROVE  a \div (m * b) = (a \div m) \div b
<1>1. PICK s, q : s = a \div m /\ q = s \div b
  OBVIOUS
<1>2. s \in Nat /\ m * s <= a /\ a < m * s + m
  BY <1>1, Quotient
<1>3. q \in Nat /\ b * q <= s /\ s < b * q + b
  BY <1>1, <1>2, Quotient
<1>4. m * b \in Nat \ {0}
  BY SMTT(30)
<1>5. b * q \in Nat /\ b * q + b \in Nat /\ m * s \in Nat
  BY <1>2, <1>3
<1>6. m * (b * q) <= m * s
  BY <1>2, <1>5, <1>3, SMTT(30)
<1>7. m * s + m <= m * (b * q + b)
  BY <1>2, <1>3, <1>5, Multiples
<1>8. m * (b * q) = (m * b) * q /\ m * (b * q + b) = (m * b) * q + m * b
  BY <1>3, SMTT(30)
<1>9. (m * b) * q <= a /\ a < (m * b) * q + m * b
  BY <1>2, <1>3, <1>4, <1>5, <1>6, <1>7, <1>8
<1> QED BY <1>1, <1>3, <1>4, <1>9, QuotientIsUnique

LEMMA Digits ==
  ASSUME NEW b \in Nat \ {0}, NEW s \in Nat, NEW t \in Nat, s < t
  PROVE  \/ s \div b < t \div b
         \/ s \div b = t \div b /\ s % b < t % b
<1>1. PICK q, r : q = s \div b /\ r = t \div b
  OBVIOUS
<1>2. /\ q \in Nat /\ b * q <= s /\ s < b * q + b
      /\ r \in Nat /\ b * r <= t /\ t < b * r + b
  BY <1>1, Quotient
<1>3. s = b * q + (s % b) /\ t = b * r + (t % b) /\ s % b \in Nat /\ t % b \in Nat
  BY <1>1, SMTT(30)
<1>4. b * q \in Nat /\ b * r \in Nat
  BY <1>2
<1>5. r < q => b * r + b <= b * q
  BY <1>2, Multiples
<1> QED BY <1>1, <1>2, <1>3, <1>4, <1>5

-----------------------------------------------------------------------------
(* Texts. *)

(* A text that starts with the second of an instant and goes on.              *)
Headed(s, at) ==
  /\ s \in Seq(Nat) /\ Len(s) > 2
  /\ s[1] = Char(at \div (Second * Base)) /\ s[2] = Char((at \div Second) % Base)

LEMMA Extended ==
  ASSUME NEW at, NEW s, Headed(s, at), NEW more \in Seq(Nat)
  PROVE  Headed(s \o more, at)
BY DEF Headed

LEMMA WholeIsText ==
  ASSUME NEW at \in Nat, NEW first \in Nat
  PROVE  Headed(Whole(at) \o <<first>>, at)
<1>1. PICK a, b : a = Char(at \div (Second * Base)) /\ b = Char((at \div Second) % Base)
  OBVIOUS
<1>2. Second * Base \in Nat \ {0} /\ at \div Second \in Nat
  BY Units, Quotient, SMTT(30)
<1>3. at \div (Second * Base) \in Nat /\ (at \div Second) % Base \in Nat
  BY <1>2, Units, Quotient, SMTT(30)
<1>4. a \in Nat /\ b \in Nat
  BY <1>1, <1>3 DEF Char
<1>5. Whole(at) = <<a, b>>
  BY <1>1 DEF Whole
<1> QED BY <1>1, <1>4, <1>5 DEF Headed

LEMMA FractionIsText ==
  ASSUME NEW at \in Nat, NEW n \in 0 .. NanoDigits
  PROVE  Fraction(at, n) \in Seq(Nat)
<1>1. NanoDigits \in Nat
  BY TimestampsAssumption
<1>2. ASSUME NEW i \in 1 .. n
      PROVE  Char((at \div Base ^ (NanoDigits - i)) % Base) \in Nat
  <2>1. PICK unit : unit = Base ^ (NanoDigits - i)
    OBVIOUS
  <2>2. NanoDigits - i \in 0 .. NanoDigits
    BY <1>1
  <2>3. unit \in Nat \ {0}
    BY <2>1, <2>2, PowersArePositive
  <2>4. at \div unit \in Nat
    BY <2>3, Quotient
  <2>5. (at \div unit) % Base \in Nat
    BY <2>4, Units
  <2> QED BY <2>1, <2>5 DEF Char
<1> QED BY <1>1, <1>2 DEF Fraction

LEMMA TextIsHeaded ==
  ASSUME NEW row, row.at \in Nat
  PROVE  Headed(Text(row), row.at)
<1>1. PICK at : at = row.at
  OBVIOUS
<1>2. at \in Nat /\ Dot \in Nat /\ Zulu \in Nat
      /\ NanoDigits \in Nat /\ MilliDigits \in 0 .. NanoDigits
  BY <1>1, TimestampsAssumption DEF Dot, Zulu
<1>3. ASSUME NEW n \in 0 .. NanoDigits
      PROVE  Headed(Whole(at) \o <<Dot>> \o Fraction(at, n) \o <<Zulu>>, at)
  <2>1. Headed(Whole(at) \o <<Dot>>, at)
    BY <1>2, WholeIsText
  <2>2. Headed(Whole(at) \o <<Dot>> \o Fraction(at, n), at)
    BY <1>2, <2>1, FractionIsText, Extended
  <2>3. <<Zulu>> \in Seq(Nat)
    BY <1>2
  <2> QED BY <2>2, <2>3, Extended
<1>4. Headed(Strftime(at), at)
  BY <1>2, <1>3 DEF Strftime
<1>5. Headed(RFC3339Nano(at), at)
  <2>1. PICK inexact :
          inexact = {n \in 0 .. NanoDigits - 1 : at % Base ^ (NanoDigits - n) # 0}
    OBVIOUS
  <2>2. IsFiniteSet(0 .. NanoDigits - 1) /\ Cardinality(0 .. NanoDigits - 1) = NanoDigits
    <3>1. Cardinality(0 .. NanoDigits - 1) =
            IF 0 > NanoDigits - 1 THEN 0 ELSE (NanoDigits - 1) - 0 + 1
      BY <1>2, FS_Interval
    <3> QED BY <1>2, <3>1, FS_Interval
  <2>3. PICK n : n = Cardinality(inexact)
    OBVIOUS
  <2>4. n \in 0 .. NanoDigits
    <3>1. inexact \subseteq 0 .. NanoDigits - 1
      BY <2>1
    <3>2. IsFiniteSet(inexact) /\ n <= NanoDigits
      BY <2>2, <2>3, <3>1, FS_Subset
    <3> QED BY <1>2, <2>3, <3>2, FS_CardinalityType
  <2>5. RFC3339Nano(at) =
          IF n = 0 THEN Whole(at) \o <<Zulu>>
                   ELSE Whole(at) \o <<Dot>> \o Fraction(at, n) \o <<Zulu>>
    BY <2>1, <2>3 DEF RFC3339Nano
  <2> QED BY <1>2, <1>3, <2>4, <2>5, WholeIsText
<1> QED BY <1>1, <1>4, <1>5 DEF Text

(* An instant of an earlier second is written as an earlier text.             *)
LEMMA SecondsAreOrdered ==
  ASSUME NEW s, NEW t, NEW a \in Nat, NEW b \in Nat, Headed(s, a), Headed(t, b),
         a \div Second < b \div Second
  PROVE  Before(s, t) /\ ~Before(t, s)
<1>1. PICK c, d : c = a \div Second /\ d = b \div Second
  OBVIOUS
<1>2. c \in Nat /\ d \in Nat /\ c < d
  BY <1>1, Units, Quotient
<1>3. a \div (Second * Base) = c \div Base /\ b \div (Second * Base) = d \div Base
  BY <1>1, Units, QuotientOfQuotient
<1>4. /\ c \div Base \in Nat /\ d \div Base \in Nat /\ c % Base \in Nat /\ d % Base \in Nat
      /\ \/ c \div Base < d \div Base
         \/ c \div Base = d \div Base /\ c % Base < d % Base
  <2>1. Base \in Nat \ {0}
    BY Units
  <2>2. c \div Base \in Nat /\ d \div Base \in Nat
    BY <1>2, <2>1, Quotient
  <2>3. c % Base \in Nat /\ d % Base \in Nat
    BY <1>2, <2>1
  <2>4. \/ c \div Base < d \div Base
        \/ c \div Base = d \div Base /\ c % Base < d % Base
    BY <1>2, <2>1, Digits
  <2> QED BY <2>2, <2>3, <2>4
<1>5. PICK w, x, y, z : /\ w = c \div Base /\ x = c % Base
                       /\ y = d \div Base /\ z = d % Base
  OBVIOUS
<1>6. /\ s[1] = w + 1 /\ s[2] = x + 1 /\ Len(s) \in Nat /\ Len(s) > 2
      /\ t[1] = y + 1 /\ t[2] = z + 1 /\ Len(t) \in Nat /\ Len(t) > 2
  <2>1. s \in Seq(Nat) /\ t \in Seq(Nat) /\ Len(s) > 2 /\ Len(t) > 2
    BY DEF Headed
  <2>2. s[1] = (c \div Base) + 1 /\ s[2] = (c % Base) + 1
    BY <1>1, <1>3 DEF Headed, Char
  <2>3. t[1] = (d \div Base) + 1 /\ t[2] = (d % Base) + 1
    BY <1>1, <1>3 DEF Headed, Char
  <2>4. s[1] = w + 1 /\ s[2] = x + 1 /\ t[1] = y + 1 /\ t[2] = z + 1
    BY <1>5, <2>2, <2>3, Zenon
  <2> QED BY <2>1, <2>4
<1>7. /\ w \in Nat /\ x \in Nat /\ y \in Nat /\ z \in Nat
      /\ \/ w < y
         \/ w = y /\ x < z
  BY <1>4, <1>5
<1>8. Before(s, t)
  <2>1. CASE w < y
    <3>1. /\ 1 \in 1 .. Len(t) /\ 1 <= Len(s) + 1 /\ s[1] < t[1]
          /\ \A j \in 1 .. 1 - 1 : s[j] = t[j]
      BY <1>6, <1>7, <2>1
    <3> QED BY <3>1, Zenon DEF Before
  <2>2. CASE w = y /\ x < z
    <3>1. /\ 2 \in 1 .. Len(t) /\ 2 <= Len(s) + 1 /\ s[2] < t[2]
          /\ \A j \in 1 .. 2 - 1 : s[j] = t[j]
      BY <1>6, <1>7, <2>2
    <3> QED BY <3>1, Zenon DEF Before
  <2> QED BY <1>7, <2>1, <2>2
<1>9. ASSUME NEW i \in 1 .. Len(s), \A j \in 1 .. i - 1 : t[j] = s[j],
             i <= Len(t) => t[i] < s[i]
      PROVE  FALSE
  <2>1. CASE i = 1
    BY <1>6, <1>7, <1>9, <2>1
  <2>2. CASE i = 2
    <3>1. t[1] = s[1]
      BY <1>9, <2>2
    <3> QED BY <1>6, <1>7, <1>9, <2>2, <3>1
  <2>3. CASE i \notin {1, 2}
    <3>1. 1 \in 1 .. i - 1 /\ 2 \in 1 .. i - 1
      BY <1>6, <2>3
    <3>2. t[1] = s[1] /\ t[2] = s[2]
      BY <1>9, <3>1
    <3> QED BY <1>6, <1>7, <3>2
  <2> QED BY <2>1, <2>2, <2>3
<1> QED BY <1>8, <1>9 DEF Before

(* Ordering by the text selects a row at most a second later than the other:  *)
(* trimmed zeros and the sign after them disorder no two seconds.             *)
THEOREM OvertakenWithinASecondHolds == TimestampsSpec => []OvertakenWithinASecond
<1>1. ASSUME RowsOK PROVE OvertakenWithinASecond
  <2>1. PICK a, b : a = rows[1].at /\ b = rows[2].at
    OBVIOUS
  <2>2. a \in Nat /\ b \in Nat /\ Second \in Nat \ {0}
    BY <1>1, <2>1, Units DEF RowsOK
  <2>3. PICK s, t : s = Text(rows[1]) /\ t = Text(rows[2])
    OBVIOUS
  <2>4. Headed(s, a) /\ Headed(t, b)
    BY <2>1, <2>2, <2>3, TextIsHeaded
  <2>5. PICK c, d : c = a \div Second /\ d = b \div Second
    OBVIOUS
  <2>6. /\ c \in Nat /\ Second * c <= a /\ a < Second * c + Second
        /\ d \in Nat /\ Second * d <= b /\ b < Second * d + Second
        /\ Second * c \in Nat /\ Second * d \in Nat
    BY <2>2, <2>5, Quotient
  <2>7. ASSUME Before(t, s) PROVE b < a + Second
    <3>1. ~(c < d)
      BY <2>2, <2>4, <2>5, <2>7, SecondsAreOrdered
    <3>2. c = d \/ d < c
      BY <2>6, <3>1
    <3>3. d < c => Second * d + Second <= Second * c
      BY <2>2, <2>6, Multiples
    <3> QED BY <2>2, <2>6, <3>2, <3>3
  <2>8. ASSUME ~Before(t, s) PROVE a < b + Second
    <3>1. ~(d < c)
      BY <2>2, <2>4, <2>5, <2>8, SecondsAreOrdered
    <3>2. c = d \/ c < d
      BY <2>6, <3>1
    <3>3. c < d => Second * c + Second <= Second * d
      BY <2>2, <2>6, Multiples
    <3> QED BY <2>2, <2>6, <3>2, <3>3
  <2>9. a < a + Second /\ b < b + Second
    BY <2>2
  <2> QED BY <2>1, <2>3, <2>7, <2>8, <2>9 DEF OvertakenWithinASecond, Selected
<1> QED BY <1>1, RowsInvariant, PTL

=============================================================================
