--------------------------- MODULE BlockFileProofs ----------------------------
(***************************************************************************)
(* A block's header is read whole and its sections tile, for every file,   *)
(* every stamp and every point at which memory is missing.  First the date *)
(* alone: it is exact for every stamp, whatever its days, the loops        *)
(* neither lose a day nor leave the month table.  The invariant of these   *)
(* loops is kept while they run inside a load.                             *)
(***************************************************************************)
EXTENDS BlockFile, TLAPS

(* A leap year adds one to the count of leap years.                        *)
LEMMA LeapsStep ==
    ASSUME NEW y \in Nat, y > 0
    PROVE  Leaps(y) = Leaps(y - 1) + (IF IsLeap(y) THEN 1 ELSE 0)
<1>1. y \div 4 = (y - 1) \div 4 + (IF y % 4 = 0 THEN 1 ELSE 0)
  OBVIOUS
<1>2. y \div 100 = (y - 1) \div 100 + (IF y % 100 = 0 THEN 1 ELSE 0)
  OBVIOUS
<1>3. y \div 400 = (y - 1) \div 400 + (IF y % 400 = 0 THEN 1 ELSE 0)
  OBVIOUS
<1>4. /\ (y % 100 = 0 => y % 4 = 0)
      /\ (y % 400 = 0 => y % 100 = 0)
  OBVIOUS
<1>5. /\ y \div 4 \in Int /\ y \div 100 \in Int /\ y \div 400 \in Int
      /\ (y - 1) \div 4 \in Int /\ (y - 1) \div 100 \in Int
      /\ (y - 1) \div 400 \in Int
  OBVIOUS
<1> QED
  BY <1>1, <1>2, <1>3, <1>4, <1>5 DEF Leaps, IsLeap

(* The first of January moves by the length of the year.                   *)
LEMMA YearStep ==
    ASSUME NEW y \in Nat, y >= 1984
    PROVE  /\ DaysBefore(y) \in Int
           /\ DaysBefore(y + 1) = DaysBefore(y) + DaysInYear(y)
<1>1. Leaps(y) = Leaps(y - 1) + (IF IsLeap(y) THEN 1 ELSE 0)
  BY LeapsStep
<1>2. Leaps(y) \in Int /\ Leaps(y - 1) \in Int /\ Leaps(1983) \in Int
  BY DEF Leaps
<1>3. (y + 1) - 1 = y
  OBVIOUS
<1> QED
  BY <1>1, <1>2, <1>3 DEF DaysBefore, DaysInYear
----------------------------------------------------------------------------
(* The days before a month are a number, 0 for January, and the year's     *)
(* length for the month behind December.                                   *)
LEMMA MonthStarts ==
    ASSUME NEW y \in Nat, NEW m \in 1..13
    PROVE  /\ DaysBeforeMonth(y, m) \in 0..366
           /\ DaysBeforeMonth(y, 1) = 0
           /\ DaysBeforeMonth(y, 13) = DaysInYear(y)
<1>1. CASE IsLeap(y)
  BY <1>1 DEF DaysBeforeMonth, DaysInYear
<1>2. CASE ~IsLeap(y)
  BY <1>2 DEF DaysBeforeMonth, DaysInYear
<1> QED
  BY <1>1, <1>2

(* A month's length in the table, 29 for a leap February, is what the      *)
(* calendar has between its first day and the next month's.                *)
LEMMA MonthStep ==
    ASSUME NEW y \in Nat, NEW k \in 0..11
    PROVE  /\ DaysBeforeMonth(y, k + 2) - DaysBeforeMonth(y, k + 1)
                  = (IF k = 1 /\ IsLeap(y) THEN 29 ELSE MonthTable(k))
           /\ MonthTable(k) \in 28..31
<1>1. CASE IsLeap(y)
  BY <1>1 DEF DaysBeforeMonth, MonthTable
<1>2. CASE ~IsLeap(y)
  BY <1>2 DEF DaysBeforeMonth, MonthTable
<1> QED
  BY <1>1, <1>2

Inv == TypeOK /\ DaysConserved /\ DateExact /\ (pc # "done" => date = {})

(* The two loops start with all the days.                                  *)
LEMMA InitInv == Init => Inv
<1> SUFFICES ASSUME Init PROVE Inv
  OBVIOUS
<1>1. stamp.days \in Nat
  BY StampAssumption DEF Init
<1>2. DaysBefore(1984) = 0
  BY DEF DaysBefore, Leaps
<1>3. DaysBeforeMonth(1984, 1) = 0
  BY MonthStarts
<1> QED
  BY <1>1, <1>2, <1>3 DEF Init, Inv, TypeOK, DaysConserved, DateExact

(* A year that is taken off is counted in DaysBefore.                      *)
LEMMA TakeYearInv == Inv /\ TakeYear => Inv'
<1> SUFFICES ASSUME Inv, TakeYear PROVE Inv'
  OBVIOUS
<1> USE DEF Inv, TakeYear
<1>1. year \in Nat /\ day \in Nat /\ year >= 1984 /\ i = 0
  BY DEF TypeOK, DaysConserved
<1>2. DaysInYear(year) \in Nat
  BY DEF DaysInYear
<1>3. DaysBefore(year) \in Int /\ DaysBefore(year + 1) = DaysBefore(year) + DaysInYear(year)
  BY <1>1, YearStep
<1>4. /\ DaysBeforeMonth(year, 1) = 0
      /\ DaysBeforeMonth(year + 1, 1) = 0
  BY <1>1, MonthStarts
<1>5. TypeOK'
  BY <1>1, <1>2 DEF TypeOK
<1>6. DaysConserved'
  <2>1. DaysBefore(year) + 0 + day = stamp.days + 1
    BY <1>1, <1>4 DEF DaysConserved
  <2>2. stamp.days \in Nat
    BY StampAssumption DEF TypeOK
  <2>3. DaysBefore(year + 1) + 0 + (day - DaysInYear(year)) = stamp.days + 1
    BY <1>1, <1>2, <1>3, <2>1, <2>2
  <2> QED
    BY <1>1, <1>4, <2>3 DEF DaysConserved
<1> QED
  BY <1>5, <1>6 DEF DateExact

(* The year loop ends only with a day that lies in the year.               *)
LEMMA YearsTakenInv == Inv /\ YearsTaken => Inv'
<1> SUFFICES ASSUME Inv, YearsTaken PROVE Inv'
  OBVIOUS
<1> USE DEF Inv, YearsTaken
<1>1. year \in Nat /\ day \in Nat /\ i = 0
  BY DEF TypeOK, DaysConserved
<1>2. /\ DaysBeforeMonth(year, 1) = 0
      /\ DaysBeforeMonth(year, 13) = DaysInYear(year)
  BY <1>1, MonthStarts
<1>3. day <= DaysInYear(year)
  BY <1>1 DEF DaysInYear
<1>4. day <= DaysBeforeMonth(year, 13) - DaysBeforeMonth(year, i + 1)
  BY <1>1, <1>2, <1>3 DEF DaysInYear
<1> QED
  BY <1>4 DEF TypeOK, DaysConserved, DateExact

(* What is left of the days after a month lies in the months behind it; in *)
(* December the month loop always ends.                                    *)
LEMMA TakeMonthInv == Inv /\ TakeMonth => Inv'
<1> SUFFICES ASSUME Inv, TakeMonth PROVE Inv'
  OBVIOUS
<1> DEFINE before(k) == DaysBeforeMonth(year, k)
<1>1. year \in Nat /\ day \in Nat /\ i \in 0..11 /\ year >= 1984
  BY DEF Inv, TypeOK, DaysConserved
<1>2. /\ before(i + 1) \in 0..366
      /\ before(i + 2) - before(i + 1) = MonthDays
      /\ MonthTable(i) \in 28..31
      /\ before(13) \in Int
  <2>1. i + 1 \in 1..13
    BY <1>1
  <2>2. year \in Nat
    BY <1>1
  <2>4. before(i + 1) \in 0..366
    BY <2>1, <2>2, MonthStarts
  <2>5. before(13) \in 0..366
    <3>1. 13 \in 1..13
      OBVIOUS
    <3> QED
      BY <2>2, <3>1, MonthStarts
  <2>3. /\ before(i + 2) - before(i + 1) = MonthDays
        /\ MonthTable(i) \in 28..31
    BY <1>1, MonthStep DEF MonthDays
  <2> QED
    BY <2>3, <2>4, <2>5
<1>3. MonthDays \in 28..31 /\ day > MonthDays
  BY <1>1, <1>2 DEF MonthDays, MonthEnds, TakeMonth
<1>4. /\ day <= before(13) - before(i + 1)
      /\ DaysBefore(year) + before(i + 1) + day = stamp.days + 1
  BY DEF Inv, DaysConserved, TakeMonth
<1> HIDE DEF before
<1>5. i # 11
  <2> SUFFICES ASSUME i = 11 PROVE FALSE
    OBVIOUS
  <2>1. before(13) - before(12) = MonthDays
    BY <1>2
  <2> QED
    BY <1>1, <1>2, <1>3, <1>4, <2>1
<1>6. before(i + 2) \in 0..366
  <2>1. i + 2 \in 1..13
    BY <1>1, <1>5
  <2>2. year \in Nat
    BY <1>1
  <2> QED
    BY <2>1, <2>2, MonthStarts DEF before
<1>7. TypeOK'
  BY <1>1, <1>3, <1>5 DEF Inv, TypeOK, TakeMonth
<1>8. DaysConserved'
  <2>1. DaysBefore(year) \in Int
    BY <1>1, YearStep
  <2>2. stamp.days \in Nat
    BY StampAssumption DEF Inv, TypeOK
  <2>3. before(i + 2) = before(i + 1) + MonthDays
    <3>1. before(i + 1) \in Int
      BY <1>2
    <3>2. before(i + 2) \in Int
      BY <1>6
    <3>3. MonthDays \in Int
      BY <1>3
    <3>4. before(i + 2) - before(i + 1) = MonthDays
      BY <1>2
    <3> QED
      BY <3>1, <3>2, <3>3, <3>4
  <2>4. DaysBefore(year) + before(i + 2) + (day - MonthDays) = stamp.days + 1
    BY <1>1, <1>2, <1>3, <1>4, <2>1, <2>2, <2>3
  <2>5. day - MonthDays <= before(13) - before(i + 2)
    BY <1>1, <1>2, <1>3, <1>4, <2>3
  <2>6. (i + 1) + 1 = i + 2
    BY <1>1
  <2> QED
    BY <1>1, <2>4, <2>5, <2>6 DEF DaysConserved, before, TakeMonth
<1> QED
  BY <1>7, <1>8 DEF Inv, DateExact, TakeMonth

(* When the month loop ends, month and day are the calendar's.             *)
LEMMA SetDateInv == Inv /\ SetDate => Inv'
<1> SUFFICES ASSUME Inv, SetDate PROVE Inv'
  OBVIOUS
<1> DEFINE before(k) == DaysBeforeMonth(year, k)
<1>1. year \in Nat /\ day \in Nat \ {0} /\ i \in 0..11 /\ year >= 1984
  BY DEF Inv, TypeOK, DaysConserved
<1>2. /\ before(i + 1) \in 0..366
      /\ before(i + 2) - before(i + 1)
             = (IF i = 1 /\ IsLeap(year) THEN 29 ELSE MonthTable(i))
      /\ MonthTable(i) \in 28..31
  <2>1. i + 1 \in 1..13
    BY <1>1
  <2>2. year \in Nat
    BY <1>1
  <2>3. before(i + 1) \in 0..366
    BY <2>1, <2>2, MonthStarts
  <2> QED
    BY <1>1, <2>3, MonthStep
<1>3. day <= before(i + 2) - before(i + 1)
  BY <1>1, <1>2 DEF MonthEnds, MonthTable, SetDate
<1>4. DaysBefore(year) + before(i + 1) + day = stamp.days + 1
  BY DEF Inv, DaysConserved
<1>5. DaysBefore(year) \in Int /\ stamp.days \in Nat
  BY <1>1, YearStep, StampAssumption DEF Inv, TypeOK
<1>6. DateExact'
  <2> SUFFICES ASSUME NEW d \in date'
               PROVE  /\ d.month \in 1..12
                      /\ d.day \in 1..(DaysBeforeMonth(d.year, d.month + 1)
                                       - DaysBeforeMonth(d.year, d.month))
                      /\ DaysBefore(d.year) + DaysBeforeMonth(d.year, d.month)
                             + d.day - 1 = stamp.days
    BY DEF DateExact, SetDate
  <2>1. d.year = year /\ d.month = i + 1 /\ d.day = day
    BY DEF SetDate
  <2>2. before(i + 2) - before(i + 1) \in Int
    BY <1>2
  <2>3. d.month + 1 = i + 2 /\ d.month \in 1..12
    BY <1>1, <2>1
  <2>4. day \in 1..(before(i + 2) - before(i + 1))
    BY <1>1, <1>3, <2>2
  <2>5. DaysBefore(year) + before(i + 1) + day - 1 = stamp.days
    BY <1>1, <1>2, <1>4, <1>5
  <2> QED
    BY <2>1, <2>3, <2>4, <2>5
<1> QED
  BY <1>6 DEF Inv, TypeOK, DaysConserved, SetDate

(* The loops' invariant: every reachable state keeps the days.             *)
THEOREM DateInvariant == Spec => []Inv
<1>1. Inv /\ [Next]_vars => Inv'
  <2> SUFFICES ASSUME Inv, [Next]_vars PROVE Inv'
    OBVIOUS
  <2>1. CASE TakeYear
    BY <2>1, TakeYearInv
  <2>2. CASE YearsTaken
    BY <2>2, YearsTakenInv
  <2>3. CASE TakeMonth
    BY <2>3, TakeMonthInv
  <2>4. CASE SetDate
    BY <2>4, SetDateInv
  <2>5. CASE UNCHANGED vars
    BY <2>5 DEF vars, Inv, TypeOK, DaysConserved, DateExact
  <2> QED
    BY <2>1, <2>2, <2>3, <2>4, <2>5 DEF Next
<1> QED
  BY InitInv, <1>1, PTL DEF Spec

(* TypeOK for any stamps: days_in_month is never indexed past December.    *)
THEOREM DateTypeCorrect == Spec => []TypeOK
<1>1. Inv => TypeOK
  BY DEF Inv
<1> QED
  BY <1>1, DateInvariant, PTL

(* DateExact for any number of days: the date printed for a block is the   *)
(* day it was stamped with.                                                *)
THEOREM DateHolds == Spec => []DateExact
<1>1. Inv => DateExact
  BY DEF Inv
<1> QED
  BY <1>1, DateInvariant, PTL

(* DaysConserved for any number of days.                                   *)
THEOREM DaysConservedHolds == Spec => []DaysConserved
<1>1. Inv => DaysConserved
  BY DEF Inv
<1> QED
  BY <1>1, DateInvariant, PTL
-----------------------------------------------------------------------------
\* Where field k of the header begins; 36 stands behind the last.
FieldAt(k) == <<0, 2, 3, 4, 5, 6, 8, 12, 16, 22, 28, 30, 32, 34, 36>>[k]

DatesAt(k) == IF k <= FirstStamp THEN 0 ELSE IF k = FirstStamp + 1 THEN 1 ELSE 2

Date == [year : Nat, month : Nat, day : Nat, time : {TimeOf(n) : n \in Nat}]

DateOf(d, s) ==
    DaysBefore(d.year) + DaysBeforeMonth(d.year, d.month) + d.day - 1 = s.days

\* The reader stands before the field, or behind the stamp being dated.
Reading ==
    /\ file \in Files
    /\ load \in {"new", "reading", "dating", "loaded", "refused", "gone"}
    /\ field \in 1..15
    /\ load = "new" => field = 1
    /\ load = "dating" => /\ field \in {FirstStamp, FirstStamp + 1}
                          /\ offset = FieldAt(field + 1)
                          /\ stamp = file.stamps[field - FirstStamp + 1]
    /\ load # "dating" => offset = FieldAt(field)
    /\ load \in {"loaded", "gone"} => field = 15
    /\ load = "refused" /\ offset > 0 => file.len < BlockSize

\* The loops' invariant, and the date is there where they ended.
Looped == Inv /\ date \subseteq Date /\ (pc = "done" => date # {})

\* The dates read so far, each of its own stamp.
Dated ==
    /\ dates \in Seq(Date)
    /\ load # "gone" => Len(dates) = DatesAt(field)
    /\ load = "gone" => dates = <<>>
    /\ \A k \in 1..Len(dates) : k \in 1..2 /\ DateOf(dates[k], file.stamps[k])

HeaderInv == Reading /\ Looped /\ Dated

(* What the assumption on files says of one.                               *)
LEMMA FileParts ==
    ASSUME NEW f \in Files
    PROVE  /\ f.len \in Nat
           /\ f.stamps[1] \in Stamps /\ f.stamps[2] \in Stamps
           /\ f.sizes \in [1..4 -> Nat]
<1>1. f \in [len : Nat \ {0, 1}, data : BOOLEAN,
             stamps : {<<s, t>> : s, t \in Stamps}, sizes : [1..4 -> Nat]]
  BY FileAssumption
<1> QED
  BY <1>1

(* The fields lie one behind the other.                                    *)
LEMMA FieldsTile ==
    ASSUME NEW k \in 1..14
    PROVE  /\ DOMAIN Fields = 1..14
           /\ FieldAt(k) \in 0..34 /\ Fields[k] \in 1..6
           /\ FieldAt(k + 1) = FieldAt(k) + Fields[k]
           /\ FieldAt(k + 1) \in 1..36 /\ FieldAt(1) = 0 /\ FieldAt(15) = 36
<1>1. k \in {1, 2, 3, 4, 5, 6, 7, 8, 9, 10, 11, 12, 13, 14}
  OBVIOUS
<1> QED
  BY <1>1 DEF Fields, FieldAt
----------------------------------------------------------------------------
(* A load begins before the first field.                                   *)
LEMMA HeaderInit == LoadInit => HeaderInv
<1> SUFFICES ASSUME LoadInit PROVE HeaderInv
  OBVIOUS
<1>1. stamp \in Stamps
  BY FileParts DEF LoadInit
<1>2. Init
  BY <1>1 DEF LoadInit, Init
<1>3. Looped
  BY <1>2, InitInv DEF Looped, Init
<1>4. Reading
  BY DEF Reading, LoadInit, FieldAt
<1>5. Dated
  BY DEF Dated, LoadInit, DatesAt, FirstStamp
<1> QED
  BY <1>3, <1>4, <1>5 DEF HeaderInv

(* A field is read behind the one before it, and a stamp's loops start     *)
(* from that stamp.                                                        *)
LEMMA ReadFieldKeeps == HeaderInv /\ ReadField => HeaderInv'
<1> SUFFICES ASSUME HeaderInv, ReadField PROVE HeaderInv'
  OBVIOUS
<1>1. field \in 1..14 /\ load = "reading" /\ offset = FieldAt(field) /\ file \in Files
  BY DEF HeaderInv, Reading, ReadField, Fields
<1>2. offset' = FieldAt(field + 1)
  BY <1>1, FieldsTile DEF ReadField
<1>3. CASE field \in {FirstStamp, FirstStamp + 1}
  <2>1. /\ stamp' = file.stamps[field - FirstStamp + 1]
        /\ year' = 1984 /\ day' = 1 + stamp'.days /\ i' = 0 /\ date' = {}
        /\ pc' = "years" /\ load' = "dating" /\ field' = field
        /\ UNCHANGED <<file, dates>>
    BY <1>3 DEF ReadField
  <2>2. stamp' \in Stamps
    BY <1>1, <1>3, <2>1, FileParts DEF FirstStamp
  <2>3. Init'
    BY <2>1, <2>2 DEF Init
  <2>4. Init' => Inv'
    BY InitInv, PTL
  <2>5. Looped'
    BY <2>1, <2>3, <2>4 DEF Looped
  <2>6. Reading'
    BY <1>1, <1>2, <1>3, <2>1 DEF Reading
  <2>7. Dated'
    BY <1>1, <2>1 DEF HeaderInv, Dated
  <2> QED
    BY <2>5, <2>6, <2>7 DEF HeaderInv
<1>4. CASE field \notin {FirstStamp, FirstStamp + 1}
  <2>1. field' = field + 1 /\ load' = load /\ UNCHANGED <<vars, file, dates>>
    BY <1>4 DEF ReadField
  <2>2. Looped'
    BY <2>1 DEF HeaderInv, Looped, Inv, TypeOK, DaysConserved, DateExact, vars
  <2>3. Reading'
    BY <1>1, <1>2, <2>1 DEF Reading
  <2>4. DatesAt(field + 1) = DatesAt(field)
    BY <1>1, <1>4 DEF DatesAt, FirstStamp
  <2>5. Dated'
    BY <1>1, <2>1, <2>4 DEF HeaderInv, Dated
  <2> QED
    BY <2>2, <2>3, <2>5 DEF HeaderInv
<1> QED
  BY <1>3, <1>4

(* A field that is not there lies in the first 36 bytes.                   *)
LEMMA FieldMissingKeeps == HeaderInv /\ FieldMissing => HeaderInv'
<1> SUFFICES ASSUME HeaderInv, FieldMissing PROVE HeaderInv'
  OBVIOUS
<1>1. field \in 1..14 /\ offset = FieldAt(field) /\ file \in Files
  BY DEF HeaderInv, Reading, FieldMissing, Fields
<1>2. file.len < BlockSize
  BY <1>1, FieldsTile, FileParts DEF FieldMissing, BlockSize
<1>3. Reading'
  BY <1>1, <1>2 DEF HeaderInv, Reading, FieldMissing
<1>4. Looped'
  BY DEF HeaderInv, Looped, Inv, TypeOK, DaysConserved, DateExact, vars, FieldMissing
<1>5. Dated'
  BY DEF HeaderInv, Dated, Reading, FieldMissing
<1> QED
  BY <1>3, <1>4, <1>5 DEF HeaderInv

(* The loops keep their invariant inside a load.                           *)
LEMMA CountDaysKeeps == HeaderInv /\ CountDays => HeaderInv'
<1> SUFFICES ASSUME HeaderInv, CountDays PROVE HeaderInv'
  OBVIOUS
<1> USE DEF HeaderInv
<1>1. Inv'
  BY TakeYearInv, YearsTakenInv, TakeMonthInv, SetDateInv DEF Looped, CountDays, Next
<1>2. stamp' = stamp
  BY DEF CountDays, Next, TakeYear, YearsTaken, TakeMonth, SetDate
<1>3. date' \subseteq Date /\ (pc' = "done" => date' # {})
  <2>1. CASE SetDate
    <3>1. date' = {[year |-> year, month |-> i + 1, day |-> day,
                    time |-> TimeOf(stamp.days)]}
      BY <2>1 DEF SetDate
    <3>2. year \in Nat /\ day \in Nat /\ i + 1 \in Nat
      BY DEF Looped, Inv, TypeOK
    <3>3. stamp.days \in Nat
      BY StampAssumption DEF Looped, Inv, TypeOK
    <3>4. TimeOf(stamp.days) \in {TimeOf(n) : n \in Nat}
      BY <3>3
    <3> QED
      BY <3>1, <3>2, <3>4 DEF Date
  <2>2. CASE TakeYear \/ YearsTaken \/ TakeMonth
    BY <2>2 DEF Looped, Inv, TakeYear, YearsTaken, TakeMonth
  <2> QED
    BY <2>1, <2>2 DEF CountDays, Next
<1>4. UNCHANGED <<file, load, offset, field, dates>>
  BY DEF CountDays, fileVars
<1>5. Reading'
  BY <1>2, <1>4 DEF Reading
<1>6. Dated'
  BY <1>4 DEF Dated
<1> QED
  BY <1>1, <1>3, <1>5, <1>6 DEF Looped

(* A date that is read is that of the stamp its loops started from.        *)
LEMMA DateReadKeeps == HeaderInv /\ DateRead => HeaderInv'
<1> SUFFICES ASSUME HeaderInv, DateRead PROVE HeaderInv'
  OBVIOUS
<1> USE DEF HeaderInv
<1> DEFINE d == CHOOSE x \in date : TRUE
<1>1. d \in date /\ d \in Date
  BY DEF DateRead, Looped
<1>2. field \in {FirstStamp, FirstStamp + 1} /\ stamp = file.stamps[field - FirstStamp + 1]
  BY DEF DateRead, Reading
<1>3. DateOf(d, file.stamps[field - FirstStamp + 1])
  BY <1>1, <1>2 DEF Looped, Inv, DateExact, DateOf
<1> HIDE DEF d
<1>4. dates' = Append(dates, d) /\ UNCHANGED <<vars, file, offset>>
  BY DEF DateRead, d
<1>5. field' = field + 1 /\ load' = "reading" /\ load = "dating"
  BY DEF DateRead
<1>6. Looped'
  BY <1>4 DEF Looped, Inv, TypeOK, DaysConserved, DateExact, vars
<1>7. Reading'
  BY <1>2, <1>4, <1>5 DEF Reading, FirstStamp
<1>8. Dated'
  <2>1. dates \in Seq(Date) /\ Len(dates) = field - FirstStamp /\ Len(dates) \in 0..1
    <3>1. dates \in Seq(Date) /\ Len(dates) = DatesAt(field)
      BY <1>5 DEF Dated
    <3>2. DatesAt(field) = field - FirstStamp /\ DatesAt(field) \in 0..1
      BY <1>2 DEF DatesAt, FirstStamp
    <3> QED
      BY <3>1, <3>2
  <2>2. dates' \in Seq(Date) /\ Len(dates') = Len(dates) + 1
    BY <1>1, <1>4, <2>1
  <2>3. Len(dates') = DatesAt(field')
    BY <1>2, <1>5, <2>1, <2>2 DEF DatesAt, FirstStamp
  <2>4. ASSUME NEW k \in 1..Len(dates')
        PROVE  k \in 1..2 /\ DateOf(dates'[k], file'.stamps[k])
    <3>1. k \in 1..2 /\ file' = file
      BY <1>4, <2>1, <2>2
    <3>2. CASE k = Len(dates) + 1
      <4>1. dates'[k] = d /\ k = field - FirstStamp + 1
        BY <1>1, <1>4, <2>1, <3>2
      <4> QED
        BY <1>3, <3>1, <4>1
    <3>3. CASE k # Len(dates) + 1
      <4>1. k \in 1..Len(dates)
        BY <2>1, <2>2, <3>3
      <4>2. dates'[k] = dates[k]
        BY <1>1, <1>4, <2>1, <4>1
      <4> QED
        BY <3>1, <4>1, <4>2 DEF Dated
    <3> QED
      BY <3>2, <3>3
  <2> QED
    BY <1>5, <2>2, <2>3, <2>4 DEF Dated
<1> QED
  BY <1>6, <1>7, <1>8

(* The steps that leave the reader, the loops and the dates alone.         *)
LEMMA OtherStepsKeep ==
    /\ HeaderInv
    /\ \/ NewBlock \/ Loaded \/ AskSections \/ AddSection \/ SectionFails
       \/ UNCHANGED loadVars
    => HeaderInv'
<1> SUFFICES ASSUME HeaderInv,
                    \/ NewBlock \/ Loaded \/ AskSections \/ AddSection \/ SectionFails
                    \/ UNCHANGED loadVars
             PROVE HeaderInv'
  OBVIOUS
<1>1. UNCHANGED <<vars, file, offset, field, dates>>
  BY DEF NewBlock, Loaded, AskSections, AddSection, SectionFails, loadVars, fileVars
<1>2. \/ load' = load
      \/ load = "new" /\ load' \in {"reading", "refused"}
      \/ load = "reading" /\ load' = "loaded" /\ field > 14
  BY DEF NewBlock, Loaded, AskSections, AddSection, SectionFails, loadVars, fileVars, Fields
<1>3. FieldAt(1) = 0
  BY FieldsTile
<1>4. Looped'
  BY <1>1 DEF HeaderInv, Looped, Inv, TypeOK, DaysConserved, DateExact, vars
<1>5. Reading'
  BY <1>1, <1>2, <1>3 DEF HeaderInv, Reading, vars
<1>6. Dated'
  BY <1>1, <1>2 DEF HeaderInv, Dated
<1> QED
  BY <1>4, <1>5, <1>6 DEF HeaderInv

(* mc7_destroy takes the dates with the block.                             *)
LEMMA DestroyKeeps == HeaderInv /\ Destroy => HeaderInv'
<1> SUFFICES ASSUME HeaderInv, Destroy PROVE HeaderInv'
  OBVIOUS
<1>1. Looped'
  BY DEF HeaderInv, Looped, Inv, TypeOK, DaysConserved, DateExact, vars, Destroy
<1>2. Reading'
  BY DEF HeaderInv, Reading, Destroy
<1>3. Dated'
  BY DEF HeaderInv, Dated, Destroy
<1> QED
  BY <1>1, <1>2, <1>3 DEF HeaderInv
----------------------------------------------------------------------------
\* A section as mc7_sections lists it.
Section == [kind : 1..4, addr : Nat, size : Nat, data : BOOLEAN]

\* The offset of mc7_sections is behind the last section listed, and behind
\* the sizes of those asked for.
SectionsInv ==
    /\ file \in Files
    /\ asked \in 0..6
    /\ asked = 0 => sections = <<>>
    /\ sections \in Seq(Section)
    /\ asked \in 1..5 => /\ at = BlockSize + SizesBefore(file, asked)
                         /\ at = EndOf(sections)
                         /\ sections # <<>> => sections[Len(sections)].kind < asked
    /\ \A k \in 1..Len(sections) :
           /\ sections[k].size > 0
           /\ sections[k].addr = IF k = 1 THEN BlockSize
                                 ELSE sections[k - 1].addr + sections[k - 1].size
           /\ k > 1 => sections[k].kind > sections[k - 1].kind

(* The sizes before a section add up.                                      *)
LEMMA SizesStep ==
    ASSUME NEW f \in Files, NEW k \in 1..4
    PROVE  /\ SizesBefore(f, k) \in Nat
           /\ SizesBefore(f, k + 1) = SizesBefore(f, k) + f.sizes[k]
<1>1. /\ f.sizes[1] \in Nat /\ f.sizes[2] \in Nat /\ f.sizes[3] \in Nat
      /\ f.sizes[4] \in Nat
  BY FileParts
<1>2. CASE k = 1
  BY <1>1, <1>2 DEF SizesBefore
<1>3. CASE k = 2
  BY <1>1, <1>3 DEF SizesBefore
<1>4. CASE k = 3
  BY <1>1, <1>4 DEF SizesBefore
<1>5. CASE k = 4
  BY <1>1, <1>5 DEF SizesBefore
<1> QED
  BY <1>2, <1>3, <1>4, <1>5

(* A section is added behind the last one, which had a smaller number.     *)
LEMMA AddSectionKeeps == SectionsInv /\ AddSection => SectionsInv'
<1> SUFFICES ASSUME SectionsInv, AddSection PROVE SectionsInv'
  OBVIOUS
<1> USE DEF SectionsInv
<1> DEFINE size == file.sizes[asked]
<1>1. asked \in 1..4 /\ file' = file /\ asked' = asked + 1 /\ at' = at + size
  BY DEF AddSection
<1>2. /\ file.sizes[1] \in Nat /\ file.sizes[2] \in Nat /\ file.sizes[3] \in Nat
      /\ file.sizes[4] \in Nat /\ size \in Nat
  BY <1>1, FileParts
<1>3. at = BlockSize + SizesBefore(file, asked) /\ at \in Nat
  BY <1>1, SizesStep DEF BlockSize
<1>4. at' = BlockSize + SizesBefore(file', asked')
  <2>2. /\ SizesBefore(file, asked) \in Nat
        /\ SizesBefore(file, asked + 1) = SizesBefore(file, asked) + size
    BY <1>1, SizesStep
  <2> HIDE DEF size
  <2> QED
    BY <1>1, <1>2, <1>3, <2>2 DEF BlockSize
<1>5. CASE size = 0
  <2>1. sections' = sections
    BY <1>5 DEF AddSection
  <2>2. at' = at
    BY <1>1, <1>3, <1>5
  <2>3. at' = EndOf(sections')
    BY <1>1, <2>1, <2>2 DEF EndOf
  <2>4. sections' # <<>> => sections'[Len(sections')].kind < asked'
    <3>1. SUFFICES ASSUME sections # <<>>
                   PROVE  sections[Len(sections)].kind < asked + 1
      BY <1>1, <2>1
    <3>2. sections[Len(sections)] \in Section
      BY <3>1
    <3> QED
      BY <1>1, <3>1, <3>2 DEF Section
  <2> QED
    BY <1>1, <1>4, <2>1, <2>3, <2>4
<1>6. CASE size # 0
  <2> DEFINE s == SectionOf(asked)
             n == Len(sections)
  <2>1. s \in Section /\ s.addr = at /\ s.size = size /\ s.kind = asked /\ size > 0
    <3>1. file.data \in BOOLEAN
      BY FileAssumption
    <3> QED
      BY <1>1, <1>2, <1>3, <1>6, <3>1 DEF SectionOf, Section
  <2>2. sections' = Append(sections, s)
    BY <1>6 DEF AddSection
  <2> HIDE DEF s, size
  <2>3. /\ sections' \in Seq(Section) /\ Len(sections') = n + 1 /\ n \in Nat
        /\ sections'[n + 1] = s
        /\ \A k \in 1..n : sections'[k] = sections[k]
        /\ sections' # <<>>
    BY <2>1, <2>2
  <2>4. at' = EndOf(sections')
    BY <1>1, <2>1, <2>3 DEF EndOf
  <2>5. sections'[Len(sections')].kind < asked'
    BY <1>1, <2>1, <2>3
  <2>6. ASSUME NEW k \in 1..Len(sections')
        PROVE  /\ sections'[k].size > 0
               /\ sections'[k].addr = IF k = 1 THEN BlockSize
                                      ELSE sections'[k - 1].addr + sections'[k - 1].size
               /\ k > 1 => sections'[k].kind > sections'[k - 1].kind
    <3>1. CASE k = n + 1
      <4>1. CASE n = 0
        <5>1. sections = <<>>
          BY <4>1
        <5>2. at = BlockSize
          BY <1>1, <5>1 DEF EndOf
        <5> QED
          BY <2>1, <2>3, <3>1, <4>1, <5>2
      <4>2. CASE n > 0
        <5>1. sections # <<>> /\ n \in 1..n
          BY <2>3, <4>2
        <5>2. at = sections[n].addr + sections[n].size /\ sections[n].kind < asked
          BY <1>1, <5>1 DEF EndOf
        <5>3. sections'[k - 1] = sections[n] /\ sections'[k] = s /\ k > 1
          BY <2>3, <3>1, <4>2, <5>1
        <5>4. sections[n] \in Section
          BY <5>1
        <5> QED
          BY <1>1, <2>1, <5>2, <5>3, <5>4 DEF Section
      <4> QED
        BY <2>3, <4>1, <4>2
    <3>2. CASE k # n + 1
      <4>1. k \in 1..n
        BY <2>3, <3>2
      <4>2. sections'[k] = sections[k] /\ (k > 1 => sections'[k - 1] = sections[k - 1])
        BY <2>3, <4>1
      <4> QED
        BY <4>1, <4>2
    <3> QED
      BY <3>1, <3>2
  <2> QED
    BY <1>1, <1>4, <2>3, <2>4, <2>5, <2>6
<1> QED
  BY <1>5, <1>6

(* The other steps list no section.                                        *)
LEMMA SectionsKept == SectionsInv /\ [LoadNext]_loadVars => SectionsInv'
<1> SUFFICES ASSUME SectionsInv, [LoadNext]_loadVars PROVE SectionsInv'
  OBVIOUS
<1> USE DEF SectionsInv
<1>1. CASE AddSection
  BY <1>1, AddSectionKeeps
<1>2. CASE AskSections
  BY <1>2, FileParts DEF AskSections, EndOf, SizesBefore, BlockSize
<1>3. CASE SectionFails
  BY <1>3 DEF SectionFails
<1>4. CASE \/ NewBlock \/ ReadField \/ FieldMissing \/ CountDays \/ DateRead
           \/ Loaded \/ Destroy \/ UNCHANGED loadVars
  <2>1. UNCHANGED <<file, asked, at, sections>>
    BY <1>4 DEF NewBlock, ReadField, FieldMissing, CountDays, DateRead, Loaded,
                Destroy, loadVars, fileVars
  <2> QED
    BY <2>1 DEF EndOf
<1> QED
  BY <1>1, <1>2, <1>3, <1>4 DEF LoadNext
----------------------------------------------------------------------------
(* What holds of a header, as an invariant of every load.                  *)
LEMMA HeaderInvariant == LoadSpec => []HeaderInv
<1>1. HeaderInv /\ [LoadNext]_loadVars => HeaderInv'
  BY ReadFieldKeeps, FieldMissingKeeps, CountDaysKeeps, DateReadKeeps, OtherStepsKeep,
     DestroyKeeps DEF LoadNext
<1> QED
  BY HeaderInit, <1>1, PTL DEF LoadSpec

(* The date loops inside a load, for both stamps of every file: the table  *)
(* of months is not left, no day is lost and the date is the calendar's.   *)
THEOREM LoopsHold == LoadSpec => [](TypeOK /\ DaysConserved /\ DateExact)
<1>1. HeaderInv => TypeOK /\ DaysConserved /\ DateExact
  BY DEF HeaderInv, Looped, Inv
<1> QED
  BY HeaderInvariant, <1>1, PTL

(* HeaderExact for every file: a block is loaded only of its whole header, *)
(* refused only for want of it or of memory, and has its own dates.        *)
THEOREM HeaderHolds == LoadSpec => []HeaderExact
<1>1. HeaderInv => HeaderExact
  <2> SUFFICES ASSUME HeaderInv PROVE HeaderExact
    OBVIOUS
  <2>1. FieldAt(15) = BlockSize
    BY FieldsTile DEF BlockSize
  <2>2. DOMAIN dates = 1..Len(dates)
    BY DEF HeaderInv, Dated
  <2>3. load = "loaded" => Len(dates) = 2
    BY DEF HeaderInv, Reading, Dated, DatesAt, FirstStamp
  <2> QED
    BY <2>1, <2>2, <2>3 DEF HeaderInv, Reading, Dated, DateOf, HeaderExact
<1> QED
  BY HeaderInvariant, <1>1, PTL

(* SectionsTile for every header: whatever sizes it gives, the sections lie *)
(* one behind the other from the entry point, and none is lost unless       *)
(* memory was missing.                                                      *)
THEOREM SectionsHold == LoadSpec => []SectionsTile
<1>1. LoadInit => SectionsInv
  BY DEF LoadInit, SectionsInv
<1>2. SectionsInv => SectionsTile
  <2> SUFFICES ASSUME SectionsInv PROVE SectionsTile
    OBVIOUS
  <2>1. DOMAIN sections = 1..Len(sections)
    BY DEF SectionsInv
  <2> QED
    BY <2>1 DEF SectionsInv, SectionsTile
<1> QED
  BY <1>1, SectionsKept, <1>2, PTL DEF LoadSpec
=============================================================================
