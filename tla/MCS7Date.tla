------------------------------ MODULE MCS7Date ------------------------------
(* Days around the ends of months and years: leap years, 2000, 2100 (not a *)
(* leap year) and the last of the 16-bit days.                             *)
EXTENDS S7Date

MCDays == 0..62 \cup 364..367 \cup 424..427 \cup 729..732 \cup 1460..1462
          \cup 5902..5905 \cup 6209..6211 \cup 42427..42430 \cup 42733..42736
          \cup {65535}

MCStamps == [millisec : {0, 60000}, days : MCDays]
=============================================================================
