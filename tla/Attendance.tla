------------------------------ MODULE Attendance ------------------------------
(***************************************************************************)
(* One employee's working day (attendance.controller.js) and the overtime  *)
(* claimed for it (overtime.controller.js).                                *)
(*                                                                         *)
(* Both tables have one row per employee and day by a unique key.  The     *)
(* updates are by id alone, after a check of their own.                    *)
(***************************************************************************)
EXTENDS Server, Naturals

CONSTANT MaxHours   \* bound: overtime hours claimed

ASSUME AttendanceAssumption == MaxHours \in Nat \ {0}

VARIABLES
  ipAllowed,      \* the employee's address is on the list of the organization
  day,            \* attendance_records of the day
  overtime        \* overtime_requests of the day

attendanceVars == <<ipAllowed, day, overtime>>

Hours == 1 .. MaxHours

NoOvertime == [status |-> "absent", claimed |-> 0, approved |-> 0]

AttendanceRequests ==
  [kind : {"checkIn", "checkOut"}]
    \union [kind : {"decideOvertime"}, status : {"approved", "rejected"}, hours : Nat]

AttendanceTypeOK ==
  /\ ipAllowed \in BOOLEAN
  /\ day \in {"absent", "checked_in", "checked_out"}
  /\ overtime \in [status   : {"absent", "pending", "approved", "rejected"},
                   claimed  : Nat,
                   approved : Nat]
  /\ overtime.approved <= overtime.claimed
  /\ request \in [Requests -> {Idle} \union AttendanceRequests]

AttendanceInit ==
  /\ ipAllowed = FALSE
  /\ day = "absent"
  /\ overtime = NoOvertime

----------------------------------------------------------------------------
AddAllowedIp ==
  /\ ~ipAllowed
  /\ ipAllowed' = TRUE
  /\ UNCHANGED <<day, overtime, request>>

RemoveAllowedIp ==
  /\ ipAllowed
  /\ ipAllowed' = FALSE
  /\ UNCHANGED <<day, overtime, request>>

\* assertAllowedIp: blocked addresses are refused, allowed ones must be listed.
AddressAllowed == ipAllowed

\* assertAllowedIp and the row of today come before each of the writes.
CheckInRead(h) ==
  /\ AddressAllowed
  /\ day = "absent"
  /\ Begin(h, [kind |-> "checkIn"])
  /\ UNCHANGED attendanceVars

\* The INSERT, or the 409 of uk_attendance_employee_date.
CheckInInsert(h) ==
  /\ Doing(h, "checkIn")
  /\ day' = IF day = "absent" THEN "checked_in" ELSE day
  /\ End(h)
  /\ UNCHANGED <<ipAllowed, overtime>>

CheckOutRead(h) ==
  /\ AddressAllowed
  /\ day = "checked_in"
  /\ Begin(h, [kind |-> "checkOut"])
  /\ UNCHANGED attendanceVars

CheckOutWrite(h) ==
  /\ Doing(h, "checkOut")
  /\ day' = "checked_out"
  /\ End(h)
  /\ UNCHANGED <<ipAllowed, overtime>>

\* An administrator enters the whole day, or its beginning.
ManualEntry(status) ==
  /\ day = "absent"
  /\ day' = status
  /\ UNCHANGED <<ipAllowed, overtime, request>>

----------------------------------------------------------------------------
CreateOvertime(hours) ==
  /\ overtime = NoOvertime
  /\ overtime' = [status |-> "pending", claimed |-> hours, approved |-> 0]
  /\ UNCHANGED <<ipAllowed, day, request>>

\* Mutant: the hours of the decision are taken as they come.
DecideOvertimeReadUnclamped(h, status, hours) ==
  /\ overtime.status = "pending"
  /\ Begin(h, [kind |-> "decideOvertime", status |-> status,
               hours |-> IF status = "rejected" THEN 0 ELSE hours])
  /\ UNCHANGED attendanceVars

\* No more is approved than was claimed.
DecideOvertimeRead(h, status, hours) ==
  /\ overtime.status = "pending"
  /\ LET approved == CASE status = "rejected"        -> 0
                       [] hours > overtime.claimed   -> overtime.claimed
                       [] OTHER                      -> hours
     IN Begin(h, [kind |-> "decideOvertime", status |-> status, hours |-> approved])
  /\ UNCHANGED attendanceVars

\* UPDATE ... WHERE uuid=?: two decisions that read together, the later one stays.
DecideOvertimeWrite(h) ==
  /\ Doing(h, "decideOvertime")
  /\ overtime' = [overtime EXCEPT !.status = request[h].status, !.approved = request[h].hours]
  /\ End(h)
  /\ UNCHANGED <<ipAllowed, day>>

AttendanceNext ==
  \/ AddAllowedIp \/ RemoveAllowedIp
  \/ \E status \in {"checked_in", "checked_out"} : ManualEntry(status)
  \/ \E hours \in Hours : CreateOvertime(hours)
  \/ \E h \in Requests :
       \/ CheckInRead(h) \/ CheckInInsert(h) \/ CheckOutRead(h) \/ CheckOutWrite(h)
       \/ \E status \in {"approved", "rejected"}, hours \in Hours : DecideOvertimeRead(h, status, hours)
       \/ DecideOvertimeWrite(h)
       \/ Abandon(h) /\ UNCHANGED attendanceVars

AttendanceSpec ==
  ServerInit /\ AttendanceInit /\ [][AttendanceNext]_<<request, attendanceVars>>
============================================================================
