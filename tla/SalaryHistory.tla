---------------------------- MODULE SalaryHistory ----------------------------
(***************************************************************************)
(* The salary periods of one employee (salaryHistory.controller.js): a     *)
(* raise closes the active period and opens a new one; periods are edited  *)
(* and deleted by hand.                                                    *)
(*                                                                         *)
(* Each handler is a transaction that locks one row and finds the          *)
(* neighbours of that row in a snapshot, without locking them.             *)
(***************************************************************************)
EXTENDS Server, Integers, FiniteSets

CONSTANTS
  MaxDay,         \* bound: the last date entered
  MaxPeriods,     \* bound: periods ever opened (their ids)
  Shift,          \* 1 where local midnight is on the UTC day before, otherwise 0
  NoEnd           \* SQL NULL: the period is active

ASSUME SalaryAssumption ==
  MaxDay \in Nat \ {0} /\ MaxPeriods \in Nat \ {0} /\ Shift \in {0, 1} /\ NoEnd \notin Int

VARIABLES
  history,        \* employee_salary_history: the stored periods by id
  opened          \* AUTO_INCREMENT: ids given out

salaryVars == <<history, opened>>

Periods == 1 .. MaxPeriods
NoPeriod == 0

SalaryRows == [from : Int, to : Int \union {NoEnd}]

SalaryRequests ==
  [kind : {"raise"}, row : Periods \union {NoPeriod}, from : Int]
    \union [kind : {"editPeriod"}, row : Periods, from : Int, prev : Periods \union {NoPeriod}]
    \union [kind : {"deletePeriod"}, row : Periods, to : Int, prev : Periods \union {NoPeriod}]

SalaryTypeOK ==
  /\ opened \in Periods \union {NoPeriod}
  /\ DOMAIN history \subseteq 1 .. opened
  /\ \A i \in DOMAIN history : history[i] \in SalaryRows
  /\ request \in [Requests -> {Idle} \union SalaryRequests]

\* createEmployee enters the starting salary, when one is given.
StartingSalary(from) == [i \in {1} |-> [from |-> from, to |-> NoEnd]]

SalaryInit ==
  \/ history = <<>> /\ opened = 0
  \/ history = StartingSalary(1) /\ opened = 1

----------------------------------------------------------------------------
\* asDateStr: the UTC day of a DATE that the driver returns as local midnight.
UtcDay(date) == date - Shift

ActivePeriods == {i \in DOMAIN history : history[i].to = NoEnd}

\* Mutant: SELECT without FOR UPDATE.
UnheldAlways(h, i) == TRUE

\* FOR UPDATE, or an UPDATE: no other request holds the row.
Unheld(h, i) == \A g \in Requests \ {h} : request[g] # Idle => request[g].row # i

\* UPDATE ... SET effective_to, which matches nothing if the row is gone.
Ended(rows, i, date) ==
  [j \in DOMAIN rows |-> IF j = i THEN [rows[j] EXCEPT !.to = date] ELSE rows[j]]

\* The last of the rows before period i, or none.
Previous(i, rows) ==
  LET before == {j \in rows : history[j].from < history[i].from}
  IN IF before = {} THEN {NoPeriod}
     ELSE {j \in before : \A k \in before : history[k].from <= history[j].from}

RaiseRead(h, from) ==
  /\ \/ /\ ActivePeriods = {}
        /\ Begin(h, [kind |-> "raise", row |-> NoPeriod, from |-> from])
     \/ \E i \in ActivePeriods :
          /\ Unheld(h, i)
          /\ \A j \in ActivePeriods : history[j].from <= history[i].from
          /\ from > UtcDay(history[i].from)
          /\ Begin(h, [kind |-> "raise", row |-> i, from |-> from])
  /\ UNCHANGED salaryVars

\* Without a row to lock, the gap is: two raises wait for each other's INSERT
\* until the database rolls one of them back.
RaiseCommit(h) ==
  /\ Doing(h, "raise")
  /\ opened < MaxPeriods
  /\ LET r == request[h]
     IN /\ r.row = NoPeriod => Unheld(h, NoPeriod)
        /\ history' = [i \in DOMAIN history \union {opened + 1} |->
                         IF i = opened + 1 THEN [from |-> r.from, to |-> NoEnd]
                         ELSE Ended(history, r.row, r.from - 1)[i]]
  /\ opened' = opened + 1
  /\ End(h)

\* The date given, or the one read if only the amount is edited; dates before
\* day 0 are not followed.
EditPeriodRead(h, i, from) ==
  /\ i \in DOMAIN history
  /\ Unheld(h, i)
  /\ from >= 0
  /\ \A j \in DOMAIN history : history[j].from > history[i].from => from < UtcDay(history[j].from)
  /\ \E p \in Previous(i, DOMAIN history) :
       /\ p # NoPeriod => from > UtcDay(history[p].from)
       /\ Begin(h, [kind |-> "editPeriod", row |-> i, from |-> from,
                    prev |-> IF history[i].to = NoEnd THEN p ELSE NoPeriod])
  /\ UNCHANGED salaryVars

\* The end of the period before follows the active one, and no other.
EditPeriodCommit(h) ==
  /\ Doing(h, "editPeriod")
  /\ LET r == request[h]
     IN /\ r.prev # NoPeriod => Unheld(h, r.prev)
        /\ history' = Ended([history EXCEPT ![r.row].from = r.from], r.prev, r.from - 1)
  /\ End(h)
  /\ UNCHANGED opened

DeletePeriodRead(h, i) ==
  /\ i \in DOMAIN history
  /\ Unheld(h, i)
  /\ i \notin ActivePeriods
  /\ \E p \in Previous(i, DOMAIN history \ ActivePeriods) :
       Begin(h, [kind |-> "deletePeriod", row |-> i, to |-> UtcDay(history[i].to), prev |-> p])
  /\ UNCHANGED salaryVars

\* The closed period before is extended over the deleted one.
DeletePeriodCommit(h) ==
  /\ Doing(h, "deletePeriod")
  /\ LET r == request[h]
     IN /\ r.prev # NoPeriod => Unheld(h, r.prev)
        /\ history' = Ended([j \in DOMAIN history \ {r.row} |-> history[j]], r.prev, r.to)
  /\ End(h)
  /\ UNCHANGED opened

SalaryNext ==
  \E h \in Requests :
    \/ \E from \in 1 .. MaxDay : RaiseRead(h, from)
    \/ \E i \in DOMAIN history :
         \/ \E from \in 1 .. MaxDay \union {UtcDay(history[i].from)} : EditPeriodRead(h, i, from)
         \/ DeletePeriodRead(h, i)
    \/ RaiseCommit(h) \/ EditPeriodCommit(h) \/ DeletePeriodCommit(h)
    \/ Abandon(h) /\ UNCHANGED salaryVars

SalarySpec == ServerInit /\ SalaryInit /\ [][SalaryNext]_<<request, salaryVars>>

----------------------------------------------------------------------------
\* effectiveBasicForMonth: the periods a payslip of that day may be based on.
Effective(day) == {i \in DOMAIN history :
                     /\ history[i].from <= day
                     /\ history[i].to = NoEnd \/ history[i].to >= day}

\* An employee who has a salary has exactly one from the last date on: raises,
\* edits and deletions at the same time leave neither two active periods, of
\* which payroll and the employee's page would each pick one, nor none.
OneActiveSalary == DOMAIN history # {} => Cardinality(Effective(MaxDay + 1)) = 1
============================================================================
