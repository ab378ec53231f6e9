----------------------------- MODULE Offboarding -----------------------------
(***************************************************************************)
(* Exits: request, decision, clearance checklist, full and final           *)
(* settlement, completion (offboarding.service.js), beside the asset       *)
(* register whose open assignments hold a settlement or an exit back.      *)
(*                                                                         *)
(* Only creating an exit is a transaction.  Every other handler reads,     *)
(* checks, and then updates by uuid alone, each statement on its own.      *)
(***************************************************************************)
EXTENDS Assets

CONSTANTS
  Exits,
  Tasks           \* the template of the clearance checklist

VARIABLES
  exit,           \* exit_requests, with checklist and final_settlements
  left,           \* employees whose status is ex_employee
  released        \* history: employees whom the completion of an exit made ex_employee

exitVars == <<exit, left, released>>

Open == {"pending", "approved"}

ExitRows == [employee   : Employees \union {Nobody},
             status     : {"absent", "pending", "approved", "rejected", "completed"},
             cleared    : SUBSET Tasks,
             settlement : {"none", "draft", "processed", "paid"}]

NoExit == [employee |-> Nobody, status |-> "absent", cleared |-> {}, settlement |-> "none"]

ExitRequests ==
  [kind : {"createExit"}, employee : Employees]
    \union [kind : {"decideExit"}, exit : Exits, decision : {"approved", "rejected"}]
    \union [kind : {"clearTask"}, exit : Exits, task : Tasks]
    \union [kind : {"draft"}, exit : Exits]
    \union [kind : {"settle"}, exit : Exits, target : {"processed", "paid"},
            step : {"assets", "write"}]
    \union [kind : {"complete"}, exit : Exits,
            step : {"assets", "checklist", "settlement", "write", "roster"}]

OffboardingTypeOK ==
  /\ AssetsTypeOK
  /\ exit \in [Exits -> ExitRows]
  /\ left \subseteq Employees
  /\ released \subseteq Employees
  /\ request \in [Requests -> {Idle} \union AssetRequests \union ExitRequests]

OffboardingInit ==
  /\ AssetsInit
  /\ exit = [x \in Exits |-> NoExit]
  /\ left = {}
  /\ released = {}

----------------------------------------------------------------------------
\* Requesting and deciding

HasOpenExit(e) == \E x \in Exits : exit[x].employee = e /\ exit[x].status \in Open

\* Mutant: no unique index behind the check.
UniqueOpenExitNone(x, e, status) == TRUE

\* uq_open_exit on (employee_uuid, open_exit_guard)
UniqueOpenExit(x, e, status) ==
  status \in Open => ~\E y \in Exits \ {x} : exit[y].employee = e /\ exit[y].status \in Open

CreateExitRead(h, e) ==
  /\ e \notin left
  /\ ~HasOpenExit(e)
  /\ Begin(h, [kind |-> "createExit", employee |-> e])
  /\ UNCHANGED <<exit, left, released, category, asset>>

\* The request and its checklist in one transaction, or the 409 of the index.
CreateExitInsert(h, x) ==
  /\ Doing(h, "createExit")
  /\ exit[x] = NoExit
  /\ LET e == request[h].employee
     IN IF UniqueOpenExit(x, e, "pending")
        THEN exit' = [exit EXCEPT ![x] = [NoExit EXCEPT !.employee = e, !.status = "pending"]]
        ELSE UNCHANGED exit
  /\ End(h)
  /\ UNCHANGED <<left, released, category, asset>>

DecideExitRead(h, x, decision) ==
  /\ exit[x].status = "pending"
  /\ Begin(h, [kind |-> "decideExit", exit |-> x, decision |-> decision])
  /\ UNCHANGED <<exit, left, released, category, asset>>

\* UPDATE ... WHERE uuid=?, whatever the status has become; the index may refuse.
DecideExitWrite(h) ==
  /\ Doing(h, "decideExit")
  /\ LET r == request[h]
     IN IF UniqueOpenExit(r.exit, exit[r.exit].employee, r.decision)
        THEN exit' = [exit EXCEPT ![r.exit].status = r.decision]
        ELSE UNCHANGED exit
  /\ End(h)
  /\ UNCHANGED <<left, released, category, asset>>

----------------------------------------------------------------------------
\* Clearance and settlement

ClearTaskRead(h, x, t) ==
  /\ exit[x].status \in {"approved", "completed"}
  /\ t \notin exit[x].cleared
  /\ Begin(h, [kind |-> "clearTask", exit |-> x, task |-> t])
  /\ UNCHANGED <<exit, left, released, category, asset>>

ClearTaskWrite(h) ==
  /\ Doing(h, "clearTask")
  /\ LET r == request[h]
     IN exit' = [exit EXCEPT ![r.exit].cleared = @ \union {r.task}]
  /\ End(h)
  /\ UNCHANGED <<left, released, category, asset>>

\* saveSettlement: the checks and the calculation, then the INSERT, one per exit.
DraftRead(h, x) ==
  /\ exit[x].status = "approved"
  /\ exit[x].settlement = "none"
  /\ Begin(h, [kind |-> "draft", exit |-> x])
  /\ UNCHANGED <<exit, left, released, category, asset>>

DraftInsert(h) ==
  /\ Doing(h, "draft")
  /\ LET x == request[h].exit
     IN exit' = IF exit[x].settlement = "none"
                THEN [exit EXCEPT ![x].settlement = "draft"] ELSE exit
  /\ End(h)
  /\ UNCHANGED <<left, released, category, asset>>

\* getOutstandingAssets
Outstanding(e) == {a \in Assets : asset[a].holder = e}

\* processSettlement: exit and settlement, then the assets, then the UPDATE.
SettleRead(h, x, target) ==
  /\ exit[x].status = "approved"
  /\ exit[x].settlement = IF target = "paid" THEN "processed" ELSE "draft"
  /\ Begin(h, [kind |-> "settle", exit |-> x, target |-> target, step |-> "assets"])
  /\ UNCHANGED <<exit, left, released, category, asset>>

SettleAssets(h) ==
  /\ Doing(h, "settle") /\ request[h].step = "assets"
  /\ LET r == request[h]
     IN IF Outstanding(exit[r.exit].employee) = {} THEN Go(h, [r EXCEPT !.step = "write"])
        ELSE End(h)
  /\ UNCHANGED <<exit, left, released, category, asset>>

SettleWrite(h) ==
  /\ Doing(h, "settle") /\ request[h].step = "write"
  /\ LET r == request[h] IN exit' = [exit EXCEPT ![r.exit].settlement = r.target]
  /\ End(h)
  /\ UNCHANGED <<left, released, category, asset>>

----------------------------------------------------------------------------
\* Completion: four reads, then two updates

CompleteRead(h, x) ==
  /\ exit[x].status = "approved"
  /\ Begin(h, [kind |-> "complete", exit |-> x, step |-> "assets"])
  /\ UNCHANGED <<exit, left, released, category, asset>>

\* A check passed leads to the next step, a check failed ends the request.
Check(h, from, ok, to) ==
  /\ Doing(h, "complete") /\ request[h].step = from
  /\ IF ok THEN Go(h, [request[h] EXCEPT !.step = to]) ELSE End(h)
  /\ UNCHANGED <<exit, left, released, category, asset>>

CompleteAssets(h) ==
  Check(h, "assets", Outstanding(exit[request[h].exit].employee) = {}, "checklist")

CompleteChecklist(h) ==
  Check(h, "checklist", exit[request[h].exit].cleared = Tasks, "settlement")

\* Mutant: a draft is enough.
CompleteSettlementDrafted(h) ==
  Check(h, "settlement", exit[request[h].exit].settlement # "none", "write")

CompleteSettlement(h) ==
  Check(h, "settlement", exit[request[h].exit].settlement \notin {"none", "draft"}, "write")

CompleteWrite(h) ==
  /\ Doing(h, "complete") /\ request[h].step = "write"
  /\ exit' = [exit EXCEPT ![request[h].exit].status = "completed"]
  /\ Go(h, [request[h] EXCEPT !.step = "roster"])
  /\ UNCHANGED <<left, released, category, asset>>

CompleteRoster(h) ==
  /\ Doing(h, "complete") /\ request[h].step = "roster"
  /\ LET e == exit[request[h].exit].employee
     IN /\ left' = left \union {e}
        /\ released' = released \union {e}
  /\ End(h)
  /\ UNCHANGED <<exit, category, asset>>

----------------------------------------------------------------------------
\* The employee pages write the same column, and ask about no exit: HR may set
\* any status by hand.  Creating an employee as ex_employee, or as a reference
\* only, is the first of these writes.
UpdateEmployee(e, status) ==
  /\ left' = IF status = "ex_employee" THEN left \union {e} ELSE left \ {e}
  /\ UNCHANGED <<exit, released, category, asset, request>>

ArchiveReference(e) == UpdateEmployee(e, "ex_employee")

----------------------------------------------------------------------------
OffboardingNext ==
  \/ AssetsNext /\ UNCHANGED exitVars
  \/ \E e \in Employees :
       \/ \E status \in {"current_employee", "ex_employee"} : UpdateEmployee(e, status)
       \/ ArchiveReference(e)
  \/ \E h \in Requests :
       \/ \E e \in Employees : CreateExitRead(h, e)
       \/ \E x \in Exits :
            \/ CreateExitInsert(h, x)
            \/ \E decision \in {"approved", "rejected"} : DecideExitRead(h, x, decision)
            \/ \E t \in Tasks : ClearTaskRead(h, x, t)
            \/ DraftRead(h, x)
            \/ \E target \in {"processed", "paid"} : SettleRead(h, x, target)
            \/ CompleteRead(h, x)
       \/ DecideExitWrite(h) \/ ClearTaskWrite(h) \/ DraftInsert(h)
       \/ SettleAssets(h) \/ SettleWrite(h)
       \/ CompleteAssets(h) \/ CompleteChecklist(h) \/ CompleteSettlement(h)
       \/ CompleteWrite(h) \/ CompleteRoster(h)
       \/ Abandon(h) /\ UNCHANGED <<custodyVars, exitVars>>

OffboardingSpec ==
  ServerInit /\ OffboardingInit
    /\ [][OffboardingNext]_<<request, custodyVars, exitVars>>

----------------------------------------------------------------------------
\* An employee has one exit in flight, also when two requests for it were
\* checked at the same time, or a late decision reopens an exit that was
\* rejected and asked for again (the rule in offboarding.controller.js).
OneOpenExit ==
  \A x, y \in Exits :
    (exit[x].employee = exit[y].employee /\ exit[x].status \in Open /\ exit[y].status \in Open)
      => x = y

\* An exit closes what it asked for: a completed exit has its whole checklist
\* and a processed settlement, and so has the exit of everybody whom a completion
\* made ex-employee, although each was read by a statement of its own before the
\* update (completeExit).  Of those whose status HR set by hand it says nothing.
ClosedExitIsSettled ==
  /\ \A x \in Exits : exit[x].status = "completed" =>
       exit[x].cleared = Tasks /\ exit[x].settlement \in {"processed", "paid"}
  /\ \A e \in released : \E x \in Exits :
       exit[x].employee = e /\ exit[x].cleared = Tasks
         /\ exit[x].settlement \in {"processed", "paid"}
============================================================================
