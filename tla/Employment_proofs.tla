------------------------------ MODULE Employment_proofs ------------------------
(* What an employee has and gives back: assets until the exit, salary periods *)
(* and leave.                                                                 *)
EXTENDS Offboarding, SalaryHistory, Leave, FiniteSetTheorems, WellFoundedInduction, TLAPS

----------------------------------------------------------------------------
\* Assets in custody, and exits.

\* A job that is being closed is open until then, has one closer, and lets the
\* asset be returned but not be handed out.
JobsBeingClosed ==
  \A g \in Requests : Doing(g, "closeJob") =>
    LET a == request[g].asset
    IN /\ asset[a].job
       /\ request[g].held \/ ~Held(a)
       /\ \A k \in Requests : Doing(k, "closeJob") /\ request[k].asset = a => k = g

CustodyInv ==
  /\ AssetsTypeOK
  /\ CustodyShown
  /\ JobsBeingClosed

\* An exit is cleared and paid out.
Settled(x) == exit[x].cleared = Tasks /\ exit[x].settlement \in {"processed", "paid"}

NamesExit == {"decideExit", "clearTask", "draft", "settle", "complete"}

\* Requests are about exits that somebody asked for.
ExitsAreNamed ==
  /\ \A x \in Exits : exit[x].status # "absent" => exit[x].employee \in Employees
  /\ \A h \in Requests : request[h].kind \in NamesExit => exit[request[h].exit].status # "absent"

\* What a completion has checked stays so until its updates.
CompletionsChecked ==
  \A h \in Requests : Doing(h, "complete") =>
    /\ request[h].step \in {"settlement", "write", "roster"}
         => exit[request[h].exit].cleared = Tasks
    /\ request[h].step \in {"write", "roster"} => Settled(request[h].exit)

ExitInv ==
  /\ exit \in [Exits -> ExitRows]
  /\ left \subseteq Employees /\ released \subseteq Employees
  /\ OneOpenExit
  /\ ClosedExitIsSettled
  /\ ExitsAreNamed
  /\ CompletionsChecked

RequestsTyped == request \in [Requests -> {Idle} \union AssetRequests \union ExitRequests]

OffboardingInv == CustodyInv /\ ExitInv /\ RequestsTyped

LEMMA InitOffboarding == ASSUME ServerInit, OffboardingInit PROVE OffboardingInv
<1>1. NoAsset \in AssetRows /\ NoExit \in ExitRows
  BY DEF NoAsset, AssetRows, NoExit, ExitRows
<1>2. CustodyInv
  BY <1>1 DEF ServerInit, OffboardingInit, AssetsInit, CustodyInv, AssetsTypeOK, CustodyShown,
              JobsBeingClosed, Held, NoAsset, Doing, Idle
<1>3. ExitInv
  BY <1>1 DEF ServerInit, OffboardingInit, ExitInv, OneOpenExit, ClosedExitIsSettled,
              ExitsAreNamed, CompletionsChecked, NoExit, Open, Doing, Idle, NamesExit
<1> QED BY <1>2, <1>3 DEF OffboardingInv, RequestsTyped, ServerInit

----------------------------------------------------------------------------
\* How a request moves.  Those of the other half of the desk stay.

\* No request is new among the kinds, and none of them goes on.
Stay(kinds) ==
  /\ RequestsTyped'
  /\ \A g \in Requests : request'[g].kind \in kinds => request'[g] = request[g]

Kinds == {"closeJob"} \union NamesExit

LEMMA Ends ==
  ASSUME OffboardingInv, NEW h \in Requests, End(h)
  PROVE  /\ Stay(Kinds)
         /\ \A g \in Requests : request'[g].kind \in Kinds => g # h
BY DEF OffboardingInv, RequestsTyped, End, Stay, Kinds, NamesExit, Idle

LEMMA BeginsExit ==
  ASSUME OffboardingInv, NEW h \in Requests, NEW r \in AssetRequests \union ExitRequests,
         Begin(h, r)
  PROVE  /\ RequestsTyped'
         /\ \A g \in Requests : request'[g] = IF g = h THEN r ELSE request[g]
BY DEF OffboardingInv, RequestsTyped, Begin

LEMMA GoesOnExit ==
  ASSUME OffboardingInv, NEW h \in Requests, NEW r \in AssetRequests \union ExitRequests,
         Go(h, r)
  PROVE  /\ RequestsTyped'
         /\ \A g \in Requests : request'[g] = IF g = h THEN r ELSE request[g]
BY DEF OffboardingInv, RequestsTyped, Go

\* Custody does not notice what happens to exits, and the other way around.
LEMMA CustodyStays ==
  ASSUME OffboardingInv, UNCHANGED custodyVars, Stay({"closeJob"})
  PROVE  CustodyInv'
BY DEF OffboardingInv, CustodyInv, AssetsTypeOK, CustodyShown, JobsBeingClosed, Held, Doing, Stay,
       custodyVars

LEMMA ExitsStay ==
  ASSUME OffboardingInv, UNCHANGED exitVars, Stay(NamesExit)
  PROVE  ExitInv'
BY DEF OffboardingInv, ExitInv, OneOpenExit, ClosedExitIsSettled, ExitsAreNamed,
       CompletionsChecked, Settled, Doing, Stay, exitVars, NamesExit

----------------------------------------------------------------------------
\* Custody

\* One row of the register is written: it shows its open rows, keeps an open
\* job that is being closed, and then is handed to nobody.
LEMMA AssetWritten ==
  ASSUME OffboardingInv, Stay({"closeJob"}), NEW a \in Assets, NEW row \in AssetRows,
         asset' = [asset EXCEPT ![a] = row],
         category' \in {"absent", "active", "inactive"},
         row.holder # Nobody => row.status \in {"assigned", "maintenance"},
         row.job => row.status = "maintenance",
         asset[a].job => row.job /\ row.holder \in {Nobody, asset[a].holder}
  PROVE  CustodyInv'
<1>1. \A b \in Assets : asset'[b] = IF b = a THEN row ELSE asset[b]
  BY DEF OffboardingInv, CustodyInv, AssetsTypeOK
<1>2. AssetsTypeOK'
  BY DEF OffboardingInv, CustodyInv, AssetsTypeOK
<1>3. CustodyShown'
  BY <1>1 DEF OffboardingInv, CustodyInv, CustodyShown, Held
<1>4. JobsBeingClosed'
  <2> SUFFICES ASSUME NEW g \in Requests, request'[g].kind = "closeJob"
               PROVE  LET b == request'[g].asset
                      IN /\ asset'[b].job
                         /\ request'[g].held \/ asset'[b].holder = Nobody
                         /\ \A k \in Requests :
                              request'[k].kind = "closeJob" /\ request'[k].asset = b => k = g
    BY DEF JobsBeingClosed, Doing, Held
  <2> DEFINE b == request[g].asset
  <2>1. request'[g] = request[g] /\ request[g].kind = "closeJob"
    BY DEF Stay
  <2>2. /\ asset[b].job
        /\ request[g].held \/ asset[b].holder = Nobody
        /\ \A k \in Requests : request[k].kind = "closeJob" /\ request[k].asset = b => k = g
    BY <2>1 DEF OffboardingInv, CustodyInv, JobsBeingClosed, Doing, Held
  <2>3. \A k \in Requests : request'[k].kind = "closeJob" /\ request'[k].asset = b => k = g
    BY <2>2 DEF Stay
  <2>4. b \in Assets
    BY <2>1 DEF OffboardingInv, RequestsTyped, AssetRequests, ExitRequests, Idle
  <2>5. asset'[b].job /\ (request[g].held \/ asset'[b].holder = Nobody)
    BY <1>1, <2>2, <2>4
  <2> QED BY <2>1, <2>3, <2>5
<1> QED BY <1>2, <1>3, <1>4 DEF CustodyInv

LEMMA SyncedShows ==
  ASSUME NEW row \in AssetRows, row.status # "retired"
  PROVE  LET new == Synced(row)
         IN /\ new \in AssetRows
            /\ new.holder = row.holder /\ new.job = row.job
            /\ new.holder # Nobody => new.status \in {"assigned", "maintenance"}
            /\ new.job => new.status = "maintenance"
BY DEF Synced, Shown, AssetRows

LEMMA UnrelatedBegins ==
  ASSUME OffboardingInv, NEW h \in Requests, NEW r \in AssetRequests \union ExitRequests,
         NEW kinds, Begin(h, r), r.kind \notin kinds
  PROVE  Stay(kinds)
BY BeginsExit DEF Stay

LEMMA UnrelatedGoesOn ==
  ASSUME OffboardingInv, NEW h \in Requests, NEW r \in AssetRequests \union ExitRequests,
         NEW kinds, Go(h, r), r.kind \notin kinds
  PROVE  Stay(kinds)
BY GoesOnExit DEF Stay

LEMMA NothingMoves ==
  ASSUME OffboardingInv, UNCHANGED request, NEW kinds PROVE Stay(kinds)
BY DEF OffboardingInv, RequestsTyped, Stay

LEMMA EndsAll ==
  ASSUME OffboardingInv, NEW h \in Requests, End(h)
  PROVE  RequestsTyped' /\ Stay({"closeJob"}) /\ Stay(NamesExit)
BY Ends DEF Stay, Kinds

LEMMA RowOfAsset ==
  ASSUME OffboardingInv, NEW a \in Assets
  PROVE  /\ asset[a] \in AssetRows
         /\ Held(a) => asset[a].status \in {"assigned", "maintenance"}
         /\ asset[a].job => asset[a].status = "maintenance"
         /\ Held(a) <=> asset[a].holder # Nobody
BY DEF OffboardingInv, CustodyInv, AssetsTypeOK, CustodyShown, Held

\* What AssetsNext does to custody, and that it leaves the requests of exits alone.
LEMMA StepCustody ==
  ASSUME OffboardingInv, AssetsNext
  PROVE  CustodyInv' /\ RequestsTyped' /\ Stay(NamesExit)
<1> USE CustodyAssumption
<1> DEFINE Goal == CustodyInv' /\ RequestsTyped' /\ Stay(NamesExit)
<1>0. OffboardingInv => AssetsTypeOK
  BY DEF OffboardingInv, CustodyInv
<1>1. CASE PutCategory
  <2>1. Stay({"closeJob"}) /\ Stay(NamesExit)
    BY <1>1, NothingMoves DEF PutCategory
  <2>2. CustodyInv'
    BY <1>1, <2>1 DEF PutCategory, OffboardingInv, CustodyInv, AssetsTypeOK, CustodyShown,
                      JobsBeingClosed, Held, Doing, Stay
  <2> QED BY <2>1, <2>2 DEF Stay
<1>2. ASSUME NEW h \in Requests, CountCategory(h) PROVE Goal
  <2>1. [kind |-> "deleteCategory"] \in AssetRequests \union ExitRequests
    BY DEF AssetRequests
  <2>2. Stay({"closeJob"}) /\ Stay(NamesExit)
    BY <1>2, <2>1, UnrelatedBegins DEF CountCategory, NamesExit
  <2> QED BY <1>2, <2>2, CustodyStays DEF CountCategory, Stay
<1>3. ASSUME NEW h \in Requests, DeleteCategory(h) PROVE Goal
  <2>1. Stay({"closeJob"}) /\ Stay(NamesExit)
    BY <1>3, EndsAll DEF DeleteCategory
  <2>2. \A g \in Requests : request'[g].kind # "closeJob"
    BY <1>3, <2>1 DEF DeleteCategory, Doing, Stay
  <2>3. NoAsset \in AssetRows
    BY DEF NoAsset, AssetRows
  <2>4. AssetsTypeOK' /\ CustodyShown' /\ JobsBeingClosed'
    BY <1>3, <2>2, <2>3 DEF DeleteCategory, AssetsTypeOK, CustodyShown, JobsBeingClosed, Doing,
                            Held, NoAsset
  <2> QED BY <2>1, <2>4 DEF Stay, CustodyInv
<1>4. ASSUME NEW h \in Requests, CreateAssetRead(h) PROVE Goal
  <2>1. [kind |-> "createAsset"] \in AssetRequests \union ExitRequests
    BY DEF AssetRequests
  <2>2. Stay({"closeJob"}) /\ Stay(NamesExit)
    BY <1>4, <2>1, UnrelatedBegins DEF CreateAssetRead, NamesExit
  <2> QED BY <1>4, <2>2, CustodyStays DEF CreateAssetRead, Stay
<1>5. ASSUME NEW h \in Requests, CreateAssetInsert(h) PROVE Goal
  <2>1. Stay({"closeJob"}) /\ Stay(NamesExit)
    BY <1>5, EndsAll DEF CreateAssetInsert
  <2>2. PICK a \in Assets : /\ asset[a] = NoAsset
                            /\ asset' = [asset EXCEPT ![a].status = "available"]
    BY <1>5 DEF CreateAssetInsert
  <2> DEFINE row == [NoAsset EXCEPT !.status = "available"]
  <2>3. row \in AssetRows /\ row.holder = Nobody /\ ~row.job /\ ~asset[a].job
    <3>1. NoAsset \in AssetRows /\ NoAsset.holder = Nobody /\ ~NoAsset.job
      BY DEF NoAsset, AssetRows
    <3> QED BY <2>2, <3>1 DEF AssetRows
  <2>4. asset' = [asset EXCEPT ![a] = row]
    BY <2>2, Zenon
  <2> HIDE DEF row
  <2>5. category' \in {"absent", "active", "inactive"}
    BY <1>0, <1>5 DEF CreateAssetInsert, AssetsTypeOK
  <2> QED BY <2>1, <2>3, <2>4, <2>5, AssetWritten DEF Stay
<1>6. ASSUME NEW h \in Requests, CloseJobCommit(h) PROVE Goal
  <2> DEFINE a == request[h].asset
             row == [asset[a] EXCEPT !.job = FALSE,
                                     !.status = IF @ = "retired" THEN @
                                                ELSE Shown(request[h].held, FALSE)]
  <2>1. RequestsTyped' /\ Stay({"closeJob"}) /\ Stay(NamesExit)
    BY <1>6, EndsAll DEF CloseJobCommit
  <2>2. a \in Assets /\ request[h].held \in BOOLEAN
    BY <1>6 DEF CloseJobCommit, Doing, OffboardingInv, RequestsTyped, AssetRequests,
                ExitRequests, Idle
  <2>3. /\ asset[a].job
        /\ request[h].held \/ asset[a].holder = Nobody
        /\ \A k \in Requests : request[k].kind = "closeJob" /\ request[k].asset = a => k = h
    BY <1>6 DEF CloseJobCommit, OffboardingInv, CustodyInv, JobsBeingClosed, Doing, Held
  <2>4. asset[a] \in AssetRows /\ asset[a].status = "maintenance"
    BY <2>2, <2>3, RowOfAsset
  <2>5. /\ row \in AssetRows /\ row.job = FALSE /\ row.holder = asset[a].holder
        /\ row.holder # Nobody => row.status = "assigned"
    BY <2>2, <2>3, <2>4 DEF AssetRows, Shown
  <2>6. asset' = [asset EXCEPT ![a] = row]
    BY <1>6, <2>4 DEF CloseJobCommit
  <2>7. \A k \in Requests : request'[k].kind = "closeJob" => k # h
    BY <1>6, Ends DEF CloseJobCommit, Kinds
  <2>8. \A k \in Requests : request'[k].kind = "closeJob" => request'[k].asset # a
    BY <2>1, <2>3, <2>7 DEF Stay
  <2> HIDE DEF a, row
  <2>9. \A b \in Assets : asset'[b] = IF b = a THEN row ELSE asset[b]
    BY <1>0, <2>6 DEF AssetsTypeOK
  <2>10. AssetsTypeOK'
    BY <1>0, <1>6, <2>2, <2>5, <2>6 DEF CloseJobCommit, AssetsTypeOK
  <2>11. CustodyShown'
    BY <2>5, <2>9 DEF OffboardingInv, CustodyInv, CustodyShown, Held
  <2>12. JobsBeingClosed'
    <3> SUFFICES ASSUME NEW g \in Requests, request'[g].kind = "closeJob"
                 PROVE  LET b == request'[g].asset
                        IN /\ asset'[b].job
                           /\ request'[g].held \/ asset'[b].holder = Nobody
                           /\ \A k \in Requests :
                                request'[k].kind = "closeJob" /\ request'[k].asset = b => k = g
      BY DEF JobsBeingClosed, Doing, Held
    <3> DEFINE b == request[g].asset
    <3>1. request'[g] = request[g] /\ request[g].kind = "closeJob" /\ b # a
      BY <2>1, <2>8 DEF Stay
    <3>2. /\ asset[b].job
          /\ request[g].held \/ asset[b].holder = Nobody
          /\ \A k \in Requests : request[k].kind = "closeJob" /\ request[k].asset = b => k = g
      BY <3>1 DEF OffboardingInv, CustodyInv, JobsBeingClosed, Doing, Held
    <3>3. \A k \in Requests : request'[k].kind = "closeJob" /\ request'[k].asset = b => k = g
      BY <2>1, <3>2 DEF Stay
    <3>4. b \in Assets
      BY <3>1 DEF OffboardingInv, RequestsTyped, AssetRequests, ExitRequests, Idle
    <3> QED BY <2>9, <3>1, <3>2, <3>3, <3>4
  <2> QED BY <2>1, <2>10, <2>11, <2>12 DEF CustodyInv
<1>7. ASSUME NEW h \in Requests, NEW a \in Assets, CloseJobRead(h, a) PROVE Goal
  <2> DEFINE r == [kind |-> "closeJob", asset |-> a, held |-> Held(a)]
  <2>1. r \in AssetRequests \union ExitRequests
    <3>1. Held(a) \in BOOLEAN
      BY DEF Held
    <3> QED BY <3>1 DEF AssetRequests
  <2>2. Stay(NamesExit)
    BY <1>7, <2>1, UnrelatedBegins DEF CloseJobRead, NamesExit
  <2>3. \A g \in Requests : request'[g] = IF g = h THEN r ELSE request[g]
    BY <1>7, <2>1, BeginsExit DEF CloseJobRead
  <2>4. asset' = asset /\ category' = category /\ asset[a].job
        /\ \A g \in Requests : request[g].kind = "closeJob" => request[g].asset # a
    BY <1>7 DEF CloseJobRead, custodyVars, Doing
  <2>5. JobsBeingClosed'
    <3> SUFFICES ASSUME NEW g \in Requests, request'[g].kind = "closeJob"
                 PROVE  LET b == request'[g].asset
                        IN /\ asset[b].job
                           /\ request'[g].held \/ ~Held(b)
                           /\ \A k \in Requests :
                                request'[k].kind = "closeJob" /\ request'[k].asset = b => k = g
      BY <2>4 DEF JobsBeingClosed, Doing, Held
    <3>1. CASE g = h
      BY <2>3, <2>4, <3>1
    <3>2. CASE g # h
      <4>1. request'[g] = request[g] /\ request[g].asset # a
        BY <2>3, <2>4, <3>2
      <4> QED BY <2>3, <2>4, <4>1 DEF OffboardingInv, CustodyInv, JobsBeingClosed, Doing
    <3> QED BY <3>1, <3>2
  <2>6. AssetsTypeOK' /\ CustodyShown'
    BY <2>4 DEF OffboardingInv, CustodyInv, AssetsTypeOK, CustodyShown, Held
  <2> QED BY <2>2, <2>5, <2>6 DEF Stay, CustodyInv
<1>8. ASSUME NEW a \in Assets,
             UNCHANGED <<category, request>>,
             NEW row \in AssetRows, asset' = [asset EXCEPT ![a] = row],
             row.holder # Nobody => row.status \in {"assigned", "maintenance"},
             row.job => row.status = "maintenance",
             asset[a].job => row.job /\ row.holder \in {Nobody, asset[a].holder}
      PROVE  Goal
  <2>1. Stay({"closeJob"}) /\ Stay(NamesExit)
    BY <1>8, NothingMoves
  <2> QED BY <1>0, <1>8, <2>1, AssetWritten DEF Stay, AssetsTypeOK
<1>9. ASSUME NEW a \in Assets, NEW e \in Employees, AssignAsset(a, e) PROVE Goal
  <2> DEFINE old == [asset[a] EXCEPT !.holder = e]
             row == Synced(old)
  <2>1. old \in AssetRows /\ old.status # "retired" /\ asset[a].job = FALSE
    BY <1>9, RowOfAsset DEF AssignAsset, AssetRows
  <2>2. asset' = [asset EXCEPT ![a] = row]
    BY <1>9 DEF AssignAsset
  <2> HIDE DEF old
  <2>3. /\ row \in AssetRows
        /\ row.holder # Nobody => row.status \in {"assigned", "maintenance"}
        /\ row.job => row.status = "maintenance"
    BY <2>1, SyncedShows
  <2> HIDE DEF row
  <2> QED BY <1>8, <1>9, <2>1, <2>2, <2>3 DEF AssignAsset
<1>10. ASSUME NEW a \in Assets, NEW condition, ReturnAsset(a, condition) PROVE Goal
  <2> DEFINE job == asset[a].job \/ condition # "good"
             old == [asset[a] EXCEPT !.holder = Nobody, !.job = job]
             row == Synced(old)
  <2>1. /\ old \in AssetRows /\ old.status # "retired" /\ old.holder = Nobody
        /\ asset[a].job => old.job
    <3>1. asset[a] \in AssetRows /\ asset[a].status # "retired" /\ job \in BOOLEAN
      BY <1>10, RowOfAsset DEF ReturnAsset
    <3>2. asset[a].job => job
      BY Zenon
    <3> HIDE DEF job
    <3> QED BY <3>1, <3>2 DEF AssetRows
  <2>2. asset' = [asset EXCEPT ![a] = row]
    BY <1>10 DEF ReturnAsset
  <2> HIDE DEF old
  <2>3. /\ row \in AssetRows /\ row.holder = Nobody
        /\ asset[a].job => row.job
        /\ row.job => row.status = "maintenance"
    BY <2>1, SyncedShows
  <2> HIDE DEF row
  <2> QED BY <1>8, <1>10, <2>1, <2>2, <2>3 DEF ReturnAsset
<1>11. ASSUME NEW a \in Assets, ReportMaintenance(a) PROVE Goal
  <2> DEFINE old == [asset[a] EXCEPT !.job = TRUE]
             row == Synced(old)
  <2>1. /\ old \in AssetRows /\ old.status # "retired" /\ asset[a].job = FALSE
    BY <1>11, RowOfAsset DEF ReportMaintenance, AssetRows
  <2>2. asset' = [asset EXCEPT ![a] = row]
    BY <1>11 DEF ReportMaintenance
  <2> HIDE DEF old
  <2>3. /\ row \in AssetRows
        /\ row.holder # Nobody => row.status \in {"assigned", "maintenance"}
        /\ row.job => row.status = "maintenance"
    BY <2>1, SyncedShows
  <2> HIDE DEF row
  <2> QED BY <1>8, <1>11, <2>1, <2>2, <2>3 DEF ReportMaintenance
<1>12. ASSUME NEW a \in Assets, RetireAsset(a) PROVE Goal
  <2> DEFINE row == [asset[a] EXCEPT !.status = "retired"]
  <2>1. asset[a] \in AssetRows /\ asset[a].holder = Nobody /\ asset[a].job = FALSE
    BY <1>12, RowOfAsset DEF RetireAsset, AssetRows
  <2>2. row \in AssetRows /\ row.holder = Nobody /\ row.job = FALSE
    BY <2>1 DEF AssetRows
  <2>3. asset' = [asset EXCEPT ![a] = row]
    BY <1>12 DEF RetireAsset
  <2> HIDE DEF row
  <2> QED BY <1>8, <1>12, <2>1, <2>2, <2>3 DEF RetireAsset
<1>13. ASSUME NEW a \in Assets, ReinstateAsset(a) PROVE Goal
  <2> DEFINE new == Shown(Held(a), asset[a].job)
             row == [asset[a] EXCEPT !.status = new]
  <2>1. asset[a] \in AssetRows
    BY RowOfAsset
  <2>2. /\ new \in {"available", "assigned", "maintenance"}
        /\ asset[a].holder # Nobody => new \in {"assigned", "maintenance"}
        /\ asset[a].job => new = "maintenance"
    BY DEF Shown, Held
  <2>3. asset' = [asset EXCEPT ![a] = row]
    BY <1>13 DEF ReinstateAsset
  <2> HIDE DEF new
  <2>4. /\ row \in AssetRows /\ row.holder = asset[a].holder /\ row.job = asset[a].job
        /\ row.status = new
    BY <2>1, <2>2 DEF AssetRows
  <2> HIDE DEF row
  <2> QED BY <1>8, <1>13, <2>2, <2>3, <2>4 DEF ReinstateAsset
<1> HIDE DEF Goal
<1>14. Goal
  BY <1>1, <1>2, <1>3, <1>4, <1>5, <1>6, <1>7, <1>9, <1>10, <1>11, <1>12, <1>13 DEF AssetsNext, Goal
<1> QED BY <1>14 DEF Goal

----------------------------------------------------------------------------
\* Exits

LEMMA ExitOfRequest ==
  ASSUME OffboardingInv, NEW h \in Requests, request[h].kind \in NamesExit
  PROVE  /\ request[h] \in ExitRequests
         /\ request[h].exit \in Exits /\ exit[request[h].exit].status # "absent"
         /\ Doing(h, "complete") =>
              /\ request[h].step \in {"settlement", "write", "roster"}
                   => exit[request[h].exit].cleared = Tasks
              /\ request[h].step \in {"write", "roster"} => Settled(request[h].exit)
<1>1. request[h] \in ExitRequests /\ request[h].exit \in Exits
  BY DEF OffboardingInv, RequestsTyped, NamesExit, AssetRequests, ExitRequests, Idle
<1>2. exit[request[h].exit].status # "absent"
  BY DEF OffboardingInv, ExitInv, ExitsAreNamed
<1> QED BY <1>1, <1>2 DEF OffboardingInv, ExitInv, CompletionsChecked

\* One exit is written: it stays asked for by the same employee, what was
\* cleared and paid stays so, and it is open only if no other one is.
LEMMA ExitWritten ==
  ASSUME OffboardingInv, Stay(NamesExit), UNCHANGED <<left, released>>,
         NEW x \in Exits, NEW row \in ExitRows,
         exit' = [exit EXCEPT ![x] = row],
         row.status # "absent", row.employee \in Employees,
         exit[x].employee \in Employees => row.employee = exit[x].employee,
         exit[x].cleared = Tasks => row.cleared = Tasks,
         exit[x].settlement \in {"processed", "paid"} => row.settlement \in {"processed", "paid"},
         row.status = "completed" =>
           row.cleared = Tasks /\ row.settlement \in {"processed", "paid"},
         row.status \in Open =>
           \A y \in Exits \ {x} : exit[y].employee = row.employee => exit[y].status \notin Open
  PROVE  ExitInv'
<1> USE CustodyAssumption
<1>1. \A y \in Exits : exit'[y] = IF y = x THEN row ELSE exit[y]
  BY DEF OffboardingInv, ExitInv
<1>2. /\ exit' \in [Exits -> ExitRows]
      /\ left' \subseteq Employees /\ released' \subseteq Employees
  BY DEF OffboardingInv, ExitInv
<1>3. OneOpenExit'
  BY <1>1 DEF OffboardingInv, ExitInv, OneOpenExit
<1>4. ClosedExitIsSettled'
  <2>1. \A y \in Exits : exit'[y].status = "completed" =>
          exit'[y].cleared = Tasks /\ exit'[y].settlement \in {"processed", "paid"}
    BY <1>1 DEF OffboardingInv, ExitInv, ClosedExitIsSettled
  <2>2. ASSUME NEW e \in released'
        PROVE  \E y \in Exits : exit'[y].employee = e /\ exit'[y].cleared = Tasks
                                  /\ exit'[y].settlement \in {"processed", "paid"}
    <3>1. PICK y \in Exits : exit[y].employee = e /\ exit[y].cleared = Tasks
                               /\ exit[y].settlement \in {"processed", "paid"}
      BY DEF OffboardingInv, ExitInv, ClosedExitIsSettled
    <3>2. e \in Employees
      BY DEF OffboardingInv, ExitInv
    <3> QED BY <1>1, <3>1, <3>2
  <2> QED BY <2>1, <2>2 DEF ClosedExitIsSettled
<1>5. ASSUME NEW h \in Requests, request'[h].kind \in NamesExit
      PROVE  /\ request'[h] = request[h] /\ request[h].exit \in Exits
             /\ exit[request[h].exit].status # "absent"
  <2>1. request'[h] = request[h]
    BY <1>5 DEF Stay
  <2> QED BY <1>5, <2>1, ExitOfRequest
<1>6. ExitsAreNamed'
  BY <1>1, <1>5 DEF OffboardingInv, ExitInv, ExitsAreNamed
<1>7. CompletionsChecked'
  <2> SUFFICES ASSUME NEW h \in Requests, request'[h].kind = "complete"
               PROVE  LET y == request'[h].exit
                      IN /\ request'[h].step \in {"settlement", "write", "roster"}
                              => exit'[y].cleared = Tasks
                         /\ request'[h].step \in {"write", "roster"}
                              => /\ exit'[y].cleared = Tasks
                                 /\ exit'[y].settlement \in {"processed", "paid"}
    BY DEF CompletionsChecked, Doing, Settled
  <2> DEFINE y == request[h].exit
  <2>1. request'[h] = request[h] /\ y \in Exits /\ request[h].kind = "complete"
    BY <1>5 DEF NamesExit
  <2>2. /\ request[h].step \in {"settlement", "write", "roster"} => exit[y].cleared = Tasks
        /\ request[h].step \in {"write", "roster"}
             => /\ exit[y].cleared = Tasks
                /\ exit[y].settlement \in {"processed", "paid"}
    BY <2>1 DEF OffboardingInv, ExitInv, CompletionsChecked, Doing, Settled
  <2> QED BY <1>1, <2>1, <2>2
<1> QED BY <1>2, <1>3, <1>4, <1>6, <1>7 DEF ExitInv

\* A request about an exit begins or goes on; a completion only with what it has checked.
LEMMA ExitRequestMoves ==
  ASSUME OffboardingInv, UNCHANGED exitVars, NEW h \in Requests, NEW r \in ExitRequests,
         \A g \in Requests : request'[g] = IF g = h THEN r ELSE request[g],
         r.kind \in NamesExit => exit[r.exit].status # "absent",
         r.kind = "complete" =>
           /\ r.step \in {"settlement", "write", "roster"} => exit[r.exit].cleared = Tasks
           /\ r.step \in {"write", "roster"} => Settled(r.exit)
  PROVE  ExitInv'
BY DEF OffboardingInv, ExitInv, OneOpenExit, ClosedExitIsSettled, ExitsAreNamed,
       CompletionsChecked, Settled, Doing, exitVars

LEMMA RowOfExit ==
  ASSUME OffboardingInv, NEW x \in Exits
  PROVE  /\ exit[x] \in ExitRows
         /\ exit[x].status = "completed" =>
              exit[x].cleared = Tasks /\ exit[x].settlement \in {"processed", "paid"}
         /\ exit[x].status # "absent" => exit[x].employee \in Employees
         /\ exit[x].status \in Open => \A y \in Exits \ {x} :
              exit[y].employee = exit[x].employee => exit[y].status \notin Open
BY DEF OffboardingInv, ExitInv, ClosedExitIsSettled, ExitsAreNamed, OneOpenExit

LEMMA StepExit ==
  ASSUME OffboardingInv, OffboardingNext, ~(AssetsNext /\ UNCHANGED exitVars)
  PROVE  OffboardingInv'
<1> USE CustodyAssumption
<1>1. ASSUME ExitInv', RequestsTyped', UNCHANGED custodyVars, Stay({"closeJob"})
      PROVE  OffboardingInv'
  BY <1>1, CustodyStays DEF OffboardingInv
<1>2. ASSUME NEW h \in Requests, NEW r \in ExitRequests, Begin(h, r) \/ Go(h, r),
             UNCHANGED <<exit, left, released, category, asset>>,
             r.kind \in NamesExit => exit[r.exit].status # "absent",
             r.kind = "complete" =>
               /\ r.step \in {"settlement", "write", "roster"} => exit[r.exit].cleared = Tasks
               /\ r.step \in {"write", "roster"} => Settled(r.exit)
      PROVE  OffboardingInv'
  <2>1. /\ RequestsTyped'
        /\ \A g \in Requests : request'[g] = IF g = h THEN r ELSE request[g]
    BY <1>2, BeginsExit, GoesOnExit
  <2>2. r.kind # "closeJob"
    BY DEF ExitRequests
  <2>3. ExitInv'
    BY <1>2, <2>1, ExitRequestMoves DEF exitVars
  <2> QED BY <1>1, <1>2, <2>1, <2>2, <2>3 DEF custodyVars, Stay
<1>3. ASSUME NEW h \in Requests, End(h), UNCHANGED <<exit, left, released, category, asset>>
      PROVE  OffboardingInv'
  BY <1>1, <1>3, EndsAll, ExitsStay DEF custodyVars, exitVars
<1>4. ASSUME NEW h \in Requests, End(h), UNCHANGED <<left, released, category, asset>>,
             NEW x \in Exits, NEW row \in ExitRows,
             exit' = [exit EXCEPT ![x] = row],
             row.status # "absent", row.employee \in Employees,
             exit[x].employee \in Employees => row.employee = exit[x].employee,
             exit[x].cleared = Tasks => row.cleared = Tasks,
             exit[x].settlement \in {"processed", "paid"} => row.settlement \in {"processed", "paid"},
             row.status = "completed" =>
               row.cleared = Tasks /\ row.settlement \in {"processed", "paid"},
             row.status \in Open =>
               \A y \in Exits \ {x} : exit[y].employee = row.employee => exit[y].status \notin Open
      PROVE  OffboardingInv'
  <2>1. RequestsTyped' /\ Stay({"closeJob"}) /\ Stay(NamesExit)
    BY <1>4, EndsAll
  <2>2. ExitInv'
    BY <1>4, <2>1, ExitWritten
  <2> QED BY <1>1, <1>4, <2>1, <2>2 DEF custodyVars
<1>5. ASSUME NEW h \in Requests, NEW e \in Employees, CreateExitRead(h, e)
      PROVE  OffboardingInv'
  <2>1. [kind |-> "createExit", employee |-> e] \in ExitRequests
    BY DEF ExitRequests
  <2> QED BY <1>2, <1>5, <2>1 DEF CreateExitRead, NamesExit
<1>6. ASSUME NEW h \in Requests, NEW x \in Exits, CreateExitInsert(h, x)
      PROVE  OffboardingInv'
  <2> DEFINE e == request[h].employee
             row == [NoExit EXCEPT !.employee = e, !.status = "pending"]
  <2>1. e \in Employees
    BY <1>6 DEF CreateExitInsert, Doing, OffboardingInv, RequestsTyped, AssetRequests,
                ExitRequests, Idle
  <2>2. CASE UniqueOpenExit(x, e, "pending")
    <3>1. /\ row \in ExitRows /\ row.status = "pending" /\ row.employee = e
          /\ row.cleared = {} /\ row.settlement = "none"
      BY <2>1 DEF NoExit, ExitRows
    <3>2. exit[x].employee = Nobody /\ exit[x].cleared = {} /\ exit[x].settlement = "none"
      BY <1>6 DEF CreateExitInsert, NoExit
    <3>3. exit' = [exit EXCEPT ![x] = row]
      BY <1>6, <2>2 DEF CreateExitInsert
    <3>4. \A y \in Exits \ {x} : exit[y].employee = e => exit[y].status \notin Open
      BY <2>2 DEF UniqueOpenExit, Open
    <3> HIDE DEF row, e
    <3> QED BY <1>4, <1>6, <2>1, <3>1, <3>2, <3>3, <3>4 DEF CreateExitInsert
  <2>3. CASE ~UniqueOpenExit(x, e, "pending")
    BY <1>3, <1>6, <2>3 DEF CreateExitInsert
  <2> QED BY <2>2, <2>3
<1>7. ASSUME NEW h \in Requests, NEW x \in Exits, NEW d \in {"approved", "rejected"},
             DecideExitRead(h, x, d)
      PROVE  OffboardingInv'
  <2>1. [kind |-> "decideExit", exit |-> x, decision |-> d] \in ExitRequests
    BY DEF ExitRequests
  <2> QED BY <1>2, <1>7, <2>1 DEF DecideExitRead
<1>8. ASSUME NEW h \in Requests, DecideExitWrite(h) PROVE OffboardingInv'
  <2> DEFINE x == request[h].exit
             d == request[h].decision
             row == [exit[x] EXCEPT !.status = d]
  <2>1. x \in Exits /\ exit[x].status # "absent" /\ request[h] \in ExitRequests
    BY <1>8, ExitOfRequest DEF DecideExitWrite, Doing, NamesExit
  <2>2. d \in {"approved", "rejected"}
    BY <1>8, <2>1 DEF DecideExitWrite, Doing, ExitRequests
  <2>3. exit[x] \in ExitRows /\ exit[x].employee \in Employees
    BY <2>1, RowOfExit
  <2> HIDE DEF d
  <2>4. /\ row \in ExitRows /\ row.status = d /\ row.employee = exit[x].employee
        /\ row.cleared = exit[x].cleared /\ row.settlement = exit[x].settlement
    BY <2>2, <2>3 DEF ExitRows
  <2>5. CASE UniqueOpenExit(x, exit[x].employee, d)
    <3>1. exit' = [exit EXCEPT ![x] = row]
      BY <1>8, <2>5 DEF DecideExitWrite, d
    <3>2. row.status \in Open =>
            \A y \in Exits \ {x} : exit[y].employee = row.employee => exit[y].status \notin Open
      BY <2>4, <2>5 DEF UniqueOpenExit
    <3> HIDE DEF row, x
    <3> QED BY <1>4, <1>8, <2>1, <2>2, <2>3, <2>4, <3>1, <3>2 DEF DecideExitWrite
  <2>6. CASE ~UniqueOpenExit(x, exit[x].employee, d)
    BY <1>3, <1>8, <2>6 DEF DecideExitWrite, d
  <2> QED BY <2>5, <2>6
<1>9. ASSUME NEW h \in Requests, NEW x \in Exits, NEW t \in Tasks, ClearTaskRead(h, x, t)
      PROVE  OffboardingInv'
  <2>1. [kind |-> "clearTask", exit |-> x, task |-> t] \in ExitRequests
    BY DEF ExitRequests
  <2> QED BY <1>2, <1>9, <2>1 DEF ClearTaskRead
<1>10. ASSUME NEW h \in Requests, ClearTaskWrite(h) PROVE OffboardingInv'
  <2> DEFINE x == request[h].exit
             t == request[h].task
             row == [exit[x] EXCEPT !.cleared = @ \union {t}]
  <2>1. x \in Exits /\ exit[x].status # "absent" /\ request[h] \in ExitRequests
    BY <1>10, ExitOfRequest DEF ClearTaskWrite, Doing, NamesExit
  <2>2. t \in Tasks
    BY <1>10, <2>1 DEF ClearTaskWrite, Doing, ExitRequests
  <2>3. /\ exit[x] \in ExitRows /\ exit[x].employee \in Employees
        /\ exit[x].status = "completed" =>
             exit[x].cleared = Tasks /\ exit[x].settlement \in {"processed", "paid"}
        /\ exit[x].status \in Open => \A y \in Exits \ {x} :
             exit[y].employee = exit[x].employee => exit[y].status \notin Open
    BY <2>1, RowOfExit
  <2>4. exit' = [exit EXCEPT ![x] = row]
    BY <1>10 DEF ClearTaskWrite
  <2> HIDE DEF t
  <2>5. /\ row \in ExitRows /\ row.status = exit[x].status /\ row.employee = exit[x].employee
        /\ row.cleared = exit[x].cleared \union {t} /\ row.settlement = exit[x].settlement
    BY <2>2, <2>3 DEF ExitRows
  <2>6. exit[x].cleared = Tasks => row.cleared = Tasks
    BY <2>2, <2>5
  <2> HIDE DEF row, x
  <2> QED BY <1>4, <1>10, <2>1, <2>3, <2>4, <2>5, <2>6 DEF ClearTaskWrite
<1>11. ASSUME NEW h \in Requests, NEW x \in Exits, DraftRead(h, x) PROVE OffboardingInv'
  <2>1. [kind |-> "draft", exit |-> x] \in ExitRequests
    BY DEF ExitRequests
  <2> QED BY <1>2, <1>11, <2>1 DEF DraftRead
<1>12. ASSUME NEW h \in Requests, NEW x \in Exits, exit[x].status # "absent",
              NEW s \in {"none", "draft", "processed", "paid"},
              s \in {"none", "draft"} => exit[x].settlement \in {"none", "draft"},
              exit' = [exit EXCEPT ![x].settlement = s],
              End(h), UNCHANGED <<left, released, category, asset>>
       PROVE  OffboardingInv'
  <2> DEFINE row == [exit[x] EXCEPT !.settlement = s]
  <2>1. /\ exit[x] \in ExitRows /\ exit[x].employee \in Employees
        /\ exit[x].status = "completed" =>
             exit[x].cleared = Tasks /\ exit[x].settlement \in {"processed", "paid"}
        /\ exit[x].status \in Open => \A y \in Exits \ {x} :
             exit[y].employee = exit[x].employee => exit[y].status \notin Open
    BY <1>12, RowOfExit
  <2>2. exit' = [exit EXCEPT ![x] = row]
    BY <1>12
  <2>3. /\ row \in ExitRows /\ row.status = exit[x].status /\ row.employee = exit[x].employee
        /\ row.cleared = exit[x].cleared /\ row.settlement = s
    BY <2>1 DEF ExitRows
  <2>4. exit[x].settlement \in {"processed", "paid"} => s \in {"processed", "paid"}
    BY <1>12
  <2> HIDE DEF row
  <2>5. /\ row.status = "completed" =>
             row.cleared = Tasks /\ row.settlement \in {"processed", "paid"}
        /\ row.status \in Open => \A y \in Exits \ {x} :
             exit[y].employee = row.employee => exit[y].status \notin Open
        /\ row.status # "absent" /\ row.employee = exit[x].employee
        /\ row.employee \in Employees
        /\ exit[x].cleared = Tasks => row.cleared = Tasks
        /\ exit[x].settlement \in {"processed", "paid"} => row.settlement \in {"processed", "paid"}
    BY <1>12, <2>1, <2>3, <2>4
  <2>6. row \in ExitRows
    BY <2>3
  <2>7. End(h) /\ UNCHANGED <<left, released, category, asset>>
    BY <1>12
  <2> QED BY <1>4, <2>2, <2>5, <2>6, <2>7
<1>13. ASSUME NEW h \in Requests, DraftInsert(h) PROVE OffboardingInv'
  <2> DEFINE x == request[h].exit
  <2>1. x \in Exits /\ exit[x].status # "absent"
    BY <1>13, ExitOfRequest DEF DraftInsert, Doing, NamesExit
  <2>2. CASE exit[x].settlement = "none"
    <3>1. exit' = [exit EXCEPT ![x].settlement = "draft"]
      BY <1>13, <2>2 DEF DraftInsert
    <3> HIDE DEF x
    <3> QED BY <1>12, <1>13, <2>1, <2>2, <3>1 DEF DraftInsert
  <2>3. CASE exit[x].settlement # "none"
    BY <1>3, <1>13, <2>3 DEF DraftInsert
  <2> QED BY <2>2, <2>3
<1>14. ASSUME NEW h \in Requests, NEW x \in Exits, NEW target \in {"processed", "paid"},
              SettleRead(h, x, target)
       PROVE  OffboardingInv'
  <2>1. [kind |-> "settle", exit |-> x, target |-> target, step |-> "assets"] \in ExitRequests
    BY DEF ExitRequests
  <2> QED BY <1>2, <1>14, <2>1 DEF SettleRead
<1>15. ASSUME NEW h \in Requests, SettleAssets(h) PROVE OffboardingInv'
  <2> DEFINE r == [request[h] EXCEPT !.step = "write"]
  <2>1. /\ request[h] \in ExitRequests /\ request[h].kind = "settle"
        /\ exit[request[h].exit].status # "absent"
    BY <1>15, ExitOfRequest DEF SettleAssets, Doing, NamesExit
  <2>2. r \in ExitRequests /\ r.kind = "settle" /\ r.exit = request[h].exit
    BY <2>1 DEF ExitRequests
  <2>3. Go(h, r) \/ End(h)
    BY <1>15 DEF SettleAssets
  <2> HIDE DEF r
  <2> QED BY <1>2, <1>3, <1>15, <2>1, <2>2, <2>3 DEF SettleAssets
<1>16. ASSUME NEW h \in Requests, SettleWrite(h) PROVE OffboardingInv'
  <2> DEFINE x == request[h].exit
             s == request[h].target
  <2>1. x \in Exits /\ exit[x].status # "absent" /\ request[h] \in ExitRequests
    BY <1>16, ExitOfRequest DEF SettleWrite, Doing, NamesExit
  <2>2. s \in {"processed", "paid"}
    BY <1>16, <2>1 DEF SettleWrite, Doing, ExitRequests
  <2>3. exit' = [exit EXCEPT ![x].settlement = s]
    BY <1>16 DEF SettleWrite
  <2> HIDE DEF x, s
  <2> QED BY <1>12, <1>16, <2>1, <2>2, <2>3 DEF SettleWrite
<1>17. ASSUME NEW h \in Requests, NEW x \in Exits, CompleteRead(h, x) PROVE OffboardingInv'
  <2>1. [kind |-> "complete", exit |-> x, step |-> "assets"] \in ExitRequests
    BY DEF ExitRequests
  <2> QED BY <1>2, <1>17, <2>1 DEF CompleteRead
<1>18. ASSUME NEW h \in Requests, NEW from \in {"assets", "checklist", "settlement"},
              NEW to \in {"checklist", "settlement", "write"}, NEW ok, Check(h, from, ok, to),
              ok /\ to \in {"settlement", "write"} => exit[request[h].exit].cleared = Tasks,
              ok /\ to = "write" => Settled(request[h].exit)
       PROVE  OffboardingInv'
  <2> DEFINE r == [request[h] EXCEPT !.step = to]
  <2>1. /\ request[h] \in ExitRequests /\ request[h].kind = "complete"
        /\ exit[request[h].exit].status # "absent"
    BY <1>18, ExitOfRequest DEF Check, Doing, NamesExit
  <2>2. r \in ExitRequests /\ r.kind = "complete" /\ r.exit = request[h].exit /\ r.step = to
    BY <2>1 DEF ExitRequests
  <2>3. CASE ok
    <3>1. Go(h, r) /\ UNCHANGED <<exit, left, released, category, asset>>
      BY <1>18, <2>3 DEF Check
    <3> HIDE DEF r
    <3> QED BY <1>2, <1>18, <2>1, <2>2, <2>3, <3>1
  <2>4. CASE ~ok
    BY <1>3, <1>18, <2>4 DEF Check
  <2> QED BY <2>3, <2>4
<1>19. ASSUME NEW h \in Requests, CompleteAssets(h) PROVE OffboardingInv'
  BY <1>18, <1>19 DEF CompleteAssets
<1>20. ASSUME NEW h \in Requests, CompleteChecklist(h) PROVE OffboardingInv'
  BY <1>18, <1>20 DEF CompleteChecklist
<1>21. ASSUME NEW h \in Requests, CompleteSettlement(h) PROVE OffboardingInv'
  <2> DEFINE x == request[h].exit
             ok == exit[x].settlement \notin {"none", "draft"}
  <2>1. x \in Exits /\ exit[x].cleared = Tasks
    BY <1>21, ExitOfRequest DEF CompleteSettlement, Check, Doing, NamesExit
  <2>2. ok => Settled(x)
    <3>1. exit[x] \in ExitRows
      BY <2>1, RowOfExit
    <3> QED BY <2>1, <3>1 DEF Settled, ExitRows
  <2>3. Check(h, "settlement", ok, "write")
    BY <1>21 DEF CompleteSettlement
  <2> HIDE DEF ok
  <2> QED BY <1>18, <2>1, <2>2, <2>3
<1>22. ASSUME NEW h \in Requests, CompleteWrite(h) PROVE OffboardingInv'
  <2> DEFINE x == request[h].exit
             row == [exit[x] EXCEPT !.status = "completed"]
             r == [request[h] EXCEPT !.step = "roster"]
  <2>1. /\ x \in Exits /\ exit[x].status # "absent" /\ request[h] \in ExitRequests
        /\ Settled(x) /\ request[h].kind = "complete"
    BY <1>22, ExitOfRequest DEF CompleteWrite, Doing, NamesExit
  <2>2. r \in ExitRequests /\ r.kind = "complete" /\ r.exit = x /\ r.step = "roster"
    BY <2>1 DEF ExitRequests
  <2>3. /\ RequestsTyped'
        /\ \A g \in Requests : request'[g] = IF g = h THEN r ELSE request[g]
    BY <1>22, <2>2, GoesOnExit DEF CompleteWrite
  <2>4. exit[x] \in ExitRows /\ exit[x].employee \in Employees
    BY <2>1, RowOfExit
  <2>5. /\ row \in ExitRows /\ row.status = "completed" /\ row.employee = exit[x].employee
        /\ row.cleared = exit[x].cleared /\ row.settlement = exit[x].settlement
    BY <2>4 DEF ExitRows
  <2>6. exit' = [exit EXCEPT ![x] = row]
    BY <1>22 DEF CompleteWrite
  <2> HIDE DEF row, r, x
  <2>7. ExitInv'
    <3>1. \A y \in Exits : exit'[y] = IF y = x THEN row ELSE exit[y]
      BY <2>6 DEF OffboardingInv, ExitInv
    <3>2. /\ exit' \in [Exits -> ExitRows] /\ left' = left /\ left \subseteq Employees
          /\ released' = released /\ released \subseteq Employees
      BY <1>22, <2>5, <2>6 DEF OffboardingInv, ExitInv, CompleteWrite
    <3>3. OneOpenExit'
      BY <2>5, <3>1 DEF OffboardingInv, ExitInv, OneOpenExit, Open
    <3>4. ClosedExitIsSettled'
      BY <2>1, <2>5, <3>1, <3>2 DEF OffboardingInv, ExitInv, ClosedExitIsSettled, Settled
    <3>5. ExitsAreNamed'
      <4>1. \A y \in Exits : exit'[y].status # "absent" => exit'[y].employee \in Employees
        BY <2>4, <2>5, <3>1 DEF OffboardingInv, ExitInv, ExitsAreNamed
      <4>2. ASSUME NEW g \in Requests, request'[g].kind \in NamesExit
            PROVE  exit'[request'[g].exit].status # "absent"
        <5>1. CASE g = h
          BY <2>1, <2>2, <2>3, <2>5, <3>1, <5>1
        <5>2. CASE g # h
          <6>1. /\ request'[g] = request[g] /\ request[g].exit \in Exits
                /\ exit[request[g].exit].status # "absent"
            BY <2>3, <4>2, <5>2, ExitOfRequest
          <6> QED BY <2>5, <3>1, <6>1
        <5> QED BY <5>1, <5>2
      <4> QED BY <4>1, <4>2 DEF ExitsAreNamed
    <3>6. \A y \in Exits : /\ exit'[y].cleared = exit[y].cleared
                           /\ exit'[y].settlement = exit[y].settlement
      BY <2>5, <3>1
    <3>7. CompletionsChecked'
      <4> SUFFICES ASSUME NEW g \in Requests, request'[g].kind = "complete"
                   PROVE  LET y == request'[g].exit
                          IN /\ request'[g].step \in {"settlement", "write", "roster"}
                                  => exit'[y].cleared = Tasks
                             /\ request'[g].step \in {"write", "roster"}
                                  => /\ exit'[y].cleared = Tasks
                                     /\ exit'[y].settlement \in {"processed", "paid"}
        BY DEF CompletionsChecked, Doing, Settled
      <4>1. CASE g = h
        BY <2>1, <2>2, <2>3, <3>6, <4>1 DEF Settled
      <4>2. CASE g # h
        <5> DEFINE y == request[g].exit
        <5>1. /\ request'[g] = request[g] /\ y \in Exits
              /\ request[g].step \in {"settlement", "write", "roster"} => exit[y].cleared = Tasks
              /\ request[g].step \in {"write", "roster"}
                   => exit[y].cleared = Tasks /\ exit[y].settlement \in {"processed", "paid"}
          BY <2>3, <4>2, ExitOfRequest DEF Doing, NamesExit, Settled
        <5> QED BY <3>6, <5>1
      <4> QED BY <4>1, <4>2
    <3> QED BY <3>2, <3>3, <3>4, <3>5, <3>7 DEF ExitInv
  <2>8. Stay({"closeJob"})
    BY <2>2, <2>3 DEF Stay
  <2> QED BY <1>1, <1>22, <2>3, <2>7, <2>8 DEF CompleteWrite, custodyVars
<1>23. ASSUME NEW h \in Requests, CompleteRoster(h) PROVE OffboardingInv'
  <2> DEFINE x == request[h].exit
  <2>1. x \in Exits /\ exit[x].status # "absent" /\ Settled(x) /\ exit[x].employee \in Employees
    BY <1>23, ExitOfRequest, RowOfExit DEF CompleteRoster, Doing, NamesExit
  <2>2. RequestsTyped' /\ Stay({"closeJob"}) /\ Stay(NamesExit)
    BY <1>23, EndsAll DEF CompleteRoster
  <2>3. /\ exit' = exit
        /\ left' = left \union {exit[x].employee}
        /\ released' = released \union {exit[x].employee}
    BY <1>23 DEF CompleteRoster
  <2> HIDE DEF x
  <2>4. ClosedExitIsSettled'
    BY <2>1, <2>3 DEF OffboardingInv, ExitInv, ClosedExitIsSettled, Settled
  <2>5. /\ exit' \in [Exits -> ExitRows] /\ OneOpenExit'
        /\ left' \subseteq Employees /\ released' \subseteq Employees
    BY <2>1, <2>3 DEF OffboardingInv, ExitInv, OneOpenExit
  <2>6. ExitsAreNamed' /\ CompletionsChecked'
    BY <2>2, <2>3 DEF OffboardingInv, ExitInv, ExitsAreNamed, CompletionsChecked, Stay, Settled,
                      Doing, NamesExit
  <2> QED BY <1>1, <1>23, <2>2, <2>4, <2>5, <2>6 DEF CompleteRoster, custodyVars, ExitInv
<1>24. ASSUME NEW h \in Requests, Abandon(h), UNCHANGED <<custodyVars, exitVars>>
       PROVE  OffboardingInv'
  BY <1>3, <1>24 DEF Abandon, custodyVars, exitVars
<1>25. ASSUME NEW e \in Employees, NEW status, UpdateEmployee(e, status) PROVE OffboardingInv'
  <2>1. /\ left' \subseteq Employees
        /\ UNCHANGED <<exit, released, category, asset, request>>
    BY <1>25 DEF UpdateEmployee, OffboardingInv, ExitInv
  <2>2. ExitInv'
    BY <2>1 DEF OffboardingInv, ExitInv, OneOpenExit, ClosedExitIsSettled, ExitsAreNamed,
                CompletionsChecked, Settled, Doing, NamesExit
  <2>3. CustodyInv' /\ RequestsTyped'
    BY <2>1, NothingMoves, CustodyStays DEF OffboardingInv, custodyVars, RequestsTyped, Stay
  <2> QED BY <2>2, <2>3 DEF OffboardingInv
<1>26. ASSUME NEW e \in Employees, ArchiveReference(e) PROVE OffboardingInv'
  BY <1>25, <1>26 DEF ArchiveReference
<1> QED
  BY <1>5, <1>6, <1>7, <1>8, <1>9, <1>10, <1>11, <1>13, <1>14, <1>15, <1>16, <1>17, <1>19,
     <1>20, <1>21, <1>22, <1>23, <1>24, <1>25, <1>26 DEF OffboardingNext

LEMMA StepOffboarding ==
  ASSUME OffboardingInv, [OffboardingNext]_<<request, custodyVars, exitVars>>
  PROVE  OffboardingInv'
<1>1. CASE AssetsNext /\ UNCHANGED exitVars
  BY <1>1, StepCustody, ExitsStay DEF OffboardingInv
<1>2. CASE UNCHANGED <<request, custodyVars, exitVars>>
  BY <1>2, NothingMoves, CustodyStays, ExitsStay DEF OffboardingInv, Stay
<1>3. CASE OffboardingNext /\ ~(AssetsNext /\ UNCHANGED exitVars)
  BY <1>3, StepExit
<1> QED BY <1>1, <1>2, <1>3

LEMMA OffboardingInvariant == OffboardingSpec => []OffboardingInv
<1>1. ServerInit /\ OffboardingInit => OffboardingInv
  BY InitOffboarding
<1>2. OffboardingInv /\ [OffboardingNext]_<<request, custodyVars, exitVars>> => OffboardingInv'
  BY StepOffboarding
<1> QED BY <1>1, <1>2, PTL DEF OffboardingSpec

\* What somebody holds, or is on the bench, shows in the register (assets.service.js).
THEOREM CustodyIsShown == OffboardingSpec => []CustodyShown
<1>1. OffboardingInv => CustodyShown
  BY DEF OffboardingInv, CustodyInv
<1> QED BY <1>1, OffboardingInvariant, PTL

\* Nobody has two exits in flight (createExit and decideExit against uq_open_exit).
THEOREM OneExitInFlight == OffboardingSpec => []OneOpenExit
<1>1. OffboardingInv => OneOpenExit
  BY DEF OffboardingInv, ExitInv
<1> QED BY <1>1, OffboardingInvariant, PTL

\* A completed exit, and the exit of everybody whom a completion made ex-employee,
\* was cleared and settled (completeExit).
THEOREM GoneIsSettled == OffboardingSpec => []ClosedExitIsSettled
<1>1. OffboardingInv => ClosedExitIsSettled
  BY DEF OffboardingInv, ExitInv
<1> QED BY <1>1, OffboardingInvariant, PTL

----------------------------------------------------------------------------
\* Salary periods.

Holds(h) == request[h] # Idle

\* Whoever has a salary has one period without an end.
OneActivePeriod == DOMAIN history # {} => \E i \in Periods : ActivePeriods = {i}

\* Dates that were entered, and the ends computed from them, are within the bound.
DatesEntered ==
  /\ \A i \in DOMAIN history : /\ history[i].from <= MaxDay
                               /\ history[i].to # NoEnd => history[i].to <= MaxDay
  /\ \A h \in Requests :
       /\ Doing(h, "raise") \/ Doing(h, "editPeriod") => request[h].from <= MaxDay
       /\ Doing(h, "deletePeriod") => request[h].to <= MaxDay

\* FOR UPDATE: a row that is held is stored, and held once.
RowsAreHeld ==
  \A h \in Requests : Holds(h) /\ request[h].row # NoPeriod =>
    /\ request[h].row \in DOMAIN history
    /\ \A g \in Requests \ {h} : Holds(g) => request[g].row # request[h].row

\* What the handlers have read of the periods still holds when they write.
ReadsHold ==
  \A h \in Requests :
    /\ Doing(h, "raise") => IF request[h].row = NoPeriod THEN DOMAIN history = {}
                            ELSE request[h].row \in ActivePeriods
    /\ Doing(h, "editPeriod") \/ Doing(h, "deletePeriod") =>
         request[h].prev <= opened /\ request[h].prev \notin ActivePeriods
    /\ Doing(h, "deletePeriod") => request[h].row \notin ActivePeriods

SalaryInv == SalaryTypeOK /\ OneActivePeriod /\ DatesEntered /\ RowsAreHeld /\ ReadsHold

LEMMA InitSalary == ASSUME ServerInit, SalaryInit PROVE SalaryInv
<1>1. /\ request \in [Requests -> {Idle} \union SalaryRequests]
      /\ RowsAreHeld /\ ReadsHold
  BY DEF ServerInit, Idle, Holds, Doing, RowsAreHeld, ReadsHold
<1>2. \A h \in Requests : ~Doing(h, "raise") /\ ~Doing(h, "editPeriod") /\ ~Doing(h, "deletePeriod")
  BY DEF ServerInit, Idle, Doing
<1>3. CASE history = <<>> /\ opened = 0
  <2>1. DOMAIN history = {}
    BY <1>3
  <2> QED BY <1>1, <1>2, <1>3, <2>1
          DEF SalaryInv, SalaryTypeOK, NoPeriod, OneActivePeriod, DatesEntered
<1>4. CASE history = StartingSalary(1) /\ opened = 1
  <2>1. DOMAIN history = {1} /\ history[1].from = 1 /\ history[1].to = NoEnd
    BY <1>4 DEF StartingSalary
  <2>2. history[1] \in SalaryRows
    BY <1>4 DEF StartingSalary, SalaryRows
  <2>3. 1 \in Periods /\ ActivePeriods = {1}
    BY <2>1, SalaryAssumption DEF ActivePeriods, Periods
  <2>4. SalaryTypeOK
    BY <1>1, <1>4, <2>1, <2>2, <2>3 DEF SalaryTypeOK
  <2>5. OneActivePeriod /\ DatesEntered
    BY <1>2, <2>1, <2>3, SalaryAssumption DEF OneActivePeriod, DatesEntered
  <2> QED BY <1>1, <2>4, <2>5 DEF SalaryInv
<1> QED BY <1>3, <1>4 DEF SalaryInit

\* A request begins that remembers what holds, or ends; the periods stay.
LEMMA SalaryBegins ==
  ASSUME SalaryInv, NEW h \in Requests, NEW r \in SalaryRequests, Begin(h, r), UNCHANGED salaryVars,
         r.row # NoPeriod => r.row \in DOMAIN history /\ Unheld(h, r.row),
         r.kind = "raise" =>
           /\ r.from <= MaxDay
           /\ IF r.row = NoPeriod THEN DOMAIN history = {} ELSE r.row \in ActivePeriods,
         r.kind = "editPeriod" => r.from <= MaxDay,
         r.kind \in {"editPeriod", "deletePeriod"} => r.prev <= opened /\ r.prev \notin ActivePeriods,
         r.kind = "deletePeriod" => r.to <= MaxDay /\ r.row \notin ActivePeriods
  PROVE  SalaryInv'
<1>1. /\ request' \in [Requests -> {Idle} \union SalaryRequests]
      /\ \A g \in Requests : request'[g] = IF g = h THEN r ELSE request[g]
      /\ ActivePeriods' = ActivePeriods
      /\ UNCHANGED <<history, opened>>
  BY DEF SalaryInv, SalaryTypeOK, Begin, salaryVars, ActivePeriods
<1>2. SalaryTypeOK' /\ OneActivePeriod'
  BY <1>1 DEF SalaryInv, SalaryTypeOK, OneActivePeriod
<1>3. DatesEntered' /\ ReadsHold'
  BY <1>1 DEF SalaryInv, DatesEntered, ReadsHold, Doing
<1>4. RowsAreHeld'
  BY <1>1 DEF SalaryInv, RowsAreHeld, Holds, Unheld
<1> QED BY <1>2, <1>3, <1>4 DEF SalaryInv

LEMMA SalaryAbandons ==
  ASSUME SalaryInv, NEW h \in Requests, Abandon(h), UNCHANGED salaryVars PROVE SalaryInv'
<1>1. /\ request' \in [Requests -> {Idle} \union SalaryRequests]
      /\ \A g \in Requests : request'[g] = IF g = h THEN Idle ELSE request[g]
      /\ ActivePeriods' = ActivePeriods
      /\ UNCHANGED <<history, opened>>
  BY DEF SalaryInv, SalaryTypeOK, Abandon, End, salaryVars, ActivePeriods
<1>2. SalaryTypeOK' /\ OneActivePeriod'
  BY <1>1 DEF SalaryInv, SalaryTypeOK, OneActivePeriod
<1>3. DatesEntered' /\ ReadsHold'
  BY <1>1 DEF SalaryInv, DatesEntered, ReadsHold, Doing, Idle
<1>4. RowsAreHeld'
  BY <1>1 DEF SalaryInv, RowsAreHeld, Holds
<1> QED BY <1>2, <1>3, <1>4 DEF SalaryInv

\* A transaction commits: what the others hold keeps its end, no period becomes
\* active but a new one, and there is still exactly one.
LEMMA SalaryCommits ==
  ASSUME SalaryInv, NEW h \in Requests, End(h),
         opened' \in Periods \union {NoPeriod}, opened <= opened',
         DOMAIN history' \subseteq 1 .. opened',
         \A i \in DOMAIN history' : /\ history'[i] \in SalaryRows
                                    /\ history'[i].from <= MaxDay
                                    /\ history'[i].to # NoEnd => history'[i].to <= MaxDay,
         OneActivePeriod',
         \A i \in ActivePeriods' : i \in ActivePeriods \/ i > opened,
         \A g \in Requests \ {h} : Holds(g) =>
           /\ request[g].row # NoPeriod
           /\ request[g].row \in DOMAIN history'
           /\ request[g].row \in ActivePeriods => request[g].row \in ActivePeriods'
  PROVE  SalaryInv'
<1>1. /\ request' \in [Requests -> {Idle} \union SalaryRequests]
      /\ request'[h] = Idle
      /\ \A g \in Requests \ {h} : request'[g] = request[g]
  BY DEF SalaryInv, SalaryTypeOK, End
<1>2. SalaryTypeOK'
  BY <1>1 DEF SalaryTypeOK
<1>3. DatesEntered'
  BY <1>1 DEF SalaryInv, DatesEntered, Doing, Idle
<1>4. RowsAreHeld'
  BY <1>1 DEF SalaryInv, RowsAreHeld, Holds
<1>5. ReadsHold'
  <2> SUFFICES ASSUME NEW g \in Requests, Holds(g)'
               PROVE  /\ Doing(g, "raise")' => IF request'[g].row = NoPeriod THEN DOMAIN history' = {}
                                               ELSE request'[g].row \in ActivePeriods'
                      /\ Doing(g, "editPeriod")' \/ Doing(g, "deletePeriod")' =>
                           request'[g].prev <= opened' /\ request'[g].prev \notin ActivePeriods'
                      /\ Doing(g, "deletePeriod")' => request'[g].row \notin ActivePeriods'
    BY DEF ReadsHold, Holds, Doing, Idle
  <2>1. g # h /\ request'[g] = request[g] /\ Holds(g)
    BY <1>1 DEF Holds
  <2>2. request[g] \in SalaryRequests
    BY <2>1 DEF SalaryInv, SalaryTypeOK, Holds
  <2>3. Doing(g, "raise") => request'[g].row # NoPeriod /\ request'[g].row \in ActivePeriods'
    BY <2>1 DEF SalaryInv, ReadsHold
  <2>4. Doing(g, "editPeriod") \/ Doing(g, "deletePeriod") =>
          request[g].prev \in Periods \union {NoPeriod}
    BY <2>2 DEF SalaryRequests, Doing
  <2>5. Doing(g, "editPeriod") \/ Doing(g, "deletePeriod") =>
          request[g].prev <= opened /\ request[g].prev \notin ActivePeriods
    BY DEF SalaryInv, ReadsHold
  <2>6. opened \in Nat /\ opened' \in Nat /\ Periods \subseteq Nat
    BY SalaryAssumption DEF SalaryInv, SalaryTypeOK, Periods, NoPeriod
  <2>7. ASSUME NEW i \in Nat, i <= opened, i \notin ActivePeriods
        PROVE  i <= opened' /\ i \notin ActivePeriods'
    <3>1. i <= opened'
      BY <2>6, <2>7
    <3>2. ~(i > opened)
      BY <2>6, <2>7
    <3> QED BY <2>7, <3>1, <3>2
  <2>8. Doing(g, "editPeriod") \/ Doing(g, "deletePeriod") =>
          request[g].prev <= opened' /\ request[g].prev \notin ActivePeriods'
    BY <2>4, <2>5, <2>6, <2>7 DEF NoPeriod
  <2>9. Doing(g, "deletePeriod") => request[g].row \notin ActivePeriods'
    <3> HAVE Doing(g, "deletePeriod")
    <3>1. request[g].row \in Periods /\ request[g].row \in DOMAIN history
          /\ request[g].row \notin ActivePeriods
      BY <2>1, <2>2, SalaryAssumption
         DEF SalaryRequests, Doing, SalaryInv, ReadsHold, RowsAreHeld, Periods, NoPeriod
    <3>2. request[g].row <= opened
      BY <3>1, <2>6 DEF SalaryInv, SalaryTypeOK
    <3> QED BY <3>1, <3>2, <2>6, <2>7
  <2> QED BY <2>1, <2>3, <2>8, <2>9 DEF Doing
<1> QED BY <1>2, <1>3, <1>4, <1>5 DEF SalaryInv

\* Previous finds a stored period that begins earlier, or none.
LEMMA PreviousIsStored ==
  ASSUME NEW i, NEW rows, NEW p \in Previous(i, rows)
  PROVE  p = NoPeriod \/ (p \in rows /\ history[p].from < history[i].from)
<1> DEFINE before == {j \in rows : history[j].from < history[i].from}
<1>1. p = NoPeriod \/ p \in before
  BY DEF Previous
<1> QED BY <1>1

LEMMA StepRaiseRead ==
  ASSUME SalaryInv, NEW h \in Requests, NEW from \in 1 .. MaxDay, RaiseRead(h, from)
  PROVE  SalaryInv'
<1>1. MaxDay \in Nat /\ from \in Int /\ from <= MaxDay
  BY SalaryAssumption
<1>2. CASE /\ ActivePeriods = {}
           /\ Begin(h, [kind |-> "raise", row |-> NoPeriod, from |-> from])
  <2> DEFINE r == [kind |-> "raise", row |-> NoPeriod, from |-> from]
  <2>1. r \in SalaryRequests
    BY <1>1 DEF SalaryRequests
  <2>2. DOMAIN history = {}
    BY <1>2 DEF SalaryInv, OneActivePeriod
  <2>3. r.kind = "raise" /\ r.row = NoPeriod /\ r.from = from /\ Begin(h, r) /\ UNCHANGED salaryVars
    BY <1>2 DEF RaiseRead
  <2> HIDE DEF r
  <2> QED BY <1>1, <2>1, <2>2, <2>3, SalaryBegins
<1>3. ASSUME NEW i \in ActivePeriods, Unheld(h, i),
             Begin(h, [kind |-> "raise", row |-> i, from |-> from])
      PROVE  SalaryInv'
  <2> DEFINE r == [kind |-> "raise", row |-> i, from |-> from]
  <2>1. i \in DOMAIN history /\ i \in Periods /\ i # NoPeriod
    BY SalaryAssumption DEF ActivePeriods, SalaryInv, SalaryTypeOK, Periods, NoPeriod
  <2>2. r \in SalaryRequests
    BY <1>1, <2>1 DEF SalaryRequests
  <2>3. r.kind = "raise" /\ r.row = i /\ r.from = from /\ Begin(h, r) /\ UNCHANGED salaryVars
    BY <1>3 DEF RaiseRead
  <2> HIDE DEF r
  <2> QED BY <1>1, <1>3, <2>1, <2>2, <2>3, SalaryBegins
<1> QED BY <1>2, <1>3 DEF RaiseRead

LEMMA StepEditPeriodRead ==
  ASSUME SalaryInv, NEW h \in Requests, NEW i \in DOMAIN history,
         NEW from \in 1 .. MaxDay \union {UtcDay(history[i].from)}, EditPeriodRead(h, i, from)
  PROVE  SalaryInv'
<1>1. i \in Periods /\ i # NoPeriod /\ DOMAIN history \subseteq 1 .. opened /\ opened \in Nat
  BY SalaryAssumption DEF SalaryInv, SalaryTypeOK, Periods, NoPeriod
<1>2. from \in Int /\ from <= MaxDay
  <2>1. history[i].from \in Int /\ history[i].from <= MaxDay
    BY DEF SalaryInv, SalaryTypeOK, SalaryRows, DatesEntered
  <2> QED BY <2>1, SalaryAssumption DEF UtcDay
<1>3. PICK p \in Previous(i, DOMAIN history) :
        Begin(h, [kind |-> "editPeriod", row |-> i, from |-> from,
                  prev |-> IF history[i].to = NoEnd THEN p ELSE NoPeriod])
  BY DEF EditPeriodRead
<1> DEFINE q == IF history[i].to = NoEnd THEN p ELSE NoPeriod
           r == [kind |-> "editPeriod", row |-> i, from |-> from, prev |-> q]
<1>4. q \in Periods \union {NoPeriod} /\ q <= opened /\ q \notin ActivePeriods
  <2>1. CASE q = NoPeriod
    BY <1>1, <2>1 DEF NoPeriod, ActivePeriods
  <2>2. CASE q # NoPeriod
    <3>1. /\ q = p /\ i \in ActivePeriods
          /\ p \in DOMAIN history /\ history[p].from < history[i].from
      BY <2>2, PreviousIsStored DEF ActivePeriods
    <3>2. p # i
      BY <3>1 DEF SalaryInv, SalaryTypeOK, SalaryRows
    <3>3. p \notin ActivePeriods
      BY <3>1, <3>2 DEF SalaryInv, OneActivePeriod
    <3>4. p \in Periods /\ p <= opened
      BY <1>1, <3>1, SalaryAssumption DEF SalaryInv, SalaryTypeOK, Periods, NoPeriod
    <3> QED BY <3>1, <3>3, <3>4
  <2> QED BY <2>1, <2>2
<1>5. r \in SalaryRequests
  BY <1>1, <1>2, <1>4 DEF SalaryRequests
<1>6. /\ r.kind = "editPeriod" /\ r.row = i /\ r.from = from /\ r.prev = q
      /\ Begin(h, r) /\ Unheld(h, i) /\ UNCHANGED salaryVars
  BY <1>3 DEF EditPeriodRead
<1> HIDE DEF q, r
<1> QED BY <1>2, <1>4, <1>5, <1>6, SalaryBegins

LEMMA StepDeletePeriodRead ==
  ASSUME SalaryInv, NEW h \in Requests, NEW i \in DOMAIN history, DeletePeriodRead(h, i)
  PROVE  SalaryInv'
<1>1. i \in Periods /\ i # NoPeriod /\ DOMAIN history \subseteq 1 .. opened /\ opened \in Nat
  BY SalaryAssumption DEF SalaryInv, SalaryTypeOK, Periods, NoPeriod
<1> DEFINE to == UtcDay(history[i].to)
<1>2. to \in Int /\ to <= MaxDay
  <2>1. history[i].to \in Int /\ history[i].to <= MaxDay
    BY DEF DeletePeriodRead, ActivePeriods, SalaryInv, SalaryTypeOK, SalaryRows, DatesEntered
  <2> QED BY <2>1, SalaryAssumption DEF UtcDay
<1>3. PICK p \in Previous(i, DOMAIN history \ ActivePeriods) :
        Begin(h, [kind |-> "deletePeriod", row |-> i, to |-> to, prev |-> p])
  BY DEF DeletePeriodRead
<1>4. p \in Periods \union {NoPeriod} /\ p <= opened /\ p \notin ActivePeriods
  <2>1. CASE p = NoPeriod
    BY <1>1, <2>1 DEF NoPeriod, ActivePeriods
  <2>2. CASE p \in DOMAIN history \ ActivePeriods
    BY <1>1, <2>2, SalaryAssumption DEF SalaryInv, SalaryTypeOK, Periods, NoPeriod
  <2> QED BY <2>1, <2>2, PreviousIsStored
<1> DEFINE r == [kind |-> "deletePeriod", row |-> i, to |-> to, prev |-> p]
<1> HIDE DEF to
<1>5. r \in SalaryRequests
  BY <1>1, <1>2, <1>4 DEF SalaryRequests
<1>6. /\ r.kind = "deletePeriod" /\ r.row = i /\ r.to = to /\ r.prev = p
      /\ Begin(h, r) /\ Unheld(h, i) /\ i \notin ActivePeriods /\ UNCHANGED salaryVars
  BY <1>3 DEF DeletePeriodRead
<1> HIDE DEF r
<1> QED BY <1>2, <1>4, <1>5, <1>6, SalaryBegins

\* A request in progress is typed by its kind.
LEMMA SalaryRequestTyped ==
  ASSUME SalaryInv, NEW h \in Requests
  PROVE  /\ Doing(h, "raise") => /\ request[h].row \in Periods \union {NoPeriod}
                                 /\ request[h].from \in Int
         /\ Doing(h, "editPeriod") => /\ request[h].row \in Periods
                                      /\ request[h].from \in Int
                                      /\ request[h].prev \in Periods \union {NoPeriod}
         /\ Doing(h, "deletePeriod") => /\ request[h].row \in Periods
                                        /\ request[h].to \in Int
                                        /\ request[h].prev \in Periods \union {NoPeriod}
<1>1. request[h] \in {Idle} \union SalaryRequests
  BY DEF SalaryInv, SalaryTypeOK
<1> QED BY <1>1 DEF Doing, Idle, SalaryRequests

\* Whoever holds no row saw an empty history, which is empty still.
LEMMA StoredRowsAreHeld ==
  ASSUME SalaryInv, NEW g \in Requests, Holds(g), DOMAIN history # {}
  PROVE  request[g].row # NoPeriod
<1>1. request[g] \in SalaryRequests
  BY DEF Holds, SalaryInv, SalaryTypeOK
<1> QED BY <1>1, SalaryAssumption DEF SalaryRequests, SalaryInv, ReadsHold, Doing, Periods, NoPeriod

\* Ending a period writes its end and nothing else.
LEMMA EndedIsTyped ==
  ASSUME NEW rows, \A j \in DOMAIN rows : rows[j] \in SalaryRows, NEW i, NEW date \in Int
  PROVE  /\ DOMAIN Ended(rows, i, date) = DOMAIN rows
         /\ \A j \in DOMAIN rows :
              /\ Ended(rows, i, date)[j] \in SalaryRows
              /\ Ended(rows, i, date)[j].from = rows[j].from
              /\ Ended(rows, i, date)[j].to = IF j = i THEN date ELSE rows[j].to
BY DEF Ended, SalaryRows

LEMMA StepRaiseCommit == ASSUME SalaryInv, NEW h \in Requests, RaiseCommit(h) PROVE SalaryInv'
<1> DEFINE r    == request[h]
           rows == Ended(history, r.row, r.from - 1)
           new  == [from |-> r.from, to |-> NoEnd]
<1>1. /\ Doing(h, "raise") /\ End(h) /\ opened < MaxPeriods /\ opened' = opened + 1
      /\ r.row = NoPeriod => Unheld(h, NoPeriod)
      /\ history' = [i \in DOMAIN history \union {opened + 1} |->
                       IF i = opened + 1 THEN new ELSE rows[i]]
  BY DEF RaiseCommit
<1>2. r.row \in Periods \union {NoPeriod} /\ r.from \in Int /\ r.from <= MaxDay
  BY <1>1, SalaryRequestTyped DEF SalaryInv, DatesEntered
<1>3. IF r.row = NoPeriod THEN DOMAIN history = {} ELSE r.row \in ActivePeriods
  BY <1>1 DEF SalaryInv, ReadsHold
<1>4. opened \in Nat /\ opened + 1 \in Periods /\ DOMAIN history \subseteq 1 .. opened
  BY <1>1, SalaryAssumption DEF SalaryInv, SalaryTypeOK, Periods, NoPeriod
<1>5. new \in SalaryRows /\ new.from = r.from /\ new.to = NoEnd
  BY <1>2 DEF SalaryRows
<1>6. /\ DOMAIN rows = DOMAIN history
      /\ \A i \in DOMAIN history :
           /\ rows[i] \in SalaryRows
           /\ rows[i].from = history[i].from
           /\ rows[i].to = IF i = r.row THEN r.from - 1 ELSE history[i].to
  BY <1>2, EndedIsTyped DEF SalaryInv, SalaryTypeOK
<1> HIDE DEF rows, new
<1>7. /\ DOMAIN history' = DOMAIN history \union {opened + 1}
      /\ history'[opened + 1] = new
      /\ \A i \in DOMAIN history : i # opened + 1 /\ history'[i] = rows[i]
  BY <1>1, <1>4
<1>8. ActivePeriods' = {opened + 1}
  <2>1. \A i \in DOMAIN history : history'[i].to # NoEnd
    <3> SUFFICES ASSUME NEW i \in DOMAIN history PROVE history'[i].to # NoEnd
      OBVIOUS
    <3>1. CASE i = r.row
      BY <1>2, <1>6, <1>7, <3>1, SalaryAssumption
    <3>2. CASE i # r.row
      <4>1. i \notin ActivePeriods
        BY <1>3, <3>2 DEF SalaryInv, OneActivePeriod
      <4> QED BY <1>6, <1>7, <3>2, <4>1 DEF ActivePeriods
    <3> QED BY <3>1, <3>2
  <2> QED BY <1>5, <1>7, <2>1 DEF ActivePeriods
<1>9. opened' \in Periods \union {NoPeriod} /\ opened <= opened' /\ DOMAIN history' \subseteq 1 .. opened'
  BY <1>1, <1>4, <1>7
<1>10. \A i \in DOMAIN history' : /\ history'[i] \in SalaryRows
                                  /\ history'[i].from <= MaxDay
                                  /\ history'[i].to # NoEnd => history'[i].to <= MaxDay
  <2>1. \A i \in DOMAIN history : /\ history[i].from <= MaxDay
                                  /\ history[i].to # NoEnd => history[i].to <= MaxDay
    BY DEF SalaryInv, DatesEntered
  <2>2. r.from - 1 <= MaxDay
    BY <1>2, SalaryAssumption
  <2> QED BY <1>2, <1>5, <1>6, <1>7, <2>1, <2>2
<1>11. OneActivePeriod'
  BY <1>4, <1>8 DEF OneActivePeriod, Periods
<1>12. \A i \in ActivePeriods' : i > opened
  BY <1>4, <1>8
<1>13. ASSUME NEW g \in Requests \ {h}, Holds(g)
       PROVE  /\ request[g].row # NoPeriod
              /\ request[g].row \in DOMAIN history'
              /\ request[g].row \notin ActivePeriods
  <2>1. request[g].row # NoPeriod
    <3>1. CASE r.row = NoPeriod
      BY <1>1, <1>13, <3>1 DEF Unheld, Holds
    <3>2. CASE r.row # NoPeriod
      <4>1. DOMAIN history # {}
        BY <1>3, <3>2 DEF ActivePeriods
      <4> QED BY <1>13, <4>1, StoredRowsAreHeld
    <3> QED BY <3>1, <3>2
  <2>2. request[g].row \in DOMAIN history /\ r.row # NoPeriod /\ request[g].row # r.row
    <3>1. request[g].row \in DOMAIN history
      BY <1>13, <2>1 DEF SalaryInv, RowsAreHeld
    <3>2. r.row # NoPeriod /\ Holds(h)
      BY <1>1, <1>3, <3>1 DEF Holds, Doing, Idle
    <3> QED BY <1>13, <3>1, <3>2 DEF SalaryInv, RowsAreHeld
  <2>3. request[g].row \notin ActivePeriods
    BY <1>3, <2>2 DEF SalaryInv, OneActivePeriod
  <2> QED BY <1>7, <2>1, <2>2, <2>3
<1> QED BY <1>1, <1>9, <1>10, <1>11, <1>12, <1>13, SalaryCommits

\* Editing and deleting leave the active period, and what the others hold, as it is.
LEMMA ActiveStays ==
  ASSUME SalaryInv, NEW h \in Requests, End(h), UNCHANGED opened,
         NEW i, DOMAIN history \ {i} \subseteq DOMAIN history', DOMAIN history' \subseteq DOMAIN history,
         DOMAIN history # {},
         \A g \in Requests \ {h} : Holds(g) => request[g].row # i \/ i \in DOMAIN history',
         ActivePeriods' = ActivePeriods,
         \A j \in DOMAIN history' : /\ history'[j] \in SalaryRows
                                    /\ history'[j].from <= MaxDay
                                    /\ history'[j].to # NoEnd => history'[j].to <= MaxDay
  PROVE  SalaryInv'
<1>1. opened' \in Periods \union {NoPeriod} /\ opened' = opened /\ opened <= opened'
      /\ DOMAIN history' \subseteq 1 .. opened'
  BY SalaryAssumption DEF SalaryInv, SalaryTypeOK, Periods, NoPeriod
<1>2. OneActivePeriod'
  BY DEF SalaryInv, OneActivePeriod
<1>3. ASSUME NEW g \in Requests \ {h}, Holds(g)
      PROVE  request[g].row # NoPeriod /\ request[g].row \in DOMAIN history'
  <2>1. request[g].row # NoPeriod
    BY <1>3, StoredRowsAreHeld
  <2>2. request[g].row \in DOMAIN history
    BY <1>3, <2>1 DEF SalaryInv, RowsAreHeld
  <2> QED BY <1>3, <2>1, <2>2
<1> QED BY <1>1, <1>2, <1>3, SalaryCommits

LEMMA StepEditPeriodCommit ==
  ASSUME SalaryInv, NEW h \in Requests, EditPeriodCommit(h) PROVE SalaryInv'
<1> DEFINE r    == request[h]
           rows == [history EXCEPT ![r.row].from = r.from]
<1>1. /\ Doing(h, "editPeriod") /\ End(h) /\ UNCHANGED opened
      /\ history' = Ended(rows, r.prev, r.from - 1)
  BY DEF EditPeriodCommit
<1>2. r.row \in Periods /\ r.from \in Int /\ r.from <= MaxDay /\ r.prev \notin ActivePeriods
  BY <1>1, SalaryRequestTyped DEF SalaryInv, DatesEntered, ReadsHold
<1>3. r.row \in DOMAIN history
  BY <1>1, <1>2, SalaryAssumption DEF SalaryInv, RowsAreHeld, Holds, Doing, Idle, Periods, NoPeriod
<1>4. /\ DOMAIN rows = DOMAIN history
      /\ \A j \in DOMAIN history :
           /\ rows[j] \in SalaryRows /\ rows[j].from <= MaxDay
           /\ rows[j].to = history[j].to
  <2>1. \A j \in DOMAIN history : history[j] \in SalaryRows /\ history[j].from <= MaxDay
    BY DEF SalaryInv, SalaryTypeOK, DatesEntered
  <2>2. [history[r.row] EXCEPT !.from = r.from] \in SalaryRows
        /\ [history[r.row] EXCEPT !.from = r.from].from = r.from
        /\ [history[r.row] EXCEPT !.from = r.from].to = history[r.row].to
    BY <1>2, <1>3, <2>1 DEF SalaryRows
  <2> QED BY <1>2, <2>1, <2>2
<1> HIDE DEF rows
<1>5. /\ DOMAIN history' = DOMAIN history
      /\ \A j \in DOMAIN history :
           /\ history'[j] \in SalaryRows /\ history'[j].from <= MaxDay
           /\ history'[j].to = IF j = r.prev THEN r.from - 1 ELSE history[j].to
  BY <1>1, <1>2, <1>4, EndedIsTyped
<1>6. r.from - 1 \in Int /\ r.from - 1 <= MaxDay /\ r.from - 1 # NoEnd
  BY <1>2, SalaryAssumption
<1>7. ActivePeriods' = ActivePeriods
  BY <1>2, <1>5, <1>6 DEF ActivePeriods
<1>8. \A j \in DOMAIN history' : history'[j].to # NoEnd => history'[j].to <= MaxDay
  BY <1>5, <1>6 DEF SalaryInv, DatesEntered
<1> QED BY <1>1, <1>3, <1>5, <1>7, <1>8, ActiveStays

LEMMA StepDeletePeriodCommit ==
  ASSUME SalaryInv, NEW h \in Requests, DeletePeriodCommit(h) PROVE SalaryInv'
<1> DEFINE r    == request[h]
           rows == [j \in DOMAIN history \ {r.row} |-> history[j]]
<1>1. /\ Doing(h, "deletePeriod") /\ End(h) /\ UNCHANGED opened
      /\ history' = Ended(rows, r.prev, r.to)
  BY DEF DeletePeriodCommit
<1>2. /\ r.row \in Periods /\ r.to \in Int /\ r.to <= MaxDay
      /\ r.prev \notin ActivePeriods /\ r.row \notin ActivePeriods
  BY <1>1, SalaryRequestTyped DEF SalaryInv, DatesEntered, ReadsHold
<1>3. /\ r.row \in DOMAIN history
      /\ \A g \in Requests \ {h} : Holds(g) => request[g].row # r.row
  BY <1>1, <1>2, SalaryAssumption DEF SalaryInv, RowsAreHeld, Holds, Doing, Idle, Periods, NoPeriod
<1>4. /\ DOMAIN rows = DOMAIN history \ {r.row}
      /\ \A j \in DOMAIN rows : rows[j] = history[j] /\ rows[j] \in SalaryRows
  BY DEF SalaryInv, SalaryTypeOK
<1> HIDE DEF rows
<1>5. /\ DOMAIN history' = DOMAIN history \ {r.row}
      /\ \A j \in DOMAIN history' :
           /\ history'[j] \in SalaryRows /\ history'[j].from = history[j].from
           /\ history'[j].to = IF j = r.prev THEN r.to ELSE history[j].to
  BY <1>1, <1>2, <1>4, EndedIsTyped
<1>6. r.to # NoEnd
  BY <1>2, SalaryAssumption
<1>7. ActivePeriods' = ActivePeriods
  BY <1>2, <1>5, <1>6 DEF ActivePeriods
<1>8. \A j \in DOMAIN history' : /\ history'[j].from <= MaxDay
                                 /\ history'[j].to # NoEnd => history'[j].to <= MaxDay
  BY <1>2, <1>5 DEF SalaryInv, DatesEntered
<1> QED BY <1>1, <1>3, <1>5, <1>7, <1>8, ActiveStays

LEMMA StepSalary ==
  ASSUME SalaryInv, [SalaryNext]_<<request, salaryVars>> PROVE SalaryInv'
<1>1. CASE UNCHANGED <<request, salaryVars>>
  BY <1>1 DEF SalaryInv, SalaryTypeOK, OneActivePeriod, DatesEntered, RowsAreHeld, ReadsHold, Holds,
         Doing, ActivePeriods, salaryVars
<1>2. CASE SalaryNext
  BY <1>2, StepRaiseRead, StepEditPeriodRead, StepDeletePeriodRead, StepRaiseCommit, StepEditPeriodCommit,
     StepDeletePeriodCommit, SalaryAbandons DEF SalaryNext
<1> QED BY <1>1, <1>2

LEMMA SalaryInvariant == SalarySpec => []SalaryInv
BY InitSalary, StepSalary, PTL DEF SalarySpec

LEMMA OneEffective == SalaryInv => OneActiveSalary
<1> SUFFICES ASSUME SalaryInv, DOMAIN history # {}
             PROVE  Cardinality(Effective(MaxDay + 1)) = 1
  BY DEF OneActiveSalary
<1>1. PICK i \in Periods : ActivePeriods = {i}
  BY DEF SalaryInv, OneActivePeriod
<1>2. Effective(MaxDay + 1) = {i}
  <2>1. \A j \in DOMAIN history :
          /\ history[j] \in SalaryRows /\ history[j].from <= MaxDay
          /\ history[j].to # NoEnd => history[j].to <= MaxDay
    BY DEF SalaryInv, SalaryTypeOK, DatesEntered
  <2>2. \A j \in DOMAIN history : j \in Effective(MaxDay + 1) <=> history[j].to = NoEnd
    BY <2>1, SalaryAssumption DEF Effective, SalaryRows
  <2> QED BY <1>1, <2>2 DEF Effective, ActivePeriods
<1> QED BY <1>2, FS_Singleton

\* From the last date entered on, whoever has a salary has exactly one, in whatever
\* order raises, edits and deletions lock, read and commit, with dates that the
\* driver moves back by a day or not.
THEOREM ASalaryIsOne == SalarySpec => []OneActiveSalary
BY SalaryInvariant, OneEffective, PTL

----------------------------------------------------------------------------
\* Leave.

----------------------------------------------------------------------------
\* Sums over finite sets.  MapThenSumSet is a recursive function of the subsets
\* of a set; what it returns is found by looking at a smallest subset for which
\* the claim would fail.

LEMMA SmallestSubset ==
  ASSUME NEW S, IsFiniteSet(S), NEW T, T \subseteq SUBSET S, T # {}
  PROVE  \E s \in T : \A t \in T : t \subseteq s => t = s
<1> DEFINE R == StrictSubsetOrdering(S)
<1>1. IsWellFoundedOn(R, FiniteSubsetsOf(S))
  BY FS_StrictSubsetOrderingWellFounded
<1>2. FiniteSubsetsOf(S) = SUBSET S
  BY FS_Subset DEF FiniteSubsetsOf
<1>3. \A s, t \in SUBSET S : <<t, s>> \in R <=> t \subseteq s /\ t # s
  BY DEF StrictSubsetOrdering
<1> HIDE DEF R
<1>4. \E s \in T : \A t \in T : ~ (<<t, s>> \in R)
  BY <1>1, <1>2, WFMin
<1> QED BY <1>3, <1>4

Chosen(s) == CHOOSE x \in s : TRUE

\* g sums the weights w over every subset of S.
Sums(g, w, S) ==
  g = [s \in SUBSET S |-> IF s = {} THEN 0 ELSE w[Chosen(s)] + g[s \ {Chosen(s)}]]

LEMMA ChosenIsMember == ASSUME NEW s, s # {} PROVE Chosen(s) \in s
BY DEF Chosen

LEMMA SumsUnique ==
  ASSUME NEW S, IsFiniteSet(S), NEW w, NEW g, Sums(g, w, S), NEW h, Sums(h, w, S)
  PROVE  g = h
<1> DEFINE T == {s \in SUBSET S : g[s] # h[s]}
<1>1. SUFFICES ASSUME T # {} PROVE FALSE
  BY DEF Sums
<1>2. PICK s \in T : \A t \in T : t \subseteq s => t = s
  <2>1. T \subseteq SUBSET S
    OBVIOUS
  <2> HIDE DEF T
  <2> QED BY <1>1, <2>1, SmallestSubset
<1>3. s # {}
  BY DEF Sums
<1>4. Chosen(s) \in s
  BY <1>3, ChosenIsMember
<1>5. s \ {Chosen(s)} \notin T
  BY <1>2, <1>4
<1> QED BY <1>3, <1>5 DEF Sums

LEMMA SumsRestrict ==
  ASSUME NEW S, NEW w, NEW g, Sums(g, w, S), NEW T, T \subseteq S
  PROVE  Sums([s \in SUBSET T |-> g[s]], w, T)
<1> DEFINE h == [s \in SUBSET T |-> g[s]]
<1>1. \A s \in SUBSET T : h[s] = IF s = {} THEN 0 ELSE w[Chosen(s)] + h[s \ {Chosen(s)}]
  BY DEF Sums
<1> QED BY <1>1 DEF Sums

LEMMA SumsExist ==
  ASSUME NEW S, IsFiniteSet(S), NEW w
  PROVE  \E g : Sums(g, w, S)
<1> DEFINE T == {s \in SUBSET S : ~ \E g : Sums(g, w, s)}
<1>1. SUFFICES ASSUME T # {} PROVE FALSE
  OBVIOUS
<1>2. PICK s \in T : \A t \in T : t \subseteq s => t = s
  <2>1. T \subseteq SUBSET S
    OBVIOUS
  <2> HIDE DEF T
  <2> QED BY <1>1, <2>1, SmallestSubset
<1> DEFINE G == [t \in SUBSET s |-> CHOOSE g : Sums(g, w, t)]
<1>3. \A t \in SUBSET s : t # s => Sums(G[t], w, t)
  <2> SUFFICES ASSUME NEW t \in SUBSET s, t # s PROVE Sums(G[t], w, t)
    OBVIOUS
  <2>1. t \notin T /\ t \in SUBSET S
    BY <1>2
  <2>2. \E g : Sums(g, w, t)
    BY <2>1
  <2> QED BY <2>2
<1>4. ASSUME NEW t \in SUBSET s, t # s, NEW u \in SUBSET t PROVE G[t][u] = G[u][u]
  <2>1. u # s /\ IsFiniteSet(u)
    BY <1>4, FS_Subset
  <2>2. Sums([v \in SUBSET u |-> G[t][v]], w, u)
    BY <1>3, <1>4, SumsRestrict
  <2>3. [v \in SUBSET u |-> G[t][v]] = G[u]
    BY <1>3, <2>1, <2>2, SumsUnique
  <2>4. [v \in SUBSET u |-> G[t][v]][u] = G[t][u]
    OBVIOUS
  <2> QED BY <2>3, <2>4
<1> HIDE DEF G
<1> DEFINE c == Chosen(s)
           g == [t \in SUBSET s |-> IF t = {} THEN 0
                                    ELSE IF t # s THEN G[t][t]
                                    ELSE w[c] + G[s \ {c}][s \ {c}]]
<1>5. ASSUME NEW t \in SUBSET s
      PROVE  g[t] = IF t = {} THEN 0 ELSE w[Chosen(t)] + g[t \ {Chosen(t)}]
  <2>1. CASE t = {}
    BY <2>1
  <2>2. CASE t # {} 
    <3> DEFINE d == Chosen(t)
    <3>1. d \in t /\ t \ {d} \in SUBSET s /\ t \ {d} # s /\ t \ {d} \in SUBSET t
      BY <2>2, ChosenIsMember
    <3>2. g[t \ {d}] = G[t \ {d}][t \ {d}]
      <4>1. CASE t \ {d} # {}
        BY <3>1, <4>1
      <4>2. CASE t \ {d} = {}
        <5>1. Sums(G[{}], w, {})
          BY <3>1, <4>2, <1>3
        <5>2. G[{}][{}] = 0
          BY <5>1 DEF Sums
        <5> QED BY <3>1, <4>2, <5>2
      <4> QED BY <4>1, <4>2
    <3>3. CASE t = s
      BY <2>2, <3>2, <3>3
    <3>4. CASE t # s
      <4>1. Sums(G[t], w, t)
        BY <1>3, <3>4
      <4>2. G[t][t] = w[d] + G[t][t \ {d}]
        BY <2>2, <4>1 DEF Sums
      <4>3. G[t][t \ {d}] = G[t \ {d}][t \ {d}]
        BY <1>4, <3>1, <3>4
      <4>4. g[t] = G[t][t]
        BY <2>2, <3>4
      <4> QED BY <2>2, <3>2, <4>2, <4>3, <4>4
    <3> QED BY <3>3, <3>4
  <2> QED BY <2>1, <2>2
<1>6. Sums(g, w, s)
  BY <1>5 DEF Sums
<1> QED BY <1>2, <1>6

\* The sum of the weights w over S
Sum(w, S) == (CHOOSE g : Sums(g, w, S))[S]

LEMMA SumIs ==
  ASSUME NEW S, IsFiniteSet(S), NEW w, NEW g, Sums(g, w, S), NEW T, T \subseteq S
  PROVE  g[T] = Sum(w, T)
<1> DEFINE h == [s \in SUBSET T |-> g[s]]
<1>1. Sums(h, w, T) /\ h[T] = g[T]
  BY SumsRestrict
<1>2. IsFiniteSet(T)
  BY FS_Subset
<1> HIDE DEF h
<1>3. Sums(CHOOSE f : Sums(f, w, T), w, T)
  BY <1>1
<1>4. (CHOOSE f : Sums(f, w, T)) = h
  BY <1>1, <1>2, <1>3, SumsUnique
<1> QED BY <1>1, <1>4 DEF Sum

LEMMA SumStep ==
  ASSUME NEW S, IsFiniteSet(S), NEW w
  PROVE  Sum(w, S) = IF S = {} THEN 0 ELSE w[Chosen(S)] + Sum(w, S \ {Chosen(S)})
<1>1. PICK g : Sums(g, w, S)
  BY SumsExist
<1>2. g[S] = Sum(w, S) /\ g[S \ {Chosen(S)}] = Sum(w, S \ {Chosen(S)})
  BY <1>1, SumIs
<1>3. g[S] = IF S = {} THEN 0 ELSE w[Chosen(S)] + g[S \ {Chosen(S)}]
  BY <1>1 DEF Sums
<1> QED BY <1>2, <1>3

LEMMA SumType ==
  ASSUME NEW S, IsFiniteSet(S), NEW w, \A x \in S : w[x] \in Nat
  PROVE  Sum(w, S) \in Nat
<1> DEFINE T == {s \in SUBSET S : Sum(w, s) \notin Nat}
<1>1. SUFFICES ASSUME T # {} PROVE FALSE
  OBVIOUS
<1>2. PICK s \in T : \A t \in T : t \subseteq s => t = s
  <2>1. T \subseteq SUBSET S
    OBVIOUS
  <2> HIDE DEF T
  <2> QED BY <1>1, <2>1, SmallestSubset
<1>3. IsFiniteSet(s) /\ s # {}
  <2>1. IsFiniteSet(s)
    BY FS_Subset
  <2>2. s = {} => Sum(w, s) = 0
    BY <2>1, SumStep
  <2>3. Sum(w, s) \notin Nat
    OBVIOUS
  <2> QED BY <2>1, <2>2, <2>3
<1>4. Chosen(s) \in s
  BY <1>3, ChosenIsMember
<1>5. s \ {Chosen(s)} \notin T
  BY <1>2, <1>4
<1>6. Sum(w, s) = w[Chosen(s)] + Sum(w, s \ {Chosen(s)})
  BY <1>3, SumStep
<1> QED BY <1>4, <1>5, <1>6

\* The weights outside of the set do not matter.
LEMMA SumSame ==
  ASSUME NEW S, IsFiniteSet(S), NEW w, NEW v, \A x \in S : w[x] = v[x]
  PROVE  Sum(w, S) = Sum(v, S)
<1> DEFINE T == {s \in SUBSET S : Sum(w, s) # Sum(v, s)}
<1>1. SUFFICES ASSUME T # {} PROVE FALSE
  OBVIOUS
<1>2. PICK s \in T : \A t \in T : t \subseteq s => t = s
  <2>1. T \subseteq SUBSET S
    OBVIOUS
  <2> HIDE DEF T
  <2> QED BY <1>1, <2>1, SmallestSubset
<1>3. IsFiniteSet(s) /\ s # {}
  BY FS_Subset, SumStep
<1>4. Chosen(s) \in s
  BY <1>3, ChosenIsMember
<1>5. s \ {Chosen(s)} \notin T
  BY <1>2, <1>4
<1>6. /\ Sum(w, s) = w[Chosen(s)] + Sum(w, s \ {Chosen(s)})
      /\ Sum(v, s) = v[Chosen(s)] + Sum(v, s \ {Chosen(s)})
  BY <1>3, SumStep
<1> QED BY <1>4, <1>5, <1>6

\* Any member may be summed last.
LEMMA SumOfMember ==
  ASSUME NEW S, IsFiniteSet(S), NEW w, \A x \in S : w[x] \in Nat, NEW x \in S
  PROVE  Sum(w, S) = w[x] + Sum(w, S \ {x})
<1> DEFINE T == {s \in SUBSET S : \E y \in s : Sum(w, s) # w[y] + Sum(w, s \ {y})}
<1>1. SUFFICES ASSUME T # {} PROVE FALSE
  OBVIOUS
<1>2. PICK s \in T : \A t \in T : t \subseteq s => t = s
  <2>1. T \subseteq SUBSET S
    OBVIOUS
  <2> HIDE DEF T
  <2> QED BY <1>1, <2>1, SmallestSubset
<1>3. PICK y \in s : Sum(w, s) # w[y] + Sum(w, s \ {y})
  BY <1>2
<1> DEFINE c == Chosen(s)
<1>4. IsFiniteSet(s) /\ c \in s
  BY FS_Subset, ChosenIsMember
<1>5. Sum(w, s) = w[c] + Sum(w, s \ {c})
  BY <1>4, SumStep
<1>6. c # y
  BY <1>3, <1>5
<1>7. s \ {c} \notin T /\ s \ {y} \notin T /\ s \ {c} \in SUBSET S /\ s \ {y} \in SUBSET S
  BY <1>2, <1>4
<1> HIDE DEF c
<1> DEFINE rest == (s \ {y}) \ {c}
<1>8. Sum(w, s \ {c}) = w[y] + Sum(w, rest)
  <2>1. Sum(w, s \ {c}) = w[y] + Sum(w, (s \ {c}) \ {y})
    BY <1>6, <1>7
  <2>2. (s \ {c}) \ {y} = rest
    OBVIOUS
  <2> HIDE DEF rest
  <2> QED BY <2>1, <2>2
<1>9. Sum(w, s \ {y}) = w[c] + Sum(w, rest)
  BY <1>4, <1>6, <1>7
<1>10. w[c] \in Nat /\ w[y] \in Nat /\ Sum(w, rest) \in Nat
  <2>1. IsFiniteSet(rest)
    BY <1>4, FS_Subset
  <2> QED BY <1>4, <2>1, SumType
<1> HIDE DEF rest
<1>11. w[c] + (w[y] + Sum(w, rest)) = w[y] + (w[c] + Sum(w, rest))
  BY <1>10
<1> QED BY <1>3, <1>5, <1>8, <1>9, <1>11

----------------------------------------------------------------------------
\* What the approved requests take from the allocation

Days     == [l \in Leaves |-> leave[l].days]
Approved == {l \in Leaves : leave[l].status = "approved"}

\* The days counted as taken are the sum of the approved ones.
UsedIsApproved == allocation.used = Sum(Days, Approved)

\* Nothing is taken of what was never given.
NothingUsedUngiven == ~Allocated => allocation.used = 0

LeaveInv == LeaveTypeOK /\ UsedIsApproved /\ NothingUsedUngiven

LEMMA DaysOfApproved ==
  ASSUME LeaveTypeOK
  PROVE  /\ IsFiniteSet(Approved) /\ Approved \subseteq Leaves
         /\ \A l \in Leaves : Days[l] = leave[l].days /\ Days[l] \in Nat
<1>1. IsFiniteSet(Approved) /\ Approved \subseteq Leaves
  BY FS_Subset, LeaveAssumption DEF Approved
<1>2. \A l \in Leaves : leave[l].days \in Nat
  <2>1. \A l \in Leaves : leave[l] \in LeaveRows
    BY DEF LeaveTypeOK
  <2>2. \A l \in Leaves : leave[l].days \in Lengths \union {0}
    BY <2>1 DEF LeaveRows
  <2>3. Lengths \union {0} \subseteq Nat
    BY LeaveAssumption
  <2> QED BY <2>2, <2>3
<1> QED BY <1>1, <1>2 DEF Days

\* The fold of the community modules is the sum.
LEMMA FoldIsSum ==
  ASSUME LeaveTypeOK
  PROVE  MapThenSumSet(LAMBDA l : leave[l].days, Approved) = Sum(Days, Approved)
<1> DEFINE A      == Approved
           Def(g) == g = [s \in SUBSET A |-> IF s = {} THEN 0
                                             ELSE leave[Chosen(s)].days + g[s \ {Chosen(s)}]]
<1>1. MapThenSumSet(LAMBDA l : leave[l].days, A) = (CHOOSE g : Def(g))[A]
  BY DEF MapThenSumSet, MapThenFoldSet, Chosen
<1>2. \A s \in SUBSET A : s # {} => Days[Chosen(s)] = leave[Chosen(s)].days
  BY ChosenIsMember, DaysOfApproved
<1>3. \A g : Def(g) <=> Sums(g, Days, A)
  BY <1>2 DEF Sums
<1>4. IsFiniteSet(A)
  BY DaysOfApproved
<1> HIDE DEF A, Def
<1>5. \E g : Def(g)
  BY <1>3, <1>4, SumsExist
<1>6. Sums(CHOOSE g : Def(g), Days, A)
  BY <1>3, <1>5
<1>7. (CHOOSE g : Def(g))[A] = Sum(Days, A)
  BY <1>4, <1>6, SumIs
<1> QED BY <1>1, <1>7 DEF A

LEMMA InitLeave == ASSUME ServerInit, LeaveInit PROVE LeaveInv
<1>1. LeaveTypeOK
  BY DEF ServerInit, LeaveInit, LeaveTypeOK, NoAllocation, LeaveRows
<1>2. Approved = {}
  BY DEF Approved, LeaveInit
<1>3. Sum(Days, {}) = 0
  BY SumStep, FS_EmptySet
<1>4. allocation.used = 0
  BY DEF LeaveInit, NoAllocation
<1> QED BY <1>1, <1>2, <1>3, <1>4 DEF LeaveInv, UsedIsApproved, NothingUsedUngiven

\* The requests in progress go on; the approved ones stay, and so does what was taken.
LEMMA UsedStays ==
  ASSUME LeaveInv, LeaveTypeOK', Approved' = Approved,
         \A l \in Approved : leave'[l].days = leave[l].days,
         allocation'.used = allocation.used,
         allocation'.given = NoDays => allocation.given = NoDays
  PROVE  LeaveInv'
<1>1. \A l \in Approved : Days'[l] = Days[l]
  BY DaysOfApproved DEF LeaveInv, Days
<1>2. Sum(Days', Approved) = Sum(Days, Approved)
  BY <1>1, DaysOfApproved, SumSame DEF LeaveInv
<1>3. UsedIsApproved'
  BY <1>2 DEF LeaveInv, UsedIsApproved
<1>4. NothingUsedUngiven'
  BY DEF LeaveInv, NothingUsedUngiven, Allocated
<1> QED BY <1>3, <1>4 DEF LeaveInv

LEMMA LeaveRequestTyped ==
  ASSUME LeaveTypeOK, NEW h \in Requests
  PROVE  /\ Doing(h, "askLeave") => request[h].days \in Lengths
         /\ Doing(h, "decideLeave") => request[h].leave \in Leaves
         /\ Doing(h, "allocate") => request[h].given \in Grants /\ request[h].used \in Int
<1>1. request[h] \in {Idle} \union LeaveRequests
  BY DEF LeaveTypeOK
<1> QED BY <1>1 DEF Doing, Idle, LeaveRequests

LEMMA EndOfLeave ==
  ASSUME LeaveTypeOK, NEW h \in Requests, End(h)
  PROVE  request' \in [Requests -> {Idle} \union LeaveRequests]
BY DEF LeaveTypeOK, End

\* A handler reads and begins, or is abandoned.
LEMMA StepLeaveReads ==
  ASSUME LeaveInv, NEW h \in Requests,
         \/ \E given \in Grants : SetAllocationRead(h, given)
         \/ \E days \in Lengths : CreateLeaveRead(h, days)
         \/ \E l \in Leaves, decision \in {"approved", "rejected"} : DecideLeaveRead(h, l, decision)
         \/ Abandon(h) /\ UNCHANGED leaveVars
  PROVE  LeaveInv'
<1> DEFINE Begins == \E r \in {Idle} \union LeaveRequests : request' = [request EXCEPT ![h] = r]
<1>1. ASSUME NEW given \in Grants, SetAllocationRead(h, given) PROVE Begins
  <2>1. allocation.used \in Int
    BY DEF LeaveInv, LeaveTypeOK
  <2> QED BY <1>1, <2>1 DEF SetAllocationRead, Begin, LeaveRequests, Allocated
<1>2. ASSUME NEW days \in Lengths, CreateLeaveRead(h, days) PROVE Begins
  BY <1>2 DEF CreateLeaveRead, Begin, LeaveRequests
<1>3. ASSUME NEW l \in Leaves, NEW decision \in {"approved", "rejected"}, DecideLeaveRead(h, l, decision)
      PROVE  Begins
  BY <1>3 DEF DecideLeaveRead, Begin, LeaveRequests
<1>4. Begins /\ UNCHANGED leaveVars
  BY <1>1, <1>2, <1>3 DEF SetAllocationRead, CreateLeaveRead, DecideLeaveRead, Abandon, End
<1>5. LeaveTypeOK'
  BY <1>4 DEF LeaveInv, LeaveTypeOK, leaveVars
<1> QED BY <1>4, <1>5, UsedStays DEF leaveVars, Approved

\* What is given changes, and what was taken of it stays.
Allocations == [given : Grants \union {NoDays}, used : Nat, remaining : Nat]

GivenAnew ==
  /\ UNCHANGED leave
  /\ leaveType' \in BOOLEAN /\ policy' \in Grants \union {NoDays}
  /\ request' \in [Requests -> {Idle} \union LeaveRequests]
  /\ allocation' \in Allocations /\ allocation'.used = allocation.used
  /\ allocation'.given = NoDays => allocation.given = NoDays

\* The allocation is set around what was taken of it.
LEMMA StepAllocation ==
  ASSUME LeaveInv,
         \/ CreateLeaveType \/ DeleteLeaveType \/ ApplyDesignationPolicies
         \/ \E given \in Grants, held \in BOOLEAN : SetDesignationAllocation(given, held)
         \/ \E h \in Requests : SetAllocationWrite(h)
  PROVE  LeaveInv'
<1> DEFINE Set(given, n) == [allocation EXCEPT !.given = given, !.remaining = Least(given - n)]
<1>1. /\ allocation \in Allocations /\ allocation.used \in Int
      /\ leaveType \in BOOLEAN /\ policy \in Grants \union {NoDays}
      /\ request \in [Requests -> {Idle} \union LeaveRequests]
  BY DEF LeaveInv, LeaveTypeOK, Allocations
<1>2. ASSUME NEW given \in Grants, NEW n \in Int
      PROVE  /\ Set(given, n) \in Allocations /\ Set(given, n).used = allocation.used
             /\ Set(given, n).given # NoDays
  <2>1. given # NoDays /\ Least(given - n) \in Nat
    BY LeaveAssumption DEF Least
  <2> QED BY <1>1, <2>1 DEF Allocations
<1>3. ASSUME NEW given \in Grants
      PROVE  Fresh(given) \in Allocations /\ Fresh(given).used = 0 /\ Fresh(given).given # NoDays
  BY LeaveAssumption DEF Fresh, Allocations
<1>4. ~Allocated => allocation.used = 0
  BY DEF LeaveInv, NothingUsedUngiven
<1> HIDE DEF Set
<1>5. CASE CreateLeaveType \/ DeleteLeaveType
  <2>1. GivenAnew
    BY <1>1, <1>5 DEF CreateLeaveType, DeleteLeaveType, GivenAnew
  <2> QED BY <2>1, UsedStays DEF GivenAnew, Allocations, LeaveInv, LeaveTypeOK, Approved
<1>6. CASE ApplyDesignationPolicies
  <2>1. policy \in Grants /\ allocation' = Fresh(policy) /\ allocation.used = 0
    BY <1>1, <1>4, <1>6 DEF ApplyDesignationPolicies
  <2>2. GivenAnew
    BY <1>1, <1>3, <1>6, <2>1 DEF ApplyDesignationPolicies, GivenAnew
  <2> QED BY <2>2, UsedStays DEF GivenAnew, Allocations, LeaveInv, LeaveTypeOK, Approved
<1>7. ASSUME NEW given \in Grants, NEW held \in BOOLEAN, SetDesignationAllocation(given, held)
      PROVE  LeaveInv'
  <2>1. \/ allocation' = allocation
        \/ allocation' = Set(given, allocation.used)
        \/ ~Allocated /\ allocation' = Fresh(given)
    BY <1>7 DEF SetDesignationAllocation, Set
  <2>2. policy' = given /\ UNCHANGED <<leaveType, leave, request>>
    BY <1>7 DEF SetDesignationAllocation
  <2>3. GivenAnew
    BY <1>1, <1>2, <1>3, <1>4, <2>1, <2>2 DEF GivenAnew
  <2> QED BY <2>3, UsedStays DEF GivenAnew, Allocations, LeaveInv, LeaveTypeOK, Approved
<1>8. ASSUME NEW h \in Requests, SetAllocationWrite(h) PROVE LeaveInv'
  <2>1. request[h].given \in Grants /\ request[h].used \in Int
    BY <1>8, LeaveRequestTyped DEF LeaveInv, SetAllocationWrite
  <2>2. \/ allocation' = allocation
        \/ allocation' = Set(request[h].given, request[h].used)
        \/ ~Allocated /\ allocation' = Fresh(request[h].given)
    BY <1>8 DEF SetAllocationWrite, Set
  <2>3. UNCHANGED <<leaveType, policy, leave>>
        /\ request' \in [Requests -> {Idle} \union LeaveRequests]
    BY <1>8, EndOfLeave DEF SetAllocationWrite, LeaveInv
  <2>4. GivenAnew
    BY <1>1, <1>2, <1>3, <1>4, <2>1, <2>2, <2>3 DEF GivenAnew
  <2> QED BY <2>4, UsedStays DEF GivenAnew, Allocations, LeaveInv, LeaveTypeOK, Approved
<1> QED BY <1>5, <1>6, <1>7, <1>8

\* A request for leave is entered, or rejected: it was not approved, nor is it now.
LEMMA StepLeaveUnapproved ==
  ASSUME LeaveInv, NEW h \in Requests,
         (\E l \in Leaves : CreateLeaveInsert(h, l)) \/ RejectLeave(h)
  PROVE  LeaveInv'
<1>1. request' \in [Requests -> {Idle} \union LeaveRequests]
  BY EndOfLeave DEF CreateLeaveInsert, RejectLeave, LeaveInv
<1>2. ASSUME NEW l \in Leaves, NEW row \in LeaveRows, leave[l].status # "approved",
             row.status # "approved", leave' = [leave EXCEPT ![l] = row],
             UNCHANGED <<leaveType, policy, allocation>>
      PROVE  LeaveInv'
  <2>1. LeaveTypeOK'
    BY <1>1, <1>2 DEF LeaveInv, LeaveTypeOK
  <2>2. Approved' = Approved /\ \A k \in Approved : leave'[k].days = leave[k].days
    BY <1>2 DEF LeaveInv, LeaveTypeOK, Approved
  <2> QED BY <1>2, <2>1, <2>2, UsedStays
<1>3. ASSUME NEW l \in Leaves, CreateLeaveInsert(h, l) PROVE LeaveInv'
  <2> DEFINE row == [status |-> "pending", days |-> request[h].days]
  <2>1. row \in LeaveRows /\ row.status = "pending"
    BY <1>3, LeaveRequestTyped DEF CreateLeaveInsert, LeaveInv, LeaveRows
  <2>2. /\ leave[l].status # "approved" /\ leave' = [leave EXCEPT ![l] = row]
        /\ UNCHANGED <<leaveType, policy, allocation>>
    BY <1>3 DEF CreateLeaveInsert
  <2> HIDE DEF row
  <2> QED BY <1>2, <2>1, <2>2
<1>4. CASE RejectLeave(h)
  <2>1. PICK l \in Leaves : l = request[h].leave
    BY <1>4, LeaveRequestTyped DEF RejectLeave, LeaveInv
  <2>2. UNCHANGED <<leaveType, policy, allocation>>
    BY <1>4 DEF RejectLeave
  <2>3. CASE ~StillPending(l)
    <3>1. UNCHANGED leave
      BY <1>4, <2>1, <2>3 DEF RejectLeave
    <3> QED BY <1>1, <2>2, <3>1, UsedStays DEF LeaveInv, LeaveTypeOK, Approved
  <2>4. CASE StillPending(l)
    <3> DEFINE row == [leave[l] EXCEPT !.status = "rejected"]
    <3>1. leave[l] \in LeaveRows
      BY DEF LeaveInv, LeaveTypeOK
    <3>2. row \in LeaveRows /\ row.status = "rejected"
      BY <3>1 DEF LeaveRows
    <3>3. leave[l].status # "approved" /\ leave' = [leave EXCEPT ![l] = row]
      BY <1>4, <2>1, <2>4 DEF RejectLeave, StillPending
    <3> HIDE DEF row
    <3> QED BY <1>2, <2>2, <3>2, <3>3
  <2> QED BY <2>3, <2>4
<1> QED BY <1>3, <1>4

\* An approval takes the days of a request that was pending until now.
LEMMA StepApproveLeave ==
  ASSUME LeaveInv, NEW h \in Requests, ApproveLeave(h) PROVE LeaveInv'
<1>1. PICK l \in Leaves : l = request[h].leave
  BY LeaveRequestTyped DEF ApproveLeave, LeaveInv
<1>2. /\ request' \in [Requests -> {Idle} \union LeaveRequests]
      /\ UNCHANGED <<leaveType, policy>>
  BY EndOfLeave DEF ApproveLeave, LeaveInv
<1>3. CASE UNCHANGED <<allocation, leave>>
  BY <1>2, <1>3, UsedStays DEF LeaveInv, LeaveTypeOK, Approved
<1>4. CASE Allocated /\ allocation.remaining >= leave[l].days /\ StillPending(l)
  <2> DEFINE days == leave[l].days
             row  == [leave[l] EXCEPT !.status = "approved"]
             rest == [allocation EXCEPT !.used = @ + days, !.remaining = @ - days]
  <2>1. days \in Nat /\ Days[l] = days
    BY DaysOfApproved DEF LeaveInv
  <2>2. leave[l] \in LeaveRows /\ allocation \in Allocations
    BY DEF LeaveInv, LeaveTypeOK, Allocations
  <2>3. row \in LeaveRows /\ row.status = "approved" /\ row.days = days
    BY <2>2 DEF LeaveRows
  <2>4. allocation' = rest /\ leave' = [leave EXCEPT ![l] = row]
    BY <1>1, <1>4 DEF ApproveLeave
  <2>5. /\ rest \in Allocations /\ rest.used = allocation.used + days
        /\ rest.given = allocation.given
    <3>1. ASSUME NEW old \in Allocations, NEW used \in Nat, NEW m \in Nat
          PROVE  LET taken == [old EXCEPT !.used = used, !.remaining = m]
                 IN  taken \in Allocations /\ taken.used = used /\ taken.given = old.given
      BY DEF Allocations
    <3>2. allocation.used + days \in Nat /\ allocation.remaining - days \in Nat
      BY <1>4, <2>1, <2>2 DEF Allocations
    <3>3. rest = [allocation EXCEPT !.used = allocation.used + days,
                                    !.remaining = allocation.remaining - days]
      OBVIOUS
    <3> QED BY <2>2, <3>1, <3>2, <3>3
  <2> HIDE DEF days, row, rest
  <2>6. LeaveTypeOK'
    BY <1>2, <2>3, <2>4, <2>5 DEF LeaveInv, LeaveTypeOK, Allocations
  <2>7. Days' = Days
    BY <2>3, <2>4 DEF LeaveInv, LeaveTypeOK, Days, days
  <2>8. Approved' = Approved \union {l} /\ l \notin Approved
    BY <1>4, <2>3, <2>4 DEF LeaveInv, LeaveTypeOK, Approved, StillPending
  <2>9. Sum(Days, Approved') = days + Sum(Days, Approved)
    <3>1. IsFiniteSet(Approved') /\ \A k \in Approved' : Days[k] \in Nat
      BY <2>8, DaysOfApproved, FS_AddElement DEF LeaveInv
    <3>2. l \in Approved' /\ Approved' \ {l} = Approved
      BY <2>8
    <3>3. Sum(Days, Approved') = Days[l] + Sum(Days, Approved' \ {l})
      BY <3>1, <3>2, SumOfMember
    <3> QED BY <2>1, <3>2, <3>3
  <2>10. UsedIsApproved'
    <3>1. allocation.used = Sum(Days, Approved) /\ allocation.used \in Nat
      BY DEF LeaveInv, LeaveTypeOK, UsedIsApproved
    <3> QED BY <2>1, <2>4, <2>5, <2>7, <2>9, <3>1 DEF UsedIsApproved
  <2>11. NothingUsedUngiven'
    BY <1>4, <2>4, <2>5 DEF NothingUsedUngiven, Allocated
  <2> QED BY <2>6, <2>10, <2>11 DEF LeaveInv
<1> QED BY <1>1, <1>3, <1>4 DEF ApproveLeave

LEMMA StepLeave == ASSUME LeaveInv, [LeaveNext]_<<request, leaveVars>> PROVE LeaveInv'
<1>1. CASE UNCHANGED <<request, leaveVars>>
  <2>1. LeaveTypeOK' /\ Approved' = Approved /\ UNCHANGED <<allocation, leave>>
    BY <1>1 DEF LeaveInv, LeaveTypeOK, Approved, leaveVars
  <2> QED BY <2>1, UsedStays
<1>2. CASE LeaveNext
  BY <1>2, StepLeaveReads, StepAllocation, StepLeaveUnapproved, StepApproveLeave DEF LeaveNext
<1> QED BY <1>1, <1>2

LEMMA LeaveInvariant == LeaveSpec => []LeaveInv
BY InitLeave, StepLeave, PTL DEF LeaveSpec

LEMMA OnlyApprovedTaken == LeaveInv => OnlyApprovedCounts
BY FoldIsSum DEF LeaveInv, UsedIsApproved, OnlyApprovedCounts, Approved

\* The days counted as taken are those of the approved requests, each once, with any
\* number of requests, decisions at the same time and allocations set around them.
THEOREM TakenIsApproved == LeaveSpec => []OnlyApprovedCounts
BY LeaveInvariant, OnlyApprovedTaken, PTL
============================================================================
