-------------------------------- MODULE Assets --------------------------------
(***************************************************************************)
(* The asset register: one category, its assets, who holds each of them    *)
(* and whether a maintenance job is open (assets.service.js).              *)
(*                                                                         *)
(* Every handler that names an asset locks its row first (loadAsset ...    *)
(* FOR UPDATE), so assigning, returning, reporting, retiring and           *)
(* reinstating are single steps.  completeMaintenance locks only the job:  *)
(* its counts are those of its snapshot, and its UPDATE of the asset waits *)
(* for whoever holds that row.  Deleting a category counts, then deletes.  *)
(***************************************************************************)
EXTENDS Server

CONSTANTS
  Assets,
  Employees,
  Nobody          \* no open row in asset_assignments

ASSUME CustodyAssumption == Nobody \notin Employees

VARIABLES
  category,       \* asset_categories, the row of the one category
  asset           \* assets, with the open rows that refer to each

custodyVars == <<category, asset>>

Held(a) == asset[a].holder # Nobody

AssetRows == [status : {"absent", "available", "assigned", "maintenance", "retired"},
              holder : Employees \union {Nobody},    \* asset_assignments
              job    : BOOLEAN]                      \* asset_maintenance

NoAsset == [status |-> "absent", holder |-> Nobody, job |-> FALSE]

AssetRequests ==
  [kind : {"createAsset", "deleteCategory"}]
    \union [kind : {"closeJob"}, asset : Assets, held : BOOLEAN]

AssetsTypeOK ==
  /\ category \in {"absent", "active", "inactive"}
  /\ asset \in [Assets -> AssetRows]

AssetsInit ==
  /\ category = "active"
  /\ asset = [a \in Assets |-> NoAsset]

----------------------------------------------------------------------------
\* Categories and the register

\* createCategory, or updateCategory switching is_active.
PutCategory ==
  /\ category' \in {"active", "inactive"} \ {category}
  /\ UNCHANGED <<asset, request>>

\* deleteCategory: the count, then the DELETE, whose foreign key takes the
\* assets along that were registered in between.
CountCategory(h) ==
  /\ category # "absent"
  /\ \A a \in Assets : asset[a] = NoAsset
  /\ Begin(h, [kind |-> "deleteCategory"])
  /\ UNCHANGED custodyVars

DeleteCategory(h) ==
  /\ Doing(h, "deleteCategory")
  /\ \A g \in Requests : ~Doing(g, "closeJob")    \* the cascade waits for it
  /\ category' = "absent"
  /\ asset' = [a \in Assets |-> NoAsset]
  /\ End(h)

\* createAsset: the category is read without a lock, the foreign key holds.
CreateAssetRead(h) ==
  /\ category = "active"
  /\ Begin(h, [kind |-> "createAsset"])
  /\ UNCHANGED custodyVars

CreateAssetInsert(h) ==
  /\ Doing(h, "createAsset")
  /\ category # "absent"
  /\ \E a \in Assets : /\ asset[a] = NoAsset
                       /\ asset' = [asset EXCEPT ![a].status = "available"]
  /\ End(h)
  /\ UNCHANGED category

----------------------------------------------------------------------------
\* Custody and maintenance

\* Mutant: the status is derived from the assignment alone.
ShownHeld(held, open) == IF held THEN "assigned" ELSE "available"

\* What syncStatus derives from the open rows.
Shown(held, open) == IF open THEN "maintenance" ELSE IF held THEN "assigned" ELSE "available"

\* syncStatus at the end of a transaction; a retired asset stays retired.
Synced(row) ==
  IF row.status = "retired" THEN row
  ELSE [row EXCEPT !.status = Shown(row.holder # Nobody, row.job)]

AssignAsset(a, e) ==
  /\ asset[a].status = "available"
  /\ ~Held(a)                              \* uk_asset_assignments_open
  /\ asset' = [asset EXCEPT ![a] = Synced([@ EXCEPT !.holder = e])]
  /\ UNCHANGED <<category, request>>

\* A second open job would break uk_asset_maintenance_open and roll back.
ReturnAsset(a, condition) ==
  /\ asset[a].status # "retired"
  /\ Held(a)
  /\ condition = "good" \/ ~asset[a].job
  /\ LET job == asset[a].job \/ condition # "good"
     IN asset' = [asset EXCEPT ![a] = Synced([@ EXCEPT !.holder = Nobody, !.job = job])]
  /\ UNCHANGED <<category, request>>

ReportMaintenance(a) ==
  /\ asset[a].status \notin {"absent", "retired"}
  /\ ~asset[a].job
  /\ asset' = [asset EXCEPT ![a] = Synced([@ EXCEPT !.job = TRUE])]
  /\ UNCHANGED <<category, request>>

\* completeMaintenance up to its counts.  The lock on the job keeps others out.
CloseJobRead(h, a) ==
  /\ asset[a].job
  /\ \A g \in Requests : Doing(g, "closeJob") => request[g].asset # a
  /\ Begin(h, [kind |-> "closeJob", asset |-> a, held |-> Held(a)])
  /\ UNCHANGED custodyVars

\* Its UPDATE of the asset and the commit: the status of what it counted.
CloseJobCommit(h) ==
  /\ Doing(h, "closeJob")
  /\ LET r == request[h]
     IN asset' = [asset EXCEPT ![r.asset].job = FALSE,
                               ![r.asset].status = IF @ = "retired" THEN @
                                                   ELSE Shown(r.held, FALSE)]
  /\ End(h)
  /\ UNCHANGED category

RetireAsset(a) ==
  /\ asset[a].status = "available"
  /\ asset' = [asset EXCEPT ![a].status = "retired"]
  /\ UNCHANGED <<category, request>>

\* No condition on the status: an asset that is not retired is only recomputed.
ReinstateAsset(a) ==
  /\ asset[a].status # "absent"
  /\ asset' = [asset EXCEPT ![a].status = Shown(Held(a), asset[a].job)]
  /\ UNCHANGED <<category, request>>

AssetsNext ==
  \/ PutCategory
  \/ \E h \in Requests :
       \/ CountCategory(h) \/ DeleteCategory(h)
       \/ CreateAssetRead(h) \/ CreateAssetInsert(h)
       \/ CloseJobCommit(h)
       \/ \E a \in Assets : CloseJobRead(h, a)
  \/ \E a \in Assets :
       \/ \E e \in Employees : AssignAsset(a, e)
       \/ \E condition \in {"good", "damaged", "needs_maintenance"} : ReturnAsset(a, condition)
       \/ ReportMaintenance(a)
       \/ RetireAsset(a) \/ ReinstateAsset(a)

----------------------------------------------------------------------------
\* Open rows always show: what somebody holds is not offered to anybody else
\* nor scrapped, and what is on the bench is shown there, whatever a closing
\* job writes over the row.  (The other direction fails: an asset returned
\* while its job closes stays 'assigned' to nobody until it is recomputed.)
CustodyShown ==
  \A a \in Assets :
    /\ Held(a) => asset[a].status \in {"assigned", "maintenance"}
    /\ asset[a].job => asset[a].status = "maintenance"
============================================================================
