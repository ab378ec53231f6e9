--------------------------- MODULE DocumentCatalogue ---------------------------
(***************************************************************************)
(* The catalogue of document types and the copy of it that the document    *)
(* service keeps (documentTypes.controller.js, documentTypeSync.js).       *)
(*                                                                         *)
(* Every edit is committed first and pushed afterwards, in the background: *)
(* a push reads all active types and sends them in one call that replaces  *)
(* what the service had.  Nothing orders two pushes, and only the push at  *)
(* boot is tried again by itself.  The service keeps nothing on disk.      *)
(***************************************************************************)
EXTENDS Server, Naturals

CONSTANTS
  Types,          \* rows of document_types
  BootAttempts,   \* attempts of syncDocumentTypesOnBoot
  MaxPushes       \* bound: pushes under way at the same time

ASSUME CatalogueAssumption == BootAttempts \in Nat \ {0} /\ MaxPushes \in Nat \ {0}

VARIABLES
  documentType,   \* document_types: absent, active or inactive
  service,        \* what the document service resolves, and whether it runs
  pushes          \* pushes by slot; [try |-> 0] is a push after an edit

catalogueVars == <<documentType, service, pushes>>

PushSlots == 1 .. MaxPushes

NoPush   == [at |-> "none", try |-> 0, sent |-> {}]
PushRows == [at : {"none", "scheduled", "sent"}, try : 0 .. BootAttempts, sent : SUBSET Types]

CatalogueRequests == [kind : {"putType"}, type : Types, status : {"active", "inactive"}]

CatalogueTypeOK ==
  /\ documentType \in [Types -> {"absent", "active", "inactive"}]
  /\ service \in [up : BOOLEAN, known : SUBSET Types]
  /\ pushes \in [PushSlots -> PushRows]
  /\ request \in [Requests -> {Idle} \union CatalogueRequests]

CatalogueInit ==
  /\ documentType = [t \in Types |-> "absent"]
  /\ service = [up |-> FALSE, known |-> {}]
  /\ pushes = [s \in PushSlots |-> NoPush]

----------------------------------------------------------------------------
readActiveCatalogue == {t \in Types : documentType[t] = "active"}

\* setImmediate(pushDocumentTypeCatalogue).
SyncInBackground(s) ==
  /\ pushes[s].at = "none"
  /\ pushes' = [pushes EXCEPT ![s] = [NoPush EXCEPT !.at = "scheduled"]]

\* createDocumentType: the INSERT, or the 409 of the unique label; the service
\* is asked for its schemas before, and being out of reach does not matter.
CreateDocumentType(t, status, s) ==
  /\ documentType[t] = "absent"
  /\ documentType' = [documentType EXCEPT ![t] = status]
  /\ SyncInBackground(s)
  /\ UNCHANGED <<service, request>>

\* updateDocumentType reads the row, may ask the service, and writes all columns.
UpdateRead(h, t, status) ==
  /\ documentType[t] # "absent"
  /\ Begin(h, [kind |-> "putType", type |-> t, status |-> status])
  /\ UNCHANGED catalogueVars

UpdateWrite(h, s) ==
  /\ Doing(h, "putType")
  /\ LET t == request[h].type
     IN documentType' = [documentType EXCEPT ![t] = IF @ = "absent" THEN @ ELSE request[h].status]
  /\ SyncInBackground(s)
  /\ End(h)
  /\ UNCHANGED service

DeleteDocumentType(t, s) ==
  /\ documentType[t] # "absent"
  /\ documentType' = [documentType EXCEPT ![t] = "absent"]
  /\ SyncInBackground(s)
  /\ UNCHANGED <<service, request>>

----------------------------------------------------------------------------
\* The server starts: attempt 1 of syncDocumentTypesOnBoot, and no push survives.
BackendRestarts ==
  /\ pushes' = [s \in PushSlots |-> IF s = 1 THEN [at |-> "scheduled", try |-> 1, sent |-> {}]
                                         ELSE NoPush]
  /\ request' = [h \in Requests |-> Idle]
  /\ UNCHANGED <<documentType, service>>

\* The document service comes up, or goes down with all it was told.
ServiceStarts ==
  /\ ~service.up
  /\ service' = [up |-> TRUE, known |-> {}]
  /\ UNCHANGED <<documentType, pushes, request>>

ServiceStops ==
  /\ service.up
  /\ service' = [up |-> FALSE, known |-> {}]
  /\ UNCHANGED <<documentType, pushes, request>>

\* pushDocumentTypeCatalogue reads, then calls the service.
PushRead(s) ==
  /\ pushes[s].at = "scheduled"
  /\ pushes' = [pushes EXCEPT ![s].at = "sent", ![s].sent = readActiveCatalogue]
  /\ UNCHANGED <<documentType, service, request>>

\* REPLACE on the side of the service.
PushArrives(s) ==
  /\ pushes[s].at = "sent"
  /\ service.up
  /\ service' = [service EXCEPT !.known = pushes[s].sent]
  /\ pushes' = [pushes EXCEPT ![s] = NoPush]
  /\ UNCHANGED <<documentType, request>>

\* Out of reach: an attempt of the boot is repeated, every other push is forgotten.
PushFails(s) ==
  /\ pushes[s].at = "sent"
  /\ ~service.up
  /\ pushes' = [pushes EXCEPT ![s] =
       IF @.try \in 1 .. BootAttempts - 1
       THEN [at |-> "scheduled", try |-> @.try + 1, sent |-> {}]
       ELSE NoPush]
  /\ UNCHANGED <<documentType, service, request>>

CatalogueNext ==
  \/ BackendRestarts \/ ServiceStarts \/ ServiceStops
  \/ \E s \in PushSlots :
       \/ PushRead(s) \/ PushArrives(s) \/ PushFails(s)
       \/ \E t \in Types :
            \/ \E status \in {"active", "inactive"} : CreateDocumentType(t, status, s)
            \/ DeleteDocumentType(t, s)
       \/ \E h \in Requests : UpdateWrite(h, s)
  \/ \E h \in Requests :
       \/ \E t \in Types, status \in {"active", "inactive"} : UpdateRead(h, t, status)
       \/ Abandon(h) /\ UNCHANGED catalogueVars

DocumentCatalogueSpec == ServerInit /\ CatalogueInit /\ [][CatalogueNext]_<<request, catalogueVars>>
============================================================================
