----------------------------- MODULE MCLiveness -----------------------------
(* Components that share no state, whose threads must not wait for ever: each behaviour is one of a      *)
(* single component, while the others stay in an initial state (the storage of a database: closed).      *)
EXTENDS RegistrationManager, FiniteSets, TLC

CONSTANTS Table, Locked, MaxWrite, Overlap, Thread, Actor, Num, Nse, MaxNote

VARIABLES
  component,  \* never changes
  data, file, changed, writeEvent, running, shuttingDown, dumped, writing, client, writer, due, overlap,
  notifications, last, batch, sent, subscribed, flushing, pooled, pc, overlapBatch

storageVars == <<data, file, changed, writeEvent, running, shuttingDown, dumped, writing, client, writer, due,
                 overlap>>
batchVars == <<notifications, last, batch, sent, subscribed, flushing, pooled, pc, overlapBatch>>

Batch == INSTANCE BatchNotification WITH table <- notifications, overlap <- overlapBatch
Store == INSTANCE BufferedStorage

ASSUME LivenessAssumption == Store!StorageAssumption /\ Batch!BatchAssumption

Closed ==
  /\ data = 0 /\ file = 0 /\ dumped = 0 /\ due = 0
  /\ changed = FALSE /\ writeEvent = FALSE /\ running = FALSE /\ shuttingDown = TRUE
  /\ writing = [t \in Table |-> "idle"] /\ client = "closed" /\ writer = "ended" /\ overlap = FALSE

InitOne ==
  /\ component \in {"storage", "batch", "registrations"}
  /\ IF component = "storage" THEN Store!Init ELSE Closed
  /\ Batch!Init /\ (component # "batch" => ~overlapBatch)
  /\ Init /\ (component # "registrations" => undisturbed /\ ~together)

NextOne ==
  /\ UNCHANGED component
  /\ IF component = "storage" THEN Store!Next ELSE UNCHANGED storageVars
  /\ IF component = "batch" THEN Batch!Next ELSE UNCHANGED batchVars
  /\ IF component = "registrations" THEN Next ELSE UNCHANGED registrationVars

SpecOne == InitOne /\ [][NextOne]_<<component, storageVars, batchVars, registrationVars>>

\* The fairness of the component.
FairSpecOne ==
  /\ SpecOne
  /\ WF_storageVars(component = "storage" /\ Store!_fileWriter /\ UNCHANGED overlap)
  /\ WF_storageVars(component = "storage" /\ Store!closeStep /\ UNCHANGED overlap)
  /\ \A t \in Table : WF_storageVars(component = "storage" /\ writing[t] # "idle" /\ Store!write(t) /\ UNCHANGED overlap)
  /\ \A p \in Batch!Process :
       /\ WF_batchVars(component = "batch" /\ Batch!Step(p) /\ UNCHANGED overlapBatch)
       /\ SF_batchVars(component = "batch" /\ Batch!lockBatchNotification(p) /\ UNCHANGED overlapBatch)
  /\ WF_registrationVars(component = "registrations" /\ expirationDBMonitor)
  /\ WF_registrationVars(component = "registrations" /\ ExpireNext)

------------------------------------------------------------------------------
(* Properties, as the modules state them.                                  *)

\* A database file: when close() returns the file contains every change that was announced before.
CloseSavesAll == Store!CloseSavesAll

\* What is announced gets to the file.
EventuallyWritten == Store!EventuallyWritten

\* Batch notifications: batches leave one after the other, no notification twice or after one that was stored
\* later.
InOrder == Batch!InOrder

\* A notification that was stored is sent.
EventuallySent == Batch!EventuallySent
=============================================================================
