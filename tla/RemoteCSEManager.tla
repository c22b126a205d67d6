--------------------------- MODULE RemoteCSEManager ---------------------------
(***************************************************************************)
(* CSEs that register at each other. Every CSE has a monitor that creates  *)
(* a <csr> for it at its registrar and checks the registrations below it.  *)
(* The changes that other CSEs make to their <csr>s reach the manager as   *)
(* events, which run as jobs in the background: they keep the list of      *)
(* descendants and pass it on in the CSE's own <csr> at its registrar.     *)
(***************************************************************************)
EXTENDS Naturals, Sequences, FiniteSets, Functions

CONSTANTS
  Cse,             \* CSE-IDs
  Registrar,       \* the CSE each CSE registers at, None for the IN-CSE
  CheckLiveliness, \* settings of cse.registration.checkLiveliness: a subset of BOOLEAN
  Overlap,         \* {} for CSEs whose threads do not overlap; sets of CSEs that are there alone
                   \* and whose threads do
  MaxIncident,     \* bound on shutdowns, crashes, unanswered requests and changes of a <CSEBase>
  None

\* The registrars are a forest: a CSE is deeper than its registrar.
ASSUME RegistrarAssumption ==
  /\ IsFiniteSet(Cse) /\ None \notin Cse
  /\ Registrar \in [Cse -> Cse \cup {None}]
  /\ \E depth \in [Cse -> 0..Cardinality(Cse)] :
       \A c \in Cse : Registrar[c] # None => depth[Registrar[c]] < depth[c]
  /\ CheckLiveliness \subseteq BOOLEAN /\ Overlap \subseteq SUBSET Cse /\ MaxIncident \in Nat

VARIABLES
  csr,             \* <csr>s stored under the <CSEBase> of each CSE, with their dcse
  descendantCSR,   \* the CSEs each CSE knows to be below it, and where they are registered
  registrarCSE,    \* the CSEs that have a registrar CSE
  running,         \* the CSEs that are up
  jobs,            \* events of each CSE that wait for a background thread
  sending,         \* lists of descendants about to be sent to the registrar by a job
  monitor,         \* what the monitor thread of each CSE does
  incidents,       \* how many there have been
  disturbed,       \* whether there has been a crash or an unanswered request
  checkLiveliness, overlap \* never change

vars == <<csr, descendantCSR, registrarCSE, running, jobs, sending, monitor, incidents,
          disturbed, checkLiveliness, overlap>>

\* The CSEs there are.
Present == IF overlap = {} THEN Cse ELSE overlap

Below(c) == {d \in Cse : Registrar[d] = c}
\* An ASN-CSE and an MN-CSE have a registrar, an MN-CSE and an IN-CSE have registrees.
HasRegistrar(c) == Registrar[c] # None
HasRegistrees(c) == Below(c) # {}

Event == [type : {"registered", "deregistered", "updated", "registeredToRegistrarCSE",
                  "deregisteredFromRegistrarCSE"},
          csi : Cse, dcse : SUBSET Cse]

Monitor == [pc : {"idle", "retrieveCSR", "retrieveCSE", "compare", "update", "disconnect", "recreate", "delete",
                  "create", "register", "localCSR", "failed", "registrees", "deleteCSR",
                  "stop", "stopped"},
            dcse : SUBSET Cse,   \* the list of descendants of the request to send
            csrs : SUBSET Cse,   \* registrees that are still to be checked
            csi : Cse \cup {None}, bound : BOOLEAN]

\* Functions from some of the CSEs to a set, and such a function with one more value.
Map(S) == UNION {[T -> S] : T \in SUBSET Cse}
With(f, x, v) == [y \in DOMAIN f \cup {x} |-> IF y = x THEN v ELSE f[y]]

TypeOK ==
  /\ csr \in [Cse -> Map(SUBSET Cse)]
  /\ descendantCSR \in [Cse -> Map(Cse)]
  /\ registrarCSE \subseteq Cse /\ running \subseteq Cse
  /\ jobs \in [Cse -> Seq(Event)] /\ sending \in [Cse -> SUBSET SUBSET Cse]
  /\ monitor \in [Cse -> Monitor]
  /\ incidents \in 0..MaxIncident
  /\ disturbed \in BOOLEAN /\ checkLiveliness \in BOOLEAN /\ overlap \subseteq Cse

Idle == [pc |-> "idle", dcse |-> {}, csrs |-> {}, csi |-> None, bound |-> FALSE]
LocalRegistrarCSR(c) == Registrar[c] \in DOMAIN csr[c]
Descendants(c) == DOMAIN descendantCSR[c]

\* When its threads do not overlap, a CSE deals with its events one after the other and with none
\* while its monitor works, and it serves no request during the check of the registrees.
MayHandle(c) == c \in overlap \/ (monitor[c] = Idle /\ sending[c] = {})
MayMonitor(c) == c \in overlap \/ (jobs[c] = <<>> /\ sending[c] = {})
MayServe(c) == c \in overlap \/ monitor[c].pc \notin {"registrees", "deleteCSR"}

Init ==
  /\ csr = [c \in Cse |-> <<>>]
  /\ descendantCSR = [c \in Cse |-> <<>>]
  /\ registrarCSE = {}
  /\ jobs = [c \in Cse |-> <<>>]
  /\ sending = [c \in Cse |-> {}]
  /\ monitor = [c \in Cse |-> Idle]
  /\ incidents = 0 /\ disturbed = FALSE
  /\ checkLiveliness \in CheckLiveliness /\ overlap \in Overlap
  /\ running = Present

-----------------------------------------------------------------------------
(* Requests of CSE c to its registrar, and what they do there.             *)

Raise(c, events) == jobs' = [jobs EXCEPT ![c] = @ \o events]
NewEvent(type, csi, dcse) == [type |-> type, csi |-> csi, dcse |-> dcse]

\* RETRIEVE of the <CSEBase>, and of the own <csr>.
RetrieveCSE(c) == [rsc |-> "OK", csr |-> csr[Registrar[c]], events |-> <<>>]
RetrieveCSR(c) ==
  [rsc |-> IF c \in DOMAIN csr[Registrar[c]] THEN "OK" ELSE "NOT_FOUND",
   csr |-> csr[Registrar[c]], events |-> <<>>]

CreateCSR(c, dcse) ==
  IF c \in DOMAIN csr[Registrar[c]]
    THEN [rsc |-> "CONFLICT", csr |-> csr[Registrar[c]], events |-> <<>>]
    ELSE [rsc |-> "CREATED", csr |-> With(csr[Registrar[c]], c, dcse),
          events |-> <<NewEvent("registered", c, dcse)>>]

UpdateCSR(c, dcse) ==
  IF c \notin DOMAIN csr[Registrar[c]]
    THEN [rsc |-> "NOT_FOUND", csr |-> csr[Registrar[c]], events |-> <<>>]
    ELSE [rsc |-> "UPDATED", csr |-> With(csr[Registrar[c]], c, dcse),
          events |-> <<NewEvent("updated", c, dcse)>>]

\* The deletion sends the same event twice: before the <csr> is removed, and afterwards.
DeleteCSR(c) ==
  IF c \notin DOMAIN csr[Registrar[c]]
    THEN [rsc |-> "NOT_FOUND", csr |-> csr[Registrar[c]], events |-> <<>>]
    ELSE [rsc |-> "DELETED", csr |-> Restrict(csr[Registrar[c]], DOMAIN csr[Registrar[c]] \ {c}),
          events |-> [i \in 1..2 |-> NewEvent("deregistered", c, csr[Registrar[c]][c])]]

NoAnswer == {"TARGET_NOT_REACHABLE", "REQUEST_TIMEOUT"}

\* A bound: a request that gets lost is an incident, but not the update after a change, which was one.
Incident(c) ==
  \/ monitor[c].pc = "update" /\ UNCHANGED incidents
  \/ incidents < MaxIncident /\ incidents' = incidents + 1

\* The request may get lost, or its answer.
handleSendRequest(c, request, rsc) ==
  \/ /\ Registrar[c] \in running /\ MayServe(Registrar[c])
     /\ rsc = request.rsc
     /\ csr' = [csr EXCEPT ![Registrar[c]] = request.csr]
     /\ Raise(Registrar[c], request.events)
     /\ UNCHANGED <<incidents, disturbed>>
  \/ /\ rsc \in NoAnswer
     /\ \/ Registrar[c] \notin running /\ UNCHANGED <<csr, jobs, incidents>>
        \/ Registrar[c] \in running /\ Incident(c) /\ UNCHANGED <<csr, jobs>>
        \/ /\ Registrar[c] \in running /\ MayServe(Registrar[c])
           /\ Incident(c)
           /\ csr' = [csr EXCEPT ![Registrar[c]] = request.csr]
           /\ Raise(Registrar[c], request.events)
     /\ disturbed' = TRUE

-----------------------------------------------------------------------------
(* The monitor of CSE c.                                                   *)

Goto(c, pc) == monitor' = [monitor EXCEPT ![c].pc = pc]
Next1(c, m) == monitor' = [monitor EXCEPT ![c] = m]

\* The registrar has been looked after: the registrees follow, except in an ASN-CSE.
Checked(c) ==
  IF checkLiveliness /\ HasRegistrees(c)
    THEN [Idle EXCEPT !.pc = "registrees", !.csrs = DOMAIN csr[c] \ {Registrar[c]}]
    ELSE Idle

unchangedByMonitor == <<descendantCSR, running, sending, checkLiveliness, overlap>>
unchangedLocally == <<unchangedByMonitor, incidents, disturbed>>

connectionMonitorWorker(c) ==
  /\ c \in running /\ monitor[c] = Idle /\ MayMonitor(c)
  /\ IF HasRegistrar(c)
       THEN /\ checkLiveliness \/ ~LocalRegistrarCSR(c)
            /\ Goto(c, IF LocalRegistrarCSR(c) THEN "retrieveCSR" ELSE "delete")
       ELSE Checked(c).csrs # {} /\ Next1(c, Checked(c))
  /\ UNCHANGED <<csr, jobs, registrarCSE, unchangedLocally>>

\* Mutant of checkOwnCSR: a registrar that does not know the <csr> is left alone.
checkOwnCSRTrusting(c) ==
  /\ monitor[c].pc = "retrieveCSR"
  /\ \E rsc \in {"OK", "NOT_FOUND"} \cup NoAnswer :
       /\ handleSendRequest(c, RetrieveCSR(c), rsc)
       /\ IF rsc = "OK" THEN monitor' = [monitor EXCEPT ![c].pc = "retrieveCSE", ![c].bound = TRUE]
          ELSE Next1(c, Checked(c))
  /\ UNCHANGED <<registrarCSE, unchangedByMonitor>>

\* There is a local <csr> of the registrar: is the own one still there?
checkOwnCSR(c) ==
  /\ monitor[c].pc = "retrieveCSR"
  /\ \E rsc \in {"OK", "NOT_FOUND"} \cup NoAnswer :
       /\ handleSendRequest(c, RetrieveCSR(c), rsc)
       /\ CASE rsc = "OK" -> monitor' = [monitor EXCEPT ![c].pc = "retrieveCSE", ![c].bound = TRUE]
            [] rsc = "TARGET_NOT_REACHABLE" -> Next1(c, Checked(c)) \* assume it is still there
            [] OTHER -> Goto(c, "disconnect")
  /\ UNCHANGED <<registrarCSE, unchangedByMonitor>>

\* Then look for changes of the registrar.
checkRegistrarCSE(c) ==
  /\ monitor[c].pc = "retrieveCSE"
  /\ \E rsc \in {"OK"} \cup NoAnswer :
       /\ handleSendRequest(c, RetrieveCSE(c), rsc)
       /\ registrarCSE' = IF rsc = "OK" THEN registrarCSE \cup {c} ELSE registrarCSE \ {c}
  /\ Goto(c, "compare")
  /\ UNCHANGED unchangedByMonitor

\* The own <CSEBase> may have been changed since the own <csr> was written.
checkOwnCSE(c) ==
  /\ monitor[c].pc = "compare"
  /\ \/ /\ incidents < MaxIncident /\ incidents' = incidents + 1
        /\ monitor' = [monitor EXCEPT ![c].pc = "update", ![c].dcse = Descendants(c)]
     \/ Next1(c, Checked(c)) /\ UNCHANGED incidents
  /\ UNCHANGED <<csr, jobs, registrarCSE, disturbed, unchangedByMonitor>>

updateOwnCSR(c) ==
  /\ monitor[c].pc = "update"
  /\ \E rsc \in {"UPDATED", "NOT_FOUND"} \cup NoAnswer :
       /\ handleSendRequest(c, UpdateCSR(c, monitor[c].dcse), rsc)
       /\ IF rsc \in {"UPDATED", "TARGET_NOT_REACHABLE"} THEN Next1(c, Checked(c))
                                                         ELSE Goto(c, "disconnect")
  /\ UNCHANGED <<registrarCSE, unchangedByMonitor>>

\* Otherwise remove the local <csr> of the registrar and register again.
disconnect(c) ==
  /\ monitor[c].pc = "disconnect"
  /\ csr' = [csr EXCEPT ![c] = Restrict(@, DOMAIN @ \ {Registrar[c]})]
  /\ Raise(c, <<NewEvent("deregistered", Registrar[c], {})>>)
  /\ registrarCSE' = registrarCSE \ {c}
  /\ monitor' = [monitor EXCEPT ![c].pc = "recreate", ![c].dcse = Descendants(c)]
  /\ UNCHANGED unchangedLocally

\* A CONFLICT is passed over, but leaves the variable for the <csr> as it is: without a value, unless the own
\* <csr> was found before and only its update has failed.
recreateCSR(c) ==
  /\ monitor[c].pc = "recreate"
  /\ \E rsc \in {"CREATED", "CONFLICT"} \cup NoAnswer :
       /\ handleSendRequest(c, CreateCSR(c, monitor[c].dcse), rsc)
       /\ Goto(c, IF rsc = "CREATED" \/ (rsc = "CONFLICT" /\ monitor[c].bound) THEN "register" ELSE "failed")
  /\ UNCHANGED <<registrarCSE, unchangedByMonitor>>

disconnected(c) ==
  /\ monitor[c].pc = "failed"
  /\ registrarCSE' = registrarCSE \ {c}
  /\ Raise(c, <<NewEvent("deregisteredFromRegistrarCSE", c, {})>>)
  /\ Next1(c, Checked(c))
  /\ UNCHANGED <<csr, unchangedLocally>>

\* There is no local <csr> of the registrar: remove the own one there, if any, and register.
deleteOwnCSR(c) ==
  /\ monitor[c].pc = "delete"
  /\ \E rsc \in {"DELETED", "NOT_FOUND"} \cup NoAnswer :
       /\ handleSendRequest(c, DeleteCSR(c), rsc)
       /\ IF rsc \in NoAnswer
            THEN Next1(c, Checked(c))
            ELSE monitor' = [monitor EXCEPT ![c].pc = "create", ![c].dcse = Descendants(c)]
  /\ UNCHANGED <<registrarCSE, unchangedByMonitor>>

createOwnCSR(c) ==
  /\ monitor[c].pc = "create"
  /\ \E rsc \in {"CREATED", "CONFLICT"} \cup NoAnswer :
       /\ handleSendRequest(c, CreateCSR(c, monitor[c].dcse), rsc)
       /\ IF rsc \in NoAnswer
            THEN registrarCSE' = registrarCSE \ {c} /\ Next1(c, Checked(c))
            ELSE Goto(c, "register") /\ UNCHANGED registrarCSE
  /\ UNCHANGED unchangedByMonitor

retrieveRegistrarCSE(c) ==
  /\ monitor[c].pc = "register"
  /\ \E rsc \in {"OK"} \cup NoAnswer :
       /\ handleSendRequest(c, RetrieveCSE(c), rsc)
       /\ IF rsc = "OK"
            THEN registrarCSE' = registrarCSE \cup {c} /\ Goto(c, "localCSR")
            ELSE registrarCSE' = registrarCSE \ {c} /\ Next1(c, Checked(c))
  /\ UNCHANGED unchangedByMonitor

createLocalCSR(c) ==
  /\ monitor[c].pc = "localCSR"
  /\ csr' = [csr EXCEPT ![c] = With(@, Registrar[c], {})]
  /\ Raise(c, <<NewEvent("registeredToRegistrarCSE", c, {})>>)
  /\ Next1(c, Checked(c))
  /\ UNCHANGED <<registrarCSE, unchangedLocally>>

\* The <CSEBase> of every registree is retrieved. One that cannot be reached loses its <csr>.
checkRegistreeLiveliness(c) ==
  /\ monitor[c].pc = "registrees"
  /\ \/ /\ monitor[c].csrs = {}
        /\ Next1(c, Idle)
        /\ UNCHANGED <<jobs, incidents, disturbed>>
     \/ \E d \in monitor[c].csrs :
          \/ /\ d \in running
             /\ d \in DOMAIN csr[c] \cup Descendants(c)
             /\ monitor' = [monitor EXCEPT ![c].csrs = @ \ {d}]
             /\ UNCHANGED <<jobs, incidents, disturbed>>
          \/ /\ \/ d \notin running /\ disturbed' = TRUE /\ UNCHANGED incidents
                \/ d \in running /\ incidents < MaxIncident /\ incidents' = incidents + 1 /\ disturbed' = TRUE
                \/ d \notin DOMAIN csr[c] \cup Descendants(c) /\ UNCHANGED <<incidents, disturbed>>
             /\ Raise(c, <<NewEvent("deregistered", d, {})>>)
             /\ monitor' = [monitor EXCEPT ![c].pc = "deleteCSR", ![c].csrs = @ \ {d}, ![c].csi = d]
  /\ UNCHANGED <<csr, registrarCSE, unchangedByMonitor>>

deleteRegistreeCSR(c) ==
  /\ monitor[c].pc = "deleteCSR"
  /\ csr' = [csr EXCEPT ![c] = Restrict(@, DOMAIN @ \ {monitor[c].csi})]
  /\ monitor' = [monitor EXCEPT ![c].pc = "registrees", ![c].csi = None]
  /\ UNCHANGED <<jobs, registrarCSE, unchangedLocally>>

-----------------------------------------------------------------------------
(* The events, run as jobs.                                                *)

\* Entries of the list for CSE csi and for what is registered below it.
WithDescendants(list, csi, dcse) ==
  [d \in DOMAIN list \cup dcse |-> IF d \in DOMAIN list THEN list[d] ELSE csi]

WithoutDescendants(list, csi) == Restrict(list, {d \in DOMAIN list : list[d] # csi})

handleRegistreeCSERegistration(c, csi, dcse) ==
  IF csi \in Descendants(c) \/ (c \in registrarCSE /\ csi = Registrar[c])
    THEN descendantCSR[c]
    ELSE WithDescendants(With(descendantCSR[c], csi, c), csi, dcse)

handleRegistreeCSEDeregistration(c, csi) ==
  WithoutDescendants(Restrict(descendantCSR[c], Descendants(c) \ {csi}), csi)

\* Mutant of handleRegistreeCSEUpdate: the old entries stay.
handleRegistreeCSEUpdateKeep(c, csi, dcse) == WithDescendants(descendantCSR[c], csi, dcse)

handleRegistreeCSEUpdate(c, csi, dcse) ==
  WithDescendants(WithoutDescendants(descendantCSR[c], csi), csi, dcse)

\* Mutant of changeDescendants: only an update is passed on.
changeDescendantsUpdate(c, event) ==
  LET list == CASE event.type = "registered" ->
                     handleRegistreeCSERegistration(c, event.csi, event.dcse)
                [] event.type = "deregistered" -> handleRegistreeCSEDeregistration(c, event.csi)
                [] event.type = "updated" -> handleRegistreeCSEUpdate(c, event.csi, event.dcse)
  IN /\ descendantCSR' = [descendantCSR EXCEPT ![c] = list]
     /\ sending' = IF HasRegistrar(c) /\ event.type = "updated"
                   THEN [sending EXCEPT ![c] = @ \cup {DOMAIN list}] ELSE sending

\* The list changes, and the own <csr> at the registrar is updated in the next step. The
\* registration of a CSE that is known already does not reach the update.
changeDescendants(c, event) ==
  LET list == CASE event.type = "registered" ->
                     handleRegistreeCSERegistration(c, event.csi, event.dcse)
                [] event.type = "deregistered" -> handleRegistreeCSEDeregistration(c, event.csi)
                [] event.type = "updated" -> handleRegistreeCSEUpdate(c, event.csi, event.dcse)
      silent == event.csi = Registrar[c] \/ (event.type = "registered" /\ event.csi \in Descendants(c))
  IN /\ descendantCSR' = [descendantCSR EXCEPT ![c] = list]
     /\ sending' = IF HasRegistrar(c) /\ ~silent THEN [sending EXCEPT ![c] = @ \cup {DOMAIN list}]
                                                 ELSE sending

handleEvent(c) ==
  /\ c \in running /\ MayHandle(c)
  /\ \E i \in DOMAIN jobs[c] :
       LET event == jobs[c][i] IN
       /\ c \in overlap \/ i = 1
       /\ jobs' = [jobs EXCEPT ![c] = SubSeq(@, 1, i - 1) \o SubSeq(@, i + 1, Len(@))]
       /\ CASE event.type = "registeredToRegistrarCSE" ->
                 /\ registrarCSE' = registrarCSE \cup {c}
                 /\ UNCHANGED <<descendantCSR, sending>>
            [] event.type = "deregisteredFromRegistrarCSE" ->
                 /\ registrarCSE' = registrarCSE \ {c}
                 /\ UNCHANGED <<descendantCSR, sending>>
            [] OTHER -> changeDescendants(c, event) /\ UNCHANGED registrarCSE
  /\ UNCHANGED <<csr, running, monitor, incidents, disturbed, checkLiveliness, overlap>>

\* Without a local <csr> of the registrar the update cannot be sent. No failure is retried.
updateCSRonRegistrarCSE(c) ==
  /\ c \in running
  /\ \E dcse \in sending[c] :
       /\ sending' = [sending EXCEPT ![c] = @ \ {dcse}]
       /\ IF LocalRegistrarCSR(c)
            THEN \E rsc \in {"UPDATED", "NOT_FOUND"} \cup NoAnswer :
                   handleSendRequest(c, UpdateCSR(c, dcse), rsc)
            ELSE UNCHANGED <<csr, jobs, incidents, disturbed>>
  /\ UNCHANGED <<descendantCSR, registrarCSE, running, monitor, checkLiveliness, overlap>>

-----------------------------------------------------------------------------
(* Start and end of a CSE.                                                 *)

\* The list of descendants is rebuilt from the stored <csr>s.
start(c) ==
  /\ c \notin running
  /\ running' = running \cup {c}
  /\ LET registrees == DOMAIN csr[c] \ {Registrar[c]} IN
     descendantCSR' = [descendantCSR EXCEPT ![c] =
       [d \in registrees \cup UNION {csr[c][x] : x \in registrees} |->
          IF \E x \in registrees : d \in csr[c][x] THEN CHOOSE x \in registrees : d \in csr[c][x]
                                                   ELSE c]]
  /\ UNCHANGED <<csr, registrarCSE, jobs, sending, monitor, incidents, disturbed,
                 checkLiveliness, overlap>>

stop(c) ==
  /\ c \in running /\ monitor[c] = Idle /\ MayMonitor(c) /\ incidents < MaxIncident
  /\ incidents' = incidents + 1
  /\ Goto(c, IF HasRegistrar(c) THEN "stop" ELSE "stopped")
  /\ UNCHANGED <<csr, jobs, registrarCSE, descendantCSR, running, sending, disturbed,
                 checkLiveliness, overlap>>

\* An orderly shutdown removes the own <csr> from the registrar, if that answers.
stopDeleteOwnCSR(c) ==
  /\ monitor[c].pc = "stop"
  /\ \E rsc \in {"DELETED", "NOT_FOUND"} \cup NoAnswer : handleSendRequest(c, DeleteCSR(c), rsc)
  /\ Goto(c, "stopped")
  /\ UNCHANGED <<registrarCSE, unchangedByMonitor>>

\* The process ends, with its threads.
Ended(c) ==
  /\ running' = running \ {c}
  /\ registrarCSE' = registrarCSE \ {c}
  /\ descendantCSR' = [descendantCSR EXCEPT ![c] = <<>>]
  /\ jobs' = [jobs EXCEPT ![c] = <<>>]
  /\ sending' = [sending EXCEPT ![c] = {}]
  /\ monitor' = [monitor EXCEPT ![c] = Idle]

stopped(c) ==
  /\ monitor[c].pc = "stopped"
  /\ csr' = [csr EXCEPT ![c] = Restrict(@, DOMAIN @ \ {Registrar[c]})]
  /\ Ended(c)
  /\ UNCHANGED <<incidents, disturbed, checkLiveliness, overlap>>

crash(c) ==
  /\ c \in running /\ incidents < MaxIncident
  /\ incidents' = incidents + 1 /\ disturbed' = TRUE
  /\ Ended(c)
  /\ UNCHANGED <<csr, checkLiveliness, overlap>>

-----------------------------------------------------------------------------
MonitorStep(c) ==
  \/ connectionMonitorWorker(c)
  \/ checkOwnCSR(c) \/ checkRegistrarCSE(c) \/ checkOwnCSE(c) \/ updateOwnCSR(c)
  \/ disconnect(c) \/ recreateCSR(c) \/ disconnected(c)
  \/ deleteOwnCSR(c) \/ createOwnCSR(c) \/ retrieveRegistrarCSE(c) \/ createLocalCSR(c)
  \/ checkRegistreeLiveliness(c) \/ deleteRegistreeCSR(c)
  \/ stopDeleteOwnCSR(c) \/ stopped(c)

Next ==
  \E c \in Present : \/ MonitorStep(c)
                     \/ handleEvent(c) \/ updateCSRonRegistrarCSE(c)
                     \/ start(c) \/ stop(c) \/ crash(c)

Spec == Init /\ [][Next]_vars

\* The monitor runs again and again, a request finds a time when it is served, the jobs get a thread,
\* and a CSE that has ended is started again.
Fairness ==
  \A c \in Cse : /\ SF_vars(c \in Present /\ (MonitorStep(c) \/ start(c)))
                 /\ WF_vars(handleEvent(c))
                 /\ HasRegistrar(c) => SF_vars(updateCSRonRegistrarCSE(c))

FairSpec == Spec /\ Fairness

-----------------------------------------------------------------------------
(* Properties.                                                             *)

AllBelow[n \in 0..Cardinality(Cse)] ==
  [c \in Cse |-> IF n = 0 THEN Below(c)
                 ELSE Below(c) \cup UNION {AllBelow[n - 1][d] : d \in Below(c)}]
DescendantsOf(c) == AllBelow[Cardinality(Cse)][c]

AtRest(c) == c \in running /\ jobs[c] = <<>> /\ sending[c] = {} /\ monitor[c] = Idle

\* When a CSE has nothing to do, its list of descendants says what its stored <csr>s say, although the
\* list is kept by jobs and the <csr>s are changed by requests. At any time the way to a CSE further down
\* leads through a CSE that is registered here.
DescendantsMatch ==
  ~disturbed => \A c \in Cse \ overlap :
    /\ AtRest(c) =>
         LET registrees == DOMAIN csr[c] \ {Registrar[c]} IN
         /\ {d \in Descendants(c) : descendantCSR[c][d] = c} = registrees
         /\ \A d \in registrees : {x \in Descendants(c) : descendantCSR[c][x] = d} = csr[c][d]
    /\ \A d \in Descendants(c) :
         LET at == descendantCSR[c][d] IN at = c \/ (at \in Descendants(c) /\ descendantCSR[c][at] = c)

\* Whatever was lost or restarted on the way, and however the threads overlap: once nothing fails any
\* more, every CSE is registered at its registrar, and knows it.
Registered ==
  checkLiveliness =>
    <>[](\A c \in Present : HasRegistrar(c) =>
           c \in DOMAIN csr[Registrar[c]] /\ LocalRegistrarCSR(c) /\ c \in registrarCSE)

\* Every CSE gets to know all CSEs below it, unless a crash or a lost request has come in between.
DescendantsKnown ==
  overlap = {} => <>disturbed \/ <>[](\A c \in Cse : Descendants(c) = DescendantsOf(c))
=============================================================================
