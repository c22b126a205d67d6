------------------------- MODULE AnnouncementManager -------------------------
(* Announcements: acme/services/AnnouncementManager.py and AnnounceableResource.py.                      *)
(* A resource below the CSEBase (parent) and one below it (child) are announced to remote CSEs. A        *)
(* resource keeps the identifiers of its announced resources in __announcedTo__, and in at, where the    *)
(* originator has put the CSE-IDs before. Requests are handled one after the other; each remote CSE      *)
(* answers during a handler, or it does not.                                                             *)
EXTENDS Integers, Sequences, FiniteSets, SequencesExt

CONSTANTS Csi,     \* remote CSEs
          MaxId    \* bound on the number of announced resources

Local == {"base", "parent", "child"}
NotYet == 0    \* the identifier in an entry of at that is a CSE-ID only, and of a remote CSEBase

VARIABLES
  there,     \* resources that exist, and have existed
  at,        \* the at attribute
  announcedTo,
  remote,    \* announced resources on the remote CSEs, with the one they are below
  ids,       \* identifiers that have been used
  targets,   \* CSEs the originator names, never changes
  reliable,  \* whether all CSEs always answer, never changes
  instance   \* whether the child is an instance, never changes

AnnouncementAssumption == IsFiniteSet(Csi) /\ MaxId \in Nat

announcementVars == <<there, at, announcedTo, remote, ids, targets, reliable, instance>>

Entry == [csi : Csi, ri : 0..MaxId]
Announced == [csi : Csi, ri : 1..MaxId, lnk : Local, pi : 0..MaxId]
Entries(s) == {s[i] : i \in DOMAIN s}
Csis(s) == {s[i].csi : i \in DOMAIN s}
\* The entries that are not in X, in their order.
Without(s, X) == FoldLeft(LAMBDA t, e : IF e \in X THEN t ELSE Append(t, e), <<>>, s)

TypeOK ==
  /\ there \in [now : SUBSET Local, before : SUBSET Local]
  /\ \A r \in Local : Entries(at[r]) \cup Entries(announcedTo[r]) \subseteq Entry
  /\ at["base"] = <<>> /\ \A r \in Local \ there.now : r # "base" => announcedTo[r] = <<>>
  /\ \A r \in Local : \A i, k \in DOMAIN announcedTo[r] :
       announcedTo[r][i].csi = announcedTo[r][k].csi => i = k
  /\ remote \subseteq Announced /\ ids \in 0..MaxId

Init ==
  /\ there = [now |-> {"base"}, before |-> {"base"}]
  /\ at = [r \in Local |-> <<>>] /\ announcedTo = [r \in Local |-> <<>>]
  /\ remote = {} /\ ids = 0
  /\ targets \in (SUBSET Csi) \ {{}} /\ reliable \in BOOLEAN /\ instance \in BOOLEAN

\* What a handler works on: at and announcedTo of its resource as they are in the object and (saved) in
\* the database, the rest, and whether an exception has been raised.
Work(r) == [r |-> r, at |-> at[r], to |-> announcedTo[r], saved |-> [at |-> at[r], to |-> announcedTo[r]],
            base |-> announcedTo["base"], remote |-> remote, ids |-> ids, raised |-> FALSE]
Save(w) == [w EXCEPT !.saved = [at |-> w.at, to |-> w.to]]
Raise(w) == [w EXCEPT !.raised = TRUE]

\* The whole tree below an announced resource of a remote CSE goes with it.
RemoveRemote(all, x) ==
  all \ {y \in all : y.csi = x.csi /\ (y.ri = x.ri \/ y.pi = x.ri
                                       \/ \E z \in all : z.csi = x.csi /\ z.ri = y.pi /\ z.pi = x.ri)}

_announcedInfos(to, csi) == {e \in Entries(to) : e.csi = csi}
_isResourceAnnouncedTo(to, csi) == _announcedInfos(to, csi) # {}

\* The entry of at that is the CSE-ID is replaced, if there is one.
addAnnouncementToResource(w, e) ==
  LET bare == [csi |-> e.csi, ri |-> NotYet]
  IN Save([w EXCEPT !.to = Append(@, e),
                    !.at = IF bare \in Entries(@) THEN [i \in DOMAIN w.at |-> IF w.at[i] = bare THEN e ELSE w.at[i]]
                                                  ELSE Append(@, e)])

\* The entry of at goes too, if it has the same identifier.
_removeAnnouncementFromResource(w, csi) ==
  LET infos == _announcedInfos(w.to, csi)
  IN [w EXCEPT !.to = Without(@, infos), !.at = Without(@, infos)]

\* The request for the announced CSEBase: it is retrieved or, without an entry, discovered, and else
\* created (again). What is stale stays in the database when the CSE does not answer.
checkCSEBaseAnnouncement(w, csi, answers) ==
  LET there_ == {x \in w.remote : x.csi = csi /\ x.lnk = "base"}
      known == _announcedInfos(w.base, csi)
      create == [w EXCEPT !.base = Append(Without(@, known), [csi |-> csi, ri |-> w.ids + 1]), !.ids = @ + 1,
                          !.remote = @ \cup {[csi |-> csi, ri |-> w.ids + 1, lnk |-> "base", pi |-> NotYet]}]
      found == [w EXCEPT !.base = Append(@, [csi |-> csi, ri |-> (CHOOSE x \in there_ : TRUE).ri])]
  IN IF csi \notin answers \/ (\E x \in there_, e \in known : x.ri = e.ri) THEN w
     ELSE IF known = {} /\ there_ # {} THEN found ELSE create

\* A request that is not successful is only logged.
createAnnounced(w, csi, pi, answers) ==
  IF csi \in answers /\ \E x \in w.remote : x.csi = csi /\ x.ri = pi
  THEN addAnnouncementToResource(
         [w EXCEPT !.ids = @ + 1,
                   !.remote = @ \cup {[csi |-> csi, ri |-> w.ids + 1, lnk |-> w.r, pi |-> pi]}],
         [csi |-> csi, ri |-> w.ids + 1])
  ELSE w

announceBelowBase(w, csi, answers) ==
  LET w1 == checkCSEBaseAnnouncement(w, csi, answers)
      stale == w.r # "parent" /\ csi \notin answers
      infos == IF stale THEN {} ELSE _announcedInfos(w1.base, csi)
  IN IF infos = {} THEN Raise(w1)
     ELSE createAnnounced(w1, csi, (CHOOSE e \in infos : TRUE).ri, answers)

\* A resource is announced below the announcement of its parent, if there is one, and else below that of
\* the CSEBase. An instance is announced with its parent only.
announceResourceToCSI(w, csi, answers) ==
  LET infos == _announcedInfos(announcedTo["parent"], csi)
  IN IF w.raised \/ _isResourceAnnouncedTo(w.to, csi) THEN w
     ELSE IF w.r = "child" /\ infos # {} THEN createAnnounced(w, csi, (CHOOSE e \in infos : TRUE).ri, answers)
     ELSE IF w.r = "child" /\ instance THEN w
     ELSE announceBelowBase(w, csi, answers)

announceAll(w, csis, answers) ==
  FoldLeft(LAMBDA v, csi : announceResourceToCSI(v, csi, answers), w, csis)
announceResource(w, answers) == announceAll(w, [i \in DOMAIN w.at |-> w.at[i].csi], answers)

\* Mutant of deAnnounceResourceFromCSI: the remote CSE is not told.
deAnnounceLocally(w, e, answers) == Save(_removeAnnouncementFromResource(w, e.csi))

deAnnounceResourceFromCSI(w, e, answers) ==
  Save(_removeAnnouncementFromResource(
         [w EXCEPT !.remote = IF e.csi \in answers THEN RemoveRemote(@, e) ELSE @], e.csi))

\* Entries are removed from the list while it is gone through: every second one is skipped.
Visited(to) == [i \in 1..((Len(to) + 1) \div 2) |-> to[2 * i - 1]]
deAnnounceResource(w, answers) ==
  FoldLeft(LAMBDA v, e : deAnnounceResourceFromCSI(v, e, answers), w, Visited(w.to))

\* (What the updates change on the remote CSEs is not modelled.)
announceUpdatedResource(w, answers) ==
  announceAll(w, Without([i \in DOMAIN w.at |-> w.at[i].csi], Csis(w.to)), answers)

------------------------------------------------------------------------------
(* Handlers.                                                               *)

Store(w, r, attributes) ==
  /\ at' = [at EXCEPT ![r] = attributes.at]
  /\ announcedTo' = [announcedTo EXCEPT ![r] = attributes.to, !["base"] = w.base]
  /\ remote' = w.remote /\ ids' = w.ids
  /\ w.ids <= MaxId

Answers == IF reliable THEN {targets} ELSE SUBSET targets
\* The originator names targets in an order of its choice.
Named == {s \in UNION {[1..n -> targets] : n \in 0..Cardinality(targets)} : Cardinality(Entries(s)) = Len(s)}
Bare(s) == [i \in DOMAIN s |-> [csi |-> s[i], ri |-> NotYet]]
Nothing == [at |-> <<>>, to |-> <<>>]

\* When it cannot be announced the resource is removed again, but not what is announced already.
activate(r) ==
  /\ r \notin there.before /\ (r = "child" => "parent" \in there.now)
  /\ \E s \in Named, answers \in Answers :
       LET w == announceResource([Work(r) EXCEPT !.at = Bare(s)], answers)
       IN /\ Store(w, r, IF w.raised THEN Nothing ELSE [at |-> w.at, to |-> w.to])
          /\ there' = [now |-> IF w.raised THEN there.now ELSE there.now \cup {r}, before |-> there.before \cup {r}]
  /\ UNCHANGED <<targets, reliable, instance>>

\* at is sent as it is, or as a list of CSE-IDs, or it is removed.
update(r) ==
  /\ r \in there.now \ {"base"}
  /\ \E new \in {Bare(s) : s \in Named} \cup {at[r]}, answers \in Answers :
       LET w0 == [Work(r) EXCEPT !.at = new]
           w == CASE new # <<>> -> announceUpdatedResource(w0, answers)
                  [] new = <<>> /\ at[r] # <<>> -> deAnnounceResource(w0, answers)
                  [] OTHER -> w0
       IN Store(w, r, IF w.raised THEN w.saved ELSE [at |-> w.at, to |-> w.to])
  /\ UNCHANGED <<there, targets, reliable, instance>>

\* The parent takes the child with it.
deactivate(r) ==
  /\ r \in there.now \ {"base"}
  /\ \E answers \in Answers :
       LET gone(s, all) == IF at[s] = <<>> THEN all
                           ELSE deAnnounceResource([Work(s) EXCEPT !.remote = all], answers).remote
       IN remote' = IF r = "parent" /\ "child" \in there.now THEN gone("child", gone("parent", remote))
                                                             ELSE gone(r, remote)
  /\ LET Deleted == IF r = "parent" THEN {"parent", "child"} ELSE {r}
     IN /\ there' = [there EXCEPT !.now = @ \ Deleted]
        /\ at' = [s \in Local |-> IF s \in Deleted THEN <<>> ELSE at[s]]
        /\ announcedTo' = [s \in Local |-> IF s \in Deleted THEN <<>> ELSE announcedTo[s]]
  /\ UNCHANGED <<ids, targets, reliable, instance>>

\* Resources that are announced to a CSE. (Those that are not, but have an entry of at with an identifier
\* on it, are searched for when a CSE registers. There is none, as the entries go together.)
searchAnnounceableResourcesForCSI(csi) ==
  {r \in there.now : (\E e \in Entries(at[r]) : e.csi = csi /\ e.ri # NotYet)
                     /\ _isResourceAnnouncedTo(announcedTo[r], csi)}

\* Shutdown: the resources announced to a CSE lose their announcements, one CSE after the other.
checkResourcesForUnAnnouncement ==
  /\ \E csi \in Csi, answers \in Answers : \E r \in searchAnnounceableResourcesForCSI(csi) :
       LET w == _removeAnnouncementFromResource(deAnnounceResource(Work(r), answers), csi)
       IN Store(w, r, [at |-> w.at, to |-> w.to])
  /\ UNCHANGED <<there, targets, reliable, instance>>

\* A remote CSE removes an announced resource: it expires, or the CSE is started anew.
RemoteRemoves ==
  /\ \E x \in remote : remote' = RemoveRemote(remote, x)
  /\ UNCHANGED <<there, at, announcedTo, ids, targets, reliable, instance>>

Next ==
  \/ \E r \in Local : activate(r) \/ update(r) \/ deactivate(r)
  \/ checkResourcesForUnAnnouncement \/ RemoteRemoves

Spec == Init /\ [][Next]_announcementVars

------------------------------------------------------------------------------
(* Properties.                                                             *)

\* Both sides agree. The CSEBase, which is announced with the first resource that needs it, is announced
\* to a CSE once, whatever this CSE removes, and an instance is below its container only. With one remote
\* CSE that answers, no announced resource has an original that is gone or does not know it, none is
\* announced twice, and what a resource below the CSEBase is announced to is what its at attribute says.
AnnouncementsMatch ==
  /\ \A x, y \in remote : x.csi = y.csi /\ x.lnk = y.lnk /\ x.lnk = "base" => x = y
  /\ instance => \A x \in remote : x.lnk = "child" =>
       \E y \in remote : y.csi = x.csi /\ y.ri = x.pi /\ y.lnk = "parent"
  /\ reliable /\ Cardinality(targets) = 1 =>
       /\ \A x \in remote :
            /\ x.lnk \in there.now /\ [csi |-> x.csi, ri |-> x.ri] \in Entries(announcedTo[x.lnk])
            /\ \A y \in remote : x.lnk = y.lnk => x = y
       /\ Csis(at["parent"]) = Csis(announcedTo["parent"])
=============================================================================
