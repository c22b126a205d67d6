---------------------------- MODULE GroupManager ----------------------------
(* Groups: acme/services/GroupManager.py with resources/GRP.py.                                          *)
(* The members of a group are in its mid attribute. When a resource is deleted, a background job takes   *)
(* it out of all groups. A group may have the fanOutPoint of another one as a member; this one has no    *)
(* sub-groups (a cycle of groups is not refused, and makes the recursion endless).                       *)
EXTENDS Integers, FiniteSets, Sequences

CONSTANTS Resource,       \* resources that may be members
          Group, Sub,     \* groups, and those of them that are members of the others
          MaxUpdate

VARIABLES
  there,    \* the resources and groups that exist
  group,    \* mid and cnm of each group in the database
  job,      \* the background job for each deleted resource
  request,  \* the UPDATE request that is handled
  fopt,     \* the request to a fanOutPoint that is handled
  updates,
  overlap   \* whether requests and jobs overlap, never changes

groupVars == <<there, group, job, request, fopt, updates, overlap>>

Copy == [mid : SUBSET (Resource \cup Sub), cnm : Nat]
NoCopy == [mid |-> {}, cnm |-> 0]
NoRequest == [pc |-> "none", group |-> CHOOSE g \in Group : TRUE, copy |-> NoCopy]
\* The members that are still to be visited, of the innermost group first.
NoFopt == [pc |-> "none", group |-> CHOOSE g \in Group : TRUE, todo |-> <<>>, results |-> 0]
NoJob == [pc |-> "none", todo |-> {}, copy |-> [g \in Group |-> NoCopy]]

Job == [pc : {"none", "search", "write", "done", "died"}, todo : SUBSET Group, copy : [Group -> Copy]]
Update == [pc : {"none", "check", "write"}, group : Group, copy : Copy]
FanOut == [pc : {"none", "visit"}, group : Group, todo : Seq(SUBSET (Resource \cup Sub)), results : Nat]

\* What is assumed of the constants.
GroupAssumption ==
  /\ IsFiniteSet(Resource) /\ IsFiniteSet(Group) /\ Resource \cap Group = {}
  /\ Group # {} /\ Sub \subseteq Group /\ MaxUpdate \in Nat

TypeOK ==
  /\ there \subseteq Resource \cup Group /\ updates \in 0..MaxUpdate /\ overlap \in BOOLEAN
  /\ group \in [Group -> Copy]
  /\ job \in [Resource \cup Group -> Job]
  /\ request \in Update
  /\ fopt \in FanOut /\ Len(fopt.todo) <= 2

Init ==
  /\ there = Resource \cup Group
  /\ group \in [Group -> {[mid |-> m, cnm |-> Cardinality(m)] : m \in SUBSET (Resource \cup Sub)}]
  /\ \A g \in Sub : group[g].mid \cap Sub = {}
  /\ job = [r \in Resource \cup Group |-> NoJob]
  /\ request = NoRequest /\ fopt = NoFopt /\ updates = 0
  /\ overlap \in BOOLEAN

\* Nothing else is half done, or things overlap.
Alone ==
  \/ overlap
  \/ /\ request.pc = "none" /\ fopt.pc # "visit"
     /\ \A r \in Resource \cup Group : job[r].pc # "write"

\* deleteLocalResource: the event starts a job.
deleteResource(r) ==
  /\ r \in there /\ Alone
  /\ there' = there \ {r}
  /\ job' = [job EXCEPT ![r].pc = "search"]
  /\ UNCHANGED <<group, request, fopt, updates, overlap>>

------------------------------------------------------------------------------
(* The job.                                                                *)

\* All groups with this member; the entry of a fanOutPoint is another one.
search(r) ==
  /\ job[r].pc = "search" /\ Alone
  /\ LET found == {g \in Group \cap there : r \in group[g].mid /\ r \notin Sub}
     IN job' = [job EXCEPT ![r] = [pc |-> IF found = {} THEN "done" ELSE "write", todo |-> found,
                                   copy |-> [g \in Group |-> IF g \in found THEN group[g] ELSE NoCopy]]]
  /\ UNCHANGED <<there, group, request, fopt, updates, overlap>>

\* Mutant of removeMember: the member is counted twice.
removeMemberTwice(c, r) == [mid |-> c.mid \ {r}, cnm |-> c.cnm - 2]
removeMember(c, r) == [mid |-> c.mid \ {r}, cnm |-> c.cnm - 1]

End(r, pc) == [job EXCEPT ![r] = [NoJob EXCEPT !.pc = pc]]

\* A group that has been deleted in the meantime cannot be written: this ends the job.
writeGroup(r) ==
  /\ job[r].pc = "write"
  /\ \E g \in job[r].todo :
       IF g \in there
       THEN /\ group' = [group EXCEPT ![g] = removeMember(job[r].copy[g], r)]
            /\ job' = IF job[r].todo = {g} THEN End(r, "done")
                      ELSE [job EXCEPT ![r] = [pc |-> "write", todo |-> job[r].todo \ {g},
                                               copy |-> [job[r].copy EXCEPT ![g] = NoCopy]]]
       ELSE job' = End(r, "died") /\ UNCHANGED group
  /\ UNCHANGED <<there, request, fopt, updates, overlap>>

\* Part of the mutant of handleDeleteEvent: only one group is written.
writeFirst(r) ==
  /\ job[r].pc = "write"
  /\ \E g \in job[r].todo :
       /\ group' = [group EXCEPT ![g] = removeMember(job[r].copy[g], r)]
       /\ job' = End(r, "done")
  /\ UNCHANGED <<there, request, fopt, updates, overlap>>

\* Mutant of handleDeleteEvent: only the first group that is found is written.
handleDeleteEventFirst(r) == search(r) \/ writeFirst(r)

handleDeleteEvent(r) == search(r) \/ writeGroup(r)

------------------------------------------------------------------------------
(* UPDATE of a group: all members are checked, whatever is updated.        *)

update(g) ==
  /\ request.pc = "none" /\ g \in there /\ Alone /\ updates < MaxUpdate
  /\ \E mid \in (SUBSET (Resource \cup (Sub \ {g}))) \cup {group[g].mid} :
       /\ g \in Sub => mid \cap Sub = {}
       /\ request' = [pc |-> "check", group |-> g, copy |-> [mid |-> mid, cnm |-> group[g].cnm]]
  /\ updates' = updates + 1
  /\ UNCHANGED <<there, group, job, fopt, overlap>>

Exist(mids) == mids \subseteq there
\* The members of sub-groups must exist as well.
_checkMembers(mids) == Exist(mids) /\ \A s \in mids \cap Sub : Exist(group[s].mid)

validateGroup ==
  /\ request.pc = "check"
  /\ request' = IF _checkMembers(request.copy.mid)
                THEN [request EXCEPT !.pc = "write", !.copy.cnm = Cardinality(request.copy.mid)]
                ELSE NoRequest
  /\ UNCHANGED <<there, group, job, fopt, updates, overlap>>

\* An exception if the group has been deleted.
updated ==
  /\ request.pc = "write"
  /\ group' = IF request.group \in there THEN [group EXCEPT ![request.group] = request.copy] ELSE group
  /\ request' = NoRequest
  /\ UNCHANGED <<there, job, fopt, updates, overlap>>

------------------------------------------------------------------------------
(* A request to a fanOutPoint. It only reads: it is followed where nothing overlaps.                     *)

foptRequest(g) ==
  /\ fopt.pc = "none" /\ g \in there /\ Alone /\ ~overlap
  /\ fopt' = [pc |-> "visit", group |-> g, todo |-> <<group[g].mid>>, results |-> 0]
  /\ UNCHANGED <<there, group, job, request, updates, overlap>>

\* A member that does not exist ends the whole request. The results of a sub-group are one result.
visitMember ==
  /\ fopt.pc = "visit"
  /\ LET rest == Tail(fopt.todo)
         result == IF rest = <<>> THEN 1 ELSE 0
     IN IF Head(fopt.todo) = {}
        THEN fopt' = IF rest = <<>> THEN NoFopt ELSE [fopt EXCEPT !.todo = rest]
        ELSE \E m \in Head(fopt.todo) :
          LET others == <<Head(fopt.todo) \ {m}>> \o rest
          IN CASE m \notin there -> fopt' = NoFopt
               [] m \in Sub \cap there ->
                    fopt' = [fopt EXCEPT !.todo = <<group[m].mid>> \o others, !.results = @ + result]
               [] OTHER -> fopt' = [fopt EXCEPT !.todo = others, !.results = @ + result]
  /\ UNCHANGED <<there, group, job, request, updates, overlap>>

Next ==
  \/ \E r \in Resource \cup Group : deleteResource(r) \/ handleDeleteEvent(r)
  \/ \E g \in Group : update(g) \/ foptRequest(g)
  \/ validateGroup \/ updated \/ visitMember

Spec == Init /\ [][Next]_groupVars

------------------------------------------------------------------------------
(* Properties.                                                             *)

\* When the jobs of all deleted resources have ended, a group has no member that does not exist. (The
\* fanOutPoints of deleted groups are excepted: they stay.) currentNrOfMembers is the number of members at
\* any time, also when jobs and requests overwrite what others have written.
MembersExist ==
  /\ ~overlap /\ (\A r \in Resource \cup Group : job[r].pc \in {"none", "done"}) =>
       \A g \in Group \cap there : group[g].mid \subseteq there \cup Sub
  /\ \A g \in Group : group[g].cnm = Cardinality(group[g].mid)

\* A fan-out has one result for each member, also for a sub-group: what it has and what it has before it
\* are together the members of the group.
AllAnswer ==
  fopt.pc = "visit" =>
    fopt.results + Cardinality(fopt.todo[Len(fopt.todo)]) = group[fopt.group].cnm
=============================================================================
