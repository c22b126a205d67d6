----------------------- MODULE RemoteCSEManagerProofs -----------------------
(***************************************************************************)
(* What a CSE knows about the CSEs below it, for every forest of CSEs.     *)
(* The list of descendants is kept by jobs, which run some time after the  *)
(* requests that have changed the <csr>s. The inductive invariant says     *)
(* that the jobs of a CSE explain the difference: there is a state of the  *)
(* <csr>s that the list agrees with, and the events that wait lead from    *)
(* it to the <csr>s that are stored.                                       *)
(***************************************************************************)
EXTENDS RemoteCSEManager, FiniteSetTheorems, SequenceTheorems, TLAPS

(***************************************************************************)
(* The forest of CSEs.                                                     *)
(***************************************************************************)
Closed(S) == \A d \in S : Below(d) \subseteq S

\* The CSEs below a CSE, at any depth.
Down(c) == {d \in Cse : \A S \in SUBSET Cse : Below(c) \subseteq S /\ Closed(S) => d \in S}

LEMMA BelowDown ==
  ASSUME NEW c \in Cse
  PROVE  Below(c) \subseteq Down(c) /\ Closed(Down(c)) /\ Down(c) \subseteq Cse
<1>1. Below(c) \subseteq Down(c) /\ Down(c) \subseteq Cse
  BY DEF Down, Below
<1>2. Closed(Down(c))
  BY DEF Closed, Down, Below
<1> QED BY <1>1, <1>2

LEMMA DownLeast ==
  ASSUME NEW c \in Cse, NEW S \in SUBSET Cse, Below(c) \subseteq S, Closed(S)
  PROVE  Down(c) \subseteq S
BY DEF Down

\* What is below a CSE below c is below c.
LEMMA DownBelow ==
  ASSUME NEW c \in Cse, NEW d \in Below(c)
  PROVE  d \in Cse /\ d \in Down(c) /\ Down(d) \subseteq Down(c)
<1>1. d \in Cse /\ d \in Down(c) /\ Down(c) \in SUBSET Cse
  BY BelowDown DEF Below
<1>2. Below(d) \subseteq Down(c)
  BY <1>1, BelowDown DEF Closed
<1> QED BY <1>1, <1>2, DownLeast, BelowDown

\* The registrar of a CSE below c is c or below c.
LEMMA DownRegistrar ==
  ASSUME NEW c \in Cse, NEW d \in Down(c)
  PROVE  Registrar[d] = c \/ Registrar[d] \in Down(c)
<1> DEFINE S == {e \in Down(c) : Registrar[e] = c \/ Registrar[e] \in Down(c)}
<1>1. S \in SUBSET Cse /\ Below(c) \subseteq S
  BY BelowDown DEF Below
<1>2. Closed(S)
  BY BelowDown DEF Closed, Below
<1> QED BY <1>1, <1>2, DownLeast

\* Nothing is below itself.
LEMMA DownDeeper ==
  ASSUME NEW c \in Cse
  PROVE  c \notin Down(c) /\ Registrar[c] # c /\ Registrar[c] \notin Down(c)
<1>1. PICK depth \in [Cse -> 0..Cardinality(Cse)] :
        \A e \in Cse : Registrar[e] # None => depth[Registrar[e]] < depth[e]
  BY RegistrarAssumption
<1>2. Cardinality(Cse) \in Nat
  BY RegistrarAssumption, FS_CardinalityType
<1> DEFINE S == {e \in Cse : depth[c] < depth[e]}
<1>3. S \in SUBSET Cse /\ Below(c) \subseteq S
  BY <1>1, <1>2, RegistrarAssumption DEF Below
<1>4. Closed(S)
  BY <1>1, <1>2, RegistrarAssumption DEF Closed, Below
<1>5. Down(c) \subseteq S
  BY <1>3, <1>4, DownLeast
<1>6. Registrar[c] # None => Registrar[c] \in Cse /\ depth[Registrar[c]] < depth[c]
  BY <1>1, RegistrarAssumption
<1> QED BY <1>1, <1>2, <1>5, <1>6, RegistrarAssumption

\* What is registered at the same CSE has nothing below it in common.
LEMMA SiblingsApart ==
  ASSUME NEW c \in Cse, NEW x \in Below(c), NEW y \in Below(c)
  PROVE  /\ y \notin Down(x) /\ x # c
         /\ x # y => Down(x) \cap Down(y) = {}
<1>1. x \in Cse /\ y \in Cse /\ Registrar[x] = c /\ Registrar[y] = c
  BY DEF Below
<1>2. y \notin Down(x) /\ x \notin Down(y)
  BY <1>1, DownRegistrar, DownDeeper
<1>3. ASSUME x # y PROVE Down(x) \cap Down(y) = {}
  <2> DEFINE S == {e \in Down(x) : e # y /\ e \notin Down(y)}
  <2>1. S \in SUBSET Cse /\ Below(x) \subseteq S
    <3>1. S \subseteq Cse /\ Below(x) \subseteq Down(x)
      BY <1>1, BelowDown
    <3>2. ASSUME NEW e \in Below(x) PROVE e # y /\ e \notin Down(y)
      BY <1>1, <1>2, <1>3, <3>2, DownRegistrar, DownDeeper DEF Below
    <3> QED BY <3>1, <3>2
  <2>2. Closed(S)
    <3> SUFFICES ASSUME NEW e \in S, NEW f \in Below(e) PROVE f \in S
      BY DEF Closed
    <3>1. f \in Down(x) /\ Registrar[f] = e
      BY <1>1, BelowDown DEF Closed, Below
    <3>2. f # y
      BY <1>1, <3>1, DownDeeper
    <3>3. f \notin Down(y)
      BY <1>1, <3>1, DownRegistrar
    <3> QED BY <3>1, <3>2, <3>3
  <2> QED BY <1>1, <2>1, <2>2, DownLeast
<1> QED BY <1>1, <1>2, <1>3, DownDeeper

(***************************************************************************)
(* Maps.                                                                   *)
(***************************************************************************)
LEMMA MapDef ==
  ASSUME NEW S, NEW f
  PROVE  f \in Map(S) <=> \E T \in SUBSET Cse : f \in [T -> S]
BY DEF Map

LEMMA MapValues ==
  ASSUME NEW S, NEW f \in Map(S)
  PROVE  /\ DOMAIN f \subseteq Cse /\ f \in [DOMAIN f -> S]
         /\ \A x \in DOMAIN f : f[x] \in S
BY MapDef

LEMMA EmptyMap == ASSUME NEW S PROVE <<>> \in Map(S) /\ DOMAIN <<>> = {}
<1>1. <<>> \in [{} -> S]
  OBVIOUS
<1> QED BY <1>1, MapDef

LEMMA WithMap ==
  ASSUME NEW S, NEW f \in Map(S), NEW x \in Cse, NEW v \in S
  PROVE  With(f, x, v) \in Map(S)
<1>1. With(f, x, v) \in [DOMAIN f \cup {x} -> S]
  BY MapValues DEF With
<1>2. DOMAIN f \cup {x} \in SUBSET Cse
  BY MapValues
<1> QED BY <1>1, <1>2, MapDef

LEMMA RestrictMap ==
  ASSUME NEW S, NEW f \in Map(S), NEW T \in SUBSET DOMAIN f
  PROVE  /\ Restrict(f, T) \in Map(S) /\ DOMAIN Restrict(f, T) = T
         /\ \A y \in T : Restrict(f, T)[y] = f[y]
<1>1. Restrict(f, T) \in [T -> S]
  BY MapValues DEF Restrict
<1>2. T \in SUBSET Cse
  BY MapValues
<1> QED BY <1>1, <1>2, MapDef DEF Restrict

\* The same for the maps there are: lists of descendants, and <csr>s.
LEMMA ListWith ==
  ASSUME NEW f \in Map(Cse), NEW x \in Cse, NEW v \in Cse
  PROVE  With(f, x, v) \in Map(Cse)
BY WithMap

LEMMA CsrWith ==
  ASSUME NEW f \in Map(SUBSET Cse), NEW x \in Cse, NEW v \in SUBSET Cse
  PROVE  With(f, x, v) \in Map(SUBSET Cse)
BY WithMap

LEMMA ListRestrict ==
  ASSUME NEW f \in Map(Cse), NEW T \in SUBSET DOMAIN f
  PROVE  /\ Restrict(f, T) \in Map(Cse) /\ DOMAIN Restrict(f, T) = T
         /\ \A y \in T : Restrict(f, T)[y] = f[y]
BY RestrictMap

LEMMA CsrRestrict ==
  ASSUME NEW f \in Map(SUBSET Cse), NEW T \in SUBSET DOMAIN f
  PROVE  /\ Restrict(f, T) \in Map(SUBSET Cse) /\ DOMAIN Restrict(f, T) = T
         /\ \A y \in T : Restrict(f, T)[y] = f[y]
BY RestrictMap

\* Maps are equal that have the same values.
LEMMA SameMap ==
  ASSUME NEW S, NEW f \in Map(S), NEW g \in Map(S), DOMAIN f = DOMAIN g, \A x \in DOMAIN f : f[x] = g[x]
  PROVE  f = g
BY MapValues

(***************************************************************************)
(* The list of descendants and the <csr>s.                                 *)
(***************************************************************************)
\* What the <csr>s of the CSEs registered at c can be: each names CSEs that are below it.
RegistreeMap(c) ==
  {r \in Map(SUBSET Cse) : DOMAIN r \subseteq Below(c) /\ \A x \in DOMAIN r : r[x] \subseteq Down(x)}

\* The list says what the <csr>s r say.
Agree(list, c, r) ==
  /\ \A x \in DOMAIN r : x \in DOMAIN list /\ list[x] = c
  /\ \A x \in DOMAIN r : \A d \in r[x] : d \in DOMAIN list /\ list[d] = x
  /\ \A d \in DOMAIN list : \/ list[d] = c /\ d \in DOMAIN r
                            \/ list[d] \in DOMAIN r /\ d \in r[list[d]]

\* The event tells that the <csr>s r have become s.
Tells(e, r, s) ==
  \/ e.type = "registered" /\ e.csi \notin DOMAIN r /\ s = With(r, e.csi, e.dcse)
  \/ e.type = "updated" /\ e.csi \in DOMAIN r /\ s = With(r, e.csi, e.dcse)
  \/ e.type = "deregistered" /\ s = Restrict(r, DOMAIN r \ {e.csi})
  \/ e.type \in {"registeredToRegistrarCSE", "deregisteredFromRegistrarCSE"} /\ s = r

\* An event names CSEs where they are.
Truthful(e, c) ==
  /\ e.type \in {"registered", "updated"} => e.csi \in Below(c) /\ e.dcse \subseteq Down(e.csi)
  /\ e.type = "deregistered" => e.csi \in Below(c) \cup {Registrar[c]}

\* The list after the event, as in changeDescendants.
Handled(c, e) ==
  CASE e.type = "registered" -> handleRegistreeCSERegistration(c, e.csi, e.dcse)
    [] e.type = "deregistered" -> handleRegistreeCSEDeregistration(c, e.csi)
    [] e.type = "updated" -> handleRegistreeCSEUpdate(c, e.csi, e.dcse)

LEMMA RegistreeMapFacts ==
  ASSUME NEW c \in Cse, NEW r \in RegistreeMap(c)
  PROVE  /\ r \in Map(SUBSET Cse) /\ DOMAIN r \subseteq Below(c) /\ Below(c) \subseteq Cse
         /\ \A x \in DOMAIN r : r[x] \subseteq Down(x) /\ r[x] \subseteq Cse /\ c \notin r[x] /\ x # c
         /\ \A x, y \in DOMAIN r : y \notin r[x] /\ (x # y => r[x] \cap r[y] = {})
<1>1. r \in Map(SUBSET Cse) /\ DOMAIN r \subseteq Below(c) /\ Below(c) \subseteq Cse
  BY DEF RegistreeMap, Below
<1>2. \A x \in DOMAIN r : r[x] \subseteq Down(x)
  BY DEF RegistreeMap
<1>3. \A x, y \in DOMAIN r : y \notin r[x] /\ (x # y => r[x] \cap r[y] = {})
  BY <1>1, <1>2, SiblingsApart
<1>4. \A x \in DOMAIN r : x # c /\ c \notin Down(x)
  BY <1>1, DownDeeper DEF Below
<1> QED BY <1>1, <1>2, <1>3, <1>4, BelowDown

\* What an event tells is again a map of registrees.
LEMMA TellsMap ==
  ASSUME NEW c \in Cse, NEW r \in RegistreeMap(c), NEW e \in Event, Truthful(e, c), NEW s, Tells(e, r, s)
  PROVE  s \in RegistreeMap(c)
<1>1. CASE e.type \in {"registered", "updated"}
  <2>1. e.csi \in Below(c) /\ e.dcse \subseteq Down(e.csi) /\ e.csi \in Cse /\ e.dcse \in SUBSET Cse
    BY <1>1 DEF Truthful, Event
  <2>2. s = With(r, e.csi, e.dcse)
    BY <1>1 DEF Tells
  <2>3. r \in Map(SUBSET Cse)
    BY RegistreeMapFacts
  <2>4. s \in Map(SUBSET Cse)
    BY <2>1, <2>2, <2>3, CsrWith
  <2>5. DOMAIN s = DOMAIN r \cup {e.csi} /\ \A x \in DOMAIN s : s[x] = IF x = e.csi THEN e.dcse ELSE r[x]
    BY <2>2 DEF With
  <2> QED BY <2>1, <2>4, <2>5 DEF RegistreeMap
<1>2. CASE e.type = "deregistered"
  <2>1. s = Restrict(r, DOMAIN r \ {e.csi})
    BY <1>2 DEF Tells
  <2>2. DOMAIN r \ {e.csi} \in SUBSET DOMAIN r
    OBVIOUS
  <2>3. r \in Map(SUBSET Cse)
    BY RegistreeMapFacts
  <2>4. s \in Map(SUBSET Cse)
    BY <2>1, <2>2, <2>3, CsrRestrict
  <2>5. DOMAIN s = DOMAIN r \ {e.csi} /\ \A x \in DOMAIN s : s[x] = r[x]
    BY <2>1 DEF Restrict
  <2> QED BY <2>4, <2>5 DEF RegistreeMap
<1> QED BY <1>1, <1>2 DEF Tells

LEMMA Lists ==
  ASSUME NEW list \in Map(Cse), NEW csi \in Cse, NEW dcse \in SUBSET Cse
  PROVE  WithDescendants(list, csi, dcse) \in Map(Cse) /\ WithoutDescendants(list, csi) \in Map(Cse)
<1>1. WithDescendants(list, csi, dcse) \in [DOMAIN list \cup dcse -> Cse]
  BY MapValues DEF WithDescendants
<1>2. DOMAIN list \cup dcse \in SUBSET Cse
  BY MapValues
<1>3. WithDescendants(list, csi, dcse) \in Map(Cse)
  BY <1>1, <1>2, MapDef
<1>4. {d \in DOMAIN list : list[d] # csi} \in SUBSET DOMAIN list
  OBVIOUS
<1>5. WithoutDescendants(list, csi) \in Map(Cse)
  BY <1>4, ListRestrict DEF WithoutDescendants
<1> QED BY <1>3, <1>5

LEMMA HandledMap ==
  ASSUME TypeOK, NEW c \in Cse, NEW e \in Event, e.type \in {"registered", "deregistered", "updated"}
  PROVE  Handled(c, e) \in Map(Cse)
<1> DEFINE list == descendantCSR[c]
<1>1. list \in Map(Cse) /\ e.csi \in Cse /\ e.dcse \in SUBSET Cse
  BY DEF TypeOK, Event
<1> HIDE DEF list
<1>2. handleRegistreeCSERegistration(c, e.csi, e.dcse) \in Map(Cse)
  <2>1. With(list, e.csi, c) \in Map(Cse)
    BY <1>1, ListWith
  <2>2. WithDescendants(With(list, e.csi, c), e.csi, e.dcse) \in Map(Cse)
    BY <1>1, <2>1, Lists
  <2> QED BY <1>1, <2>2 DEF handleRegistreeCSERegistration, list
<1>3. handleRegistreeCSEDeregistration(c, e.csi) \in Map(Cse)
  <2>1. DOMAIN list \ {e.csi} \in SUBSET DOMAIN list
    OBVIOUS
  <2>2. Restrict(list, DOMAIN list \ {e.csi}) \in Map(Cse)
    BY <1>1, <2>1, ListRestrict
  <2>3. WithoutDescendants(Restrict(list, DOMAIN list \ {e.csi}), e.csi) \in Map(Cse)
    BY <1>1, <2>2, Lists
  <2> QED BY <2>3 DEF handleRegistreeCSEDeregistration, Descendants, list
<1>4. handleRegistreeCSEUpdate(c, e.csi, e.dcse) \in Map(Cse)
  <2>1. WithoutDescendants(list, e.csi) \in Map(Cse)
    BY <1>1, Lists
  <2>2. WithDescendants(WithoutDescendants(list, e.csi), e.csi, e.dcse) \in Map(Cse)
    BY <1>1, <2>1, Lists
  <2> QED BY <2>2 DEF handleRegistreeCSEUpdate, list
<1> QED BY <1>2, <1>3, <1>4 DEF Handled

\* A list that agrees with the <csr>s agrees with what an event tells after it is handled.
LEMMA HandledAgrees ==
  ASSUME TypeOK, NEW c \in Cse, NEW r \in RegistreeMap(c), Agree(descendantCSR[c], c, r),
         NEW e \in Event, e.type \in {"registered", "deregistered", "updated"}, Truthful(e, c),
         NEW s, Tells(e, r, s)
  PROVE  Agree(Handled(c, e), c, s)
<1> DEFINE list == descendantCSR[c]
<1>1. list \in Map(Cse) /\ e.csi \in Cse /\ e.dcse \in SUBSET Cse
  BY DEF TypeOK, Event
<1>2. Agree(list, c, r)
  OBVIOUS
<1> HIDE DEF list
<1>3. s \in RegistreeMap(c)
  BY TellsMap
<1>4. CASE e.type = "registered"
  <2>1. s = With(r, e.csi, e.dcse) /\ e.csi \notin DOMAIN r /\ e.csi \in Below(c) /\ e.dcse \subseteq Down(e.csi)
    BY <1>4 DEF Tells, Truthful
  <2>2. e.csi \notin DOMAIN list
    <3>1. \A x \in DOMAIN r : e.csi \notin r[x]
      BY <2>1, SiblingsApart, RegistreeMapFacts
    <3> QED BY <1>2, <2>1, <3>1 DEF Agree
  <2>3. e.csi # Registrar[c]
    BY <2>1, DownDeeper, BelowDown DEF Below
  <2> DEFINE new == With(list, e.csi, c)
  <2>4. Handled(c, e) = WithDescendants(new, e.csi, e.dcse)
    BY <1>4, <2>2, <2>3 DEF Handled, handleRegistreeCSERegistration, Descendants, list
  <2>5. /\ new \in Map(Cse) /\ DOMAIN new = DOMAIN list \cup {e.csi} /\ new[e.csi] = c
        /\ \A d \in DOMAIN list : new[d] = list[d]
    <3>1. new \in Map(Cse)
      BY <1>1, ListWith
    <3>2. /\ DOMAIN new = DOMAIN list \cup {e.csi} /\ new[e.csi] = c
          /\ \A d \in DOMAIN list : d # e.csi => new[d] = list[d]
      BY DEF With
    <3> QED BY <2>2, <3>1, <3>2
  <2> HIDE DEF new
  <2>6. \A d \in e.dcse : d \notin DOMAIN new
    <3>1. \A d \in e.dcse : d \notin DOMAIN r /\ d # e.csi
      BY <2>1, SiblingsApart, RegistreeMapFacts, DownDeeper
    <3>2. \A x \in DOMAIN r : x # e.csi /\ Down(x) \cap Down(e.csi) = {} /\ r[x] \subseteq Down(x)
      BY <2>1, SiblingsApart, RegistreeMapFacts
    <3>3. \A d \in e.dcse : d \notin DOMAIN list
      BY <1>2, <2>1, <3>1, <3>2 DEF Agree
    <3> QED BY <2>5, <3>1, <3>3
  <2> DEFINE after == WithDescendants(new, e.csi, e.dcse)
  <2>7. /\ DOMAIN after = DOMAIN list \cup {e.csi} \cup e.dcse
        /\ \A d \in DOMAIN list : after[d] = list[d]
        /\ after[e.csi] = c /\ \A d \in e.dcse : after[d] = e.csi
    <3>1. /\ DOMAIN after = DOMAIN new \cup e.dcse
          /\ \A d \in DOMAIN new : after[d] = new[d]
          /\ \A d \in e.dcse : d \notin DOMAIN new => after[d] = e.csi
      BY DEF WithDescendants
    <3> QED BY <2>5, <2>6, <3>1
  <2>8. /\ DOMAIN s = DOMAIN r \cup {e.csi} /\ s[e.csi] = e.dcse
        /\ \A x \in DOMAIN r : s[x] = r[x] /\ x # e.csi
    BY <2>1 DEF With
  <2> HIDE DEF after
  <2>9. Agree(after, c, s)
    BY <1>2, <2>7, <2>8 DEF Agree
  <2> QED BY <2>4, <2>9 DEF after
<1>5. CASE e.type = "updated"
  <2>1. s = With(r, e.csi, e.dcse) /\ e.csi \in DOMAIN r /\ e.csi \in Below(c) /\ e.dcse \subseteq Down(e.csi)
    BY <1>5 DEF Tells, Truthful
  <2> DEFINE rest == WithoutDescendants(list, e.csi)
             after == WithDescendants(rest, e.csi, e.dcse)
  <2>2. Handled(c, e) = after
    BY <1>5 DEF Handled, handleRegistreeCSEUpdate, list
  <2>3. /\ rest \in Map(Cse) /\ DOMAIN rest = {d \in DOMAIN list : list[d] # e.csi}
        /\ \A d \in DOMAIN list : list[d] # e.csi => rest[d] = list[d]
    <3>1. rest \in Map(Cse)
      BY <1>1, Lists
    <3>2. /\ DOMAIN rest = {d \in DOMAIN list : list[d] # e.csi}
          /\ \A d \in DOMAIN list : list[d] # e.csi => rest[d] = list[d]
      BY DEF WithoutDescendants, Restrict
    <3> QED BY <3>1, <3>2
  <2>4. e.csi # c /\ e.csi \in DOMAIN list /\ list[e.csi] = c
    BY <1>2, <2>1, RegistreeMapFacts DEF Agree
  <2>5. \A d \in e.dcse : d \notin DOMAIN rest
    <3>1. \A d \in e.dcse : d \notin DOMAIN r
      BY <2>1, SiblingsApart, RegistreeMapFacts
    <3>2. \A x \in DOMAIN r : x # e.csi => Down(x) \cap Down(e.csi) = {} /\ r[x] \subseteq Down(x)
      BY <2>1, SiblingsApart, RegistreeMapFacts
    <3> QED BY <1>2, <2>1, <2>3, <3>1, <3>2 DEF Agree
  <2> HIDE DEF rest
  <2>6. /\ DOMAIN after = DOMAIN rest \cup e.dcse
        /\ \A d \in DOMAIN rest : after[d] = rest[d]
        /\ \A d \in e.dcse : after[d] = e.csi
    <3>1. /\ DOMAIN after = DOMAIN rest \cup e.dcse
          /\ \A d \in DOMAIN rest : after[d] = rest[d]
          /\ \A d \in e.dcse : d \notin DOMAIN rest => after[d] = e.csi
      BY DEF WithDescendants
    <3> QED BY <2>3, <2>5, <3>1
  <2>7. /\ DOMAIN s = DOMAIN r /\ s[e.csi] = e.dcse
        /\ \A x \in DOMAIN r : x # e.csi => s[x] = r[x]
    BY <2>1 DEF With
  <2> HIDE DEF after
  <2>8. \A x, y \in DOMAIN r : x # y => r[x] \cap r[y] = {}
    BY RegistreeMapFacts
  <2>9. Agree(after, c, s)
    <3>1. \A x \in DOMAIN s : x \in DOMAIN after /\ after[x] = c
      BY <1>2, <2>3, <2>4, <2>6, <2>7 DEF Agree
    <3>2. \A x \in DOMAIN s : \A d \in s[x] : d \in DOMAIN after /\ after[d] = x
      BY <1>2, <2>3, <2>4, <2>6, <2>7 DEF Agree
    <3>3. \A d \in DOMAIN after : \/ after[d] = c /\ d \in DOMAIN s
                                  \/ after[d] \in DOMAIN s /\ d \in s[after[d]]
      BY <1>2, <2>1, <2>3, <2>4, <2>6, <2>7 DEF Agree
    <3> QED BY <3>1, <3>2, <3>3 DEF Agree
  <2> QED BY <2>2, <2>9
<1>6. CASE e.type = "deregistered"
  <2> DEFINE rest == Restrict(list, DOMAIN list \ {e.csi})
             after == WithoutDescendants(rest, e.csi)
  <2>1. s = Restrict(r, DOMAIN r \ {e.csi})
    BY <1>6 DEF Tells
  <2>2. Handled(c, e) = after
    BY <1>6 DEF Handled, handleRegistreeCSEDeregistration, Descendants, list
  <2>3. DOMAIN list \ {e.csi} \in SUBSET DOMAIN list /\ DOMAIN r \ {e.csi} \in SUBSET DOMAIN r
    OBVIOUS
  <2>4. /\ rest \in Map(Cse) /\ DOMAIN rest = DOMAIN list \ {e.csi}
        /\ \A d \in DOMAIN rest : rest[d] = list[d]
    BY <1>1, <2>3, ListRestrict
  <2> HIDE DEF rest
  <2>5. /\ DOMAIN after = {d \in DOMAIN rest : rest[d] # e.csi}
        /\ \A d \in DOMAIN after : after[d] = list[d]
    <3>1. /\ DOMAIN after = {d \in DOMAIN rest : rest[d] # e.csi}
          /\ \A d \in DOMAIN rest : rest[d] # e.csi => after[d] = rest[d]
      BY DEF WithoutDescendants, Restrict
    <3> QED BY <2>4, <3>1
  <2>6. DOMAIN s = DOMAIN r \ {e.csi} /\ \A x \in DOMAIN s : s[x] = r[x]
    <3>1. r \in Map(SUBSET Cse)
      BY RegistreeMapFacts
    <3> QED BY <2>1, <2>3, <3>1, CsrRestrict
  <2> HIDE DEF after
  <2>7. \A x \in DOMAIN r : x # c /\ \A y \in DOMAIN r : y \notin r[x]
    BY RegistreeMapFacts
  <2>8. Agree(after, c, s)
    <3>1. e.csi # c
      BY <1>6, DownDeeper DEF Truthful, Below
    <3>2. \A x \in DOMAIN s : x \in DOMAIN after /\ after[x] = c
      BY <1>2, <2>4, <2>5, <2>6, <3>1 DEF Agree
    <3>3. \A x \in DOMAIN s : \A d \in s[x] : d \in DOMAIN after /\ after[d] = x
      <4>1. \A x \in DOMAIN s : \A d \in s[x] : d # e.csi
        <5>1. \A x \in DOMAIN r : x \in Below(c) /\ r[x] \subseteq Down(x)
          BY RegistreeMapFacts
        <5>2. \A x \in Below(c) : e.csi \notin Down(x)
          BY <1>6, SiblingsApart, DownBelow, DownDeeper DEF Truthful
        <5> QED BY <2>6, <5>1, <5>2
      <4> QED BY <1>2, <2>4, <2>5, <2>6, <4>1 DEF Agree
    <3>4. \A d \in DOMAIN after : \/ after[d] = c /\ d \in DOMAIN s
                                  \/ after[d] \in DOMAIN s /\ d \in s[after[d]]
      BY <1>2, <2>4, <2>5, <2>6 DEF Agree
    <3> QED BY <3>2, <3>3, <3>4 DEF Agree
  <2> QED BY <2>2, <2>8
<1> QED BY <1>4, <1>5, <1>6

(***************************************************************************)
(* The events that wait.                                                   *)
(***************************************************************************)
\* The events q tell, one after the other, how the <csr>s r have become s.
Explained(c, q, r, s) ==
  \E h \in [0..Len(q) -> RegistreeMap(c)] :
    h[0] = r /\ h[Len(q)] = s /\ \A i \in 1..Len(q) : Tells(q[i], h[i - 1], h[i])

LEMMA NothingExplained ==
  ASSUME NEW c \in Cse, NEW r, NEW s, NEW q \in Seq(Event), q = <<>>
  PROVE  Explained(c, q, r, s) <=> r = s /\ r \in RegistreeMap(c)
<1>1. Len(q) = 0
  OBVIOUS
<1>2. ASSUME Explained(c, q, r, s) PROVE r = s /\ r \in RegistreeMap(c)
  BY <1>1, <1>2 DEF Explained
<1>3. ASSUME r = s, r \in RegistreeMap(c) PROVE Explained(c, q, r, s)
  <2> DEFINE h == [i \in 0..Len(q) |-> r]
  <2>1. h \in [0..Len(q) -> RegistreeMap(c)] /\ h[0] = r /\ h[Len(q)] = s
    BY <1>1, <1>3
  <2>2. \A i \in 1..Len(q) : Tells(q[i], h[i - 1], h[i])
    BY <1>1
  <2> QED BY <2>1, <2>2 DEF Explained
<1> QED BY <1>2, <1>3

\* One more event.
LEMMA ExplainedAppend ==
  ASSUME NEW c \in Cse, NEW q \in Seq(Event), NEW r, NEW s, NEW t \in RegistreeMap(c), NEW e \in Event,
         Explained(c, q, r, s), Tells(e, s, t)
  PROVE  Append(q, e) \in Seq(Event) /\ Explained(c, Append(q, e), r, t)
<1>1. PICK h \in [0..Len(q) -> RegistreeMap(c)] :
        h[0] = r /\ h[Len(q)] = s /\ \A i \in 1..Len(q) : Tells(q[i], h[i - 1], h[i])
  BY DEF Explained
<1> DEFINE p == Append(q, e)
           g == [i \in 0..Len(p) |-> IF i = Len(p) THEN t ELSE h[i]]
<1>2. /\ p \in Seq(Event) /\ Len(q) \in Nat /\ Len(p) = Len(q) + 1 /\ p[Len(p)] = e
      /\ \A i \in 1..Len(q) : p[i] = q[i]
  OBVIOUS
<1>3. g \in [0..Len(p) -> RegistreeMap(c)]
  BY <1>2
<1>4. g[0] = r /\ g[Len(p)] = t
  BY <1>1, <1>2
<1>5. \A i \in 1..Len(p) : Tells(p[i], g[i - 1], g[i])
  <2> SUFFICES ASSUME NEW i \in 1..Len(p) PROVE Tells(p[i], g[i - 1], g[i])
    OBVIOUS
  <2>1. CASE i = Len(p)
    <3>1. g[i - 1] = s /\ g[i] = t /\ p[i] = e
      BY <1>1, <1>2, <2>1
    <3> QED BY <3>1
  <2>2. CASE i # Len(p)
    <3>1. i \in 1..Len(q) /\ g[i - 1] = h[i - 1] /\ g[i] = h[i] /\ p[i] = q[i]
      BY <1>2, <2>2
    <3> QED BY <1>1, <3>1
  <2> QED BY <2>1, <2>2
<1> HIDE DEF p, g
<1>6. Explained(c, p, r, t)
  BY <1>3, <1>4, <1>5 DEF Explained
<1> QED BY <1>2, <1>6 DEF p

\* The first event.
LEMMA ExplainedTail ==
  ASSUME NEW c \in Cse, NEW q \in Seq(Event), NEW r, NEW s, Explained(c, q, r, s), q # <<>>
  PROVE  \E t \in RegistreeMap(c) : Tells(q[1], r, t) /\ Explained(c, Tail(q), t, s)
<1>1. PICK h \in [0..Len(q) -> RegistreeMap(c)] :
        h[0] = r /\ h[Len(q)] = s /\ \A i \in 1..Len(q) : Tells(q[i], h[i - 1], h[i])
  BY DEF Explained
<1> DEFINE p == Tail(q)
           g == [i \in 0..Len(p) |-> h[i + 1]]
<1>2. /\ p \in Seq(Event) /\ Len(q) \in Nat \ {0} /\ Len(p) = Len(q) - 1
      /\ \A i \in 1..Len(p) : p[i] = q[i + 1]
  OBVIOUS
<1>3. g \in [0..Len(p) -> RegistreeMap(c)]
  BY <1>2
<1>4. h[1] \in RegistreeMap(c) /\ Tells(q[1], r, h[1])
  BY <1>1, <1>2
<1>5. g[0] = h[1] /\ g[Len(p)] = s
  BY <1>1, <1>2
<1>6. \A i \in 1..Len(p) : Tells(p[i], g[i - 1], g[i])
  <2> SUFFICES ASSUME NEW i \in 1..Len(p) PROVE Tells(p[i], g[i - 1], g[i])
    OBVIOUS
  <2>1. i + 1 \in 1..Len(q) /\ g[i - 1] = h[i] /\ g[i] = h[i + 1] /\ p[i] = q[i + 1]
    BY <1>2
  <2>2. Tells(q[i + 1], h[i + 1 - 1], h[i + 1])
    BY <1>1, <2>1
  <2>3. i + 1 - 1 = i
    OBVIOUS
  <2> QED BY <2>1, <2>2, <2>3
<1> HIDE DEF p, g
<1>7. Explained(c, p, h[1], s)
  BY <1>3, <1>5, <1>6 DEF Explained
<1> QED BY <1>4, <1>7 DEF p

(***************************************************************************)
(* The inductive invariant.                                                *)
(***************************************************************************)
\* The registrees among <csr>s f that are stored under the <CSEBase> of c.
RegistreesOf(c, f) == Restrict(f, DOMAIN f \ {Registrar[c]})
Registrees(c) == RegistreesOf(c, csr[c])

\* The <csr>s under the <CSEBase> of c are of its registrar and of the CSEs below it, and name only
\* what is below those.
Right(c, f) ==
  /\ f \in Map(SUBSET Cse)
  /\ \A x \in DOMAIN f : x = Registrar[c] \/ (x \in Below(c) /\ f[x] \subseteq Down(x))

\* Everything that a CSE knows, and that is on its way to it or from it, names CSEs where they are,
\* whatever has been lost and however the threads overlap.
Queue(c, q) == q \in Seq(Event) /\ \A i \in 1..Len(q) : Truthful(q[i], c)
Listed(c) == descendantCSR[c] \in Map(Cse) /\ Descendants(c) \subseteq Down(c)
Sent(c) == sending[c] \subseteq SUBSET Down(c)

WithoutRegistrar == {"idle", "registrees", "deleteCSR", "stopped"}
Works(c, m) ==
  /\ m \in Monitor
  /\ m.pc \notin WithoutRegistrar => HasRegistrar(c)
  /\ m.dcse \subseteq Down(c) /\ m.csrs \subseteq Below(c)

\* A process that has ended has left nothing but its database.
Over(c) ==
  c \notin running =>
    descendantCSR[c] = <<>> /\ jobs[c] = <<>> /\ sending[c] = {} /\ monitor[c] = Idle

\* A CSE checks registrees only that are registered.
Checks(c, m, f) ==
  /\ m.pc # "deleteCSR"
  /\ m.pc = "registrees" => m.csrs \subseteq DOMAIN f \ {Registrar[c]}

\* The list of a CSE agrees with <csr>s that were stored once, and the events that wait tell what has
\* become of them.
Knows(c) ==
  c \in running =>
    \E r \in RegistreeMap(c) : Agree(descendantCSR[c], c, r) /\ Explained(c, jobs[c], r, Registrees(c))

Inv ==
  /\ TypeOK
  /\ \A c \in Cse : Right(c, csr[c]) /\ Queue(c, jobs[c]) /\ Listed(c) /\ Sent(c)
  /\ \A c \in Cse : Works(c, monitor[c]) /\ Over(c)
  /\ ~disturbed => \A c \in Cse \ overlap : Checks(c, monitor[c], csr[c]) /\ Knows(c)

LEMMA RegistreesFacts ==
  ASSUME NEW c \in Cse, NEW f, Right(c, f)
  PROVE  RegistreesOf(c, f) \in RegistreeMap(c)
<1>1. f \in Map(SUBSET Cse) /\ DOMAIN f \ {Registrar[c]} \in SUBSET DOMAIN f
  BY DEF Right
<1>2. RegistreesOf(c, f) \in Map(SUBSET Cse)
  BY <1>1, CsrRestrict DEF RegistreesOf
<1>3. /\ DOMAIN RegistreesOf(c, f) = DOMAIN f \ {Registrar[c]}
      /\ \A x \in DOMAIN RegistreesOf(c, f) : RegistreesOf(c, f)[x] = f[x]
  BY DEF RegistreesOf, Restrict
<1> QED BY <1>2, <1>3 DEF RegistreeMap, Right

(***************************************************************************)
(* What requests and the monitor do to the <csr>s and the events of a CSE. *)
(***************************************************************************)
\* CSE b gets <csr>s f, and events es that tell so.
Change(b, f, es) ==
  /\ Right(b, f) /\ Queue(b, es)
  /\ \A q \in Seq(Event), r \in RegistreeMap(b) :
       Explained(b, q, r, Registrees(b)) => Explained(b, q \o es, r, RegistreesOf(b, f))

LEMMA NoChange == ASSUME NEW b \in Cse, Right(b, csr[b]) PROVE Change(b, csr[b], <<>>)
<1>1. Queue(b, <<>>)
  BY DEF Queue
<1>2. \A q \in Seq(Event) : q \o <<>> = q
  BY ConcatEmptySeq
<1> QED BY <1>1, <1>2 DEF Change, Registrees

LEMMA OneEvent ==
  ASSUME NEW b \in Cse, NEW f, Right(b, f), NEW e \in Event, Truthful(e, b),
         Tells(e, Registrees(b), RegistreesOf(b, f))
  PROVE  Change(b, f, <<e>>)
<1>1. Queue(b, <<e>>)
  BY DEF Queue
<1>2. RegistreesOf(b, f) \in RegistreeMap(b)
  BY RegistreesFacts
<1>3. \A q \in Seq(Event) : q \o <<e>> = Append(q, e)
  BY AppendIsConcat
<1> QED BY <1>1, <1>2, <1>3, ExplainedAppend DEF Change

\* The second event of a deletion tells nothing new.
LEMMA TwoEvents ==
  ASSUME NEW b \in Cse, NEW f, Right(b, f), NEW e \in Event, Truthful(e, b),
         Tells(e, Registrees(b), RegistreesOf(b, f)), Tells(e, RegistreesOf(b, f), RegistreesOf(b, f))
  PROVE  Change(b, f, [i \in 1..2 |-> e])
<1> DEFINE es == [i \in 1..2 |-> e]
<1>1. es \in Seq(Event) /\ es = <<e>> \o <<e>> /\ <<e>> \in Seq(Event)
  OBVIOUS
<1>2. Queue(b, es)
  BY DEF Queue
<1>3. RegistreesOf(b, f) \in RegistreeMap(b)
  BY RegistreesFacts
<1>4. ASSUME NEW q \in Seq(Event), NEW r \in RegistreeMap(b), Explained(b, q, r, Registrees(b))
      PROVE  Explained(b, q \o es, r, RegistreesOf(b, f))
  <2>1. Append(q, e) \in Seq(Event) /\ Explained(b, Append(q, e), r, RegistreesOf(b, f))
    BY <1>3, <1>4, ExplainedAppend
  <2>2. Explained(b, Append(Append(q, e), e), r, RegistreesOf(b, f))
    BY <1>3, <2>1, ExplainedAppend
  <2>3. Append(Append(q, e), e) = (q \o <<e>>) \o <<e>>
    BY <2>1, AppendIsConcat
  <2>4. (q \o <<e>>) \o <<e>> = q \o es
    BY <1>1, ConcatAssociative
  <2> QED BY <2>2, <2>3, <2>4
<1> QED BY <1>2, <1>4 DEF Change

(***************************************************************************)
(* Requests.                                                               *)
(***************************************************************************)
Request(c, request) ==
  /\ HasRegistrar(c) /\ Registrar[c] \in Cse
  /\ Change(Registrar[c], request.csr, request.events)

LEMMA RegistrarFacts ==
  ASSUME NEW c \in Cse, HasRegistrar(c)
  PROVE  Registrar[c] \in Cse /\ c \in Below(Registrar[c]) /\ c # Registrar[Registrar[c]] /\ c # Registrar[c]
<1>1. Registrar[c] \in Cse /\ c \in Below(Registrar[c])
  BY RegistrarAssumption DEF HasRegistrar, Below
<1> QED BY <1>1, BelowDown, DownDeeper

LEMMA Retrieves ==
  ASSUME Inv, NEW c \in Cse, HasRegistrar(c)
  PROVE  Request(c, RetrieveCSE(c)) /\ Request(c, RetrieveCSR(c))
<1>1. Registrar[c] \in Cse /\ Right(Registrar[c], csr[Registrar[c]])
  BY RegistrarFacts DEF Inv
<1> QED BY <1>1, NoChange DEF Request, RetrieveCSE, RetrieveCSR

LEMMA Creates ==
  ASSUME Inv, NEW c \in Cse, HasRegistrar(c), NEW dcse \in SUBSET Down(c)
  PROVE  Request(c, CreateCSR(c, dcse)) /\ Request(c, UpdateCSR(c, dcse))
<1> DEFINE b == Registrar[c]
           f == With(csr[b], c, dcse)
<1>1. b \in Cse /\ Right(b, csr[b]) /\ c \in Below(b) /\ c # Registrar[b] /\ dcse \in SUBSET Cse
  BY RegistrarFacts, BelowDown DEF Inv
<1>2. Change(b, csr[b], <<>>)
  BY <1>1, NoChange
<1>3. Right(b, f)
  <2>1. f \in Map(SUBSET Cse)
    BY <1>1, CsrWith DEF Right
  <2>2. \A x \in DOMAIN f : IF x = c THEN f[x] = dcse ELSE x \in DOMAIN csr[b] /\ f[x] = csr[b][x]
    BY DEF With
  <2> HIDE DEF f
  <2> QED BY <1>1, <2>1, <2>2 DEF Right
<1>4. RegistreesOf(b, f) = With(Registrees(b), c, dcse) /\ (c \in DOMAIN Registrees(b) <=> c \in DOMAIN csr[b])
  BY <1>1, Zenon DEF RegistreesOf, Registrees, With, Restrict
<1>5. ASSUME NEW type \in {"registered", "updated"},
             c \in DOMAIN csr[b] <=> type = "updated"
      PROVE  Change(b, f, <<NewEvent(type, c, dcse)>>)
  <2> DEFINE e == NewEvent(type, c, dcse)
  <2>1. e \in Event /\ e.type = type /\ e.csi = c /\ e.dcse = dcse
    BY <1>1, <1>5 DEF NewEvent, Event
  <2> HIDE DEF e
  <2>2. Truthful(e, b)
    BY <1>1, <1>5, <2>1 DEF Truthful
  <2>3. Tells(e, Registrees(b), RegistreesOf(b, f))
    BY <1>4, <1>5, <2>1 DEF Tells
  <2>4. Change(b, f, <<e>>)
    BY <1>1, <1>3, <2>1, <2>2, <2>3, OneEvent
  <2> QED BY <2>4 DEF e
<1> HIDE DEF f
<1>6. c \notin DOMAIN csr[b] => Change(b, f, <<NewEvent("registered", c, dcse)>>)
  BY <1>5
<1>7. c \in DOMAIN csr[b] => Change(b, f, <<NewEvent("updated", c, dcse)>>)
  BY <1>5
<1> QED BY <1>1, <1>2, <1>6, <1>7 DEF Request, CreateCSR, UpdateCSR, f

LEMMA Deletes ==
  ASSUME Inv, NEW c \in Cse, HasRegistrar(c)
  PROVE  Request(c, DeleteCSR(c))
<1> DEFINE b == Registrar[c]
           f == Restrict(csr[b], DOMAIN csr[b] \ {c})
<1>1. b \in Cse /\ Right(b, csr[b]) /\ c \in Below(b) /\ c # Registrar[b]
  BY RegistrarFacts DEF Inv
<1>2. CASE c \notin DOMAIN csr[b]
  BY <1>1, <1>2, NoChange DEF Request, DeleteCSR
<1>3. CASE c \in DOMAIN csr[b]
  <2> DEFINE e == NewEvent("deregistered", c, csr[b][c])
  <2>1. csr[b][c] \in SUBSET Cse
    BY <1>1, <1>3, BelowDown DEF Right
  <2>2. e \in Event /\ e.type = "deregistered" /\ e.csi = c
    BY <2>1 DEF NewEvent, Event
  <2>3. Truthful(e, b)
    BY <1>1, <2>2 DEF Truthful
  <2>4. Right(b, f)
    <3>1. f \in Map(SUBSET Cse)
      BY <1>1, CsrRestrict DEF Right
    <3>2. DOMAIN f \subseteq DOMAIN csr[b] /\ \A x \in DOMAIN f : f[x] = csr[b][x]
      BY DEF Restrict
    <3> HIDE DEF f
    <3> QED BY <1>1, <3>1, <3>2 DEF Right
  <2>5. RegistreesOf(b, f) = Restrict(Registrees(b), DOMAIN Registrees(b) \ {c})
    BY <1>1, Zenon DEF RegistreesOf, Registrees, Restrict
  <2>6. RegistreesOf(b, f) = Restrict(RegistreesOf(b, f), DOMAIN RegistreesOf(b, f) \ {c})
    <3>1. DOMAIN RegistreesOf(b, f) \ {c} = DOMAIN RegistreesOf(b, f)
      BY DEF RegistreesOf, Restrict
    <3> QED BY <3>1 DEF RegistreesOf, Restrict
  <2> HIDE DEF e, f
  <2>7. Tells(e, Registrees(b), RegistreesOf(b, f)) /\ Tells(e, RegistreesOf(b, f), RegistreesOf(b, f))
    BY <2>2, <2>5, <2>6 DEF Tells
  <2>8. Change(b, f, [i \in 1..2 |-> e])
    BY <1>1, <2>2, <2>3, <2>4, <2>7, TwoEvents
  <2> QED BY <1>1, <1>3, <2>8 DEF Request, DeleteCSR, e, f
<1> QED BY <1>2, <1>3

\* What a step does to the <csr>s and the events: nothing, or it changes those of a CSE that is up.
\* After a failure, and where the threads overlap, the events need not tell what has become of the <csr>s.
Changed(b) ==
  \/ UNCHANGED <<csr, jobs>>
  \/ \E f, es : /\ b \in running /\ Right(b, f) /\ Queue(b, es)
                /\ Change(b, f, es) \/ disturbed' \/ b \in overlap
                /\ csr' = [csr EXCEPT ![b] = f] /\ jobs' = [jobs EXCEPT ![b] = @ \o es]

Counted == incidents' \in 0..MaxIncident /\ disturbed' \in BOOLEAN /\ (disturbed => disturbed')

LEMMA Requested ==
  ASSUME Inv, NEW c \in Cse, NEW request, NEW rsc, Request(c, request),
         handleSendRequest(c, request, rsc)
  PROVE  /\ Changed(Registrar[c]) /\ Counted
         /\ UNCHANGED <<csr, jobs>> \/ MayServe(Registrar[c])
<1> DEFINE b == Registrar[c]
<1>1. Change(b, request.csr, request.events)
  BY DEF Request
<1>2. ASSUME b \in running, csr' = [csr EXCEPT ![b] = request.csr], Raise(b, request.events)
      PROVE  Changed(b)
  BY <1>1, <1>2 DEF Changed, Change, Raise
<1>3. incidents \in 0..MaxIncident /\ MaxIncident \in Nat /\ disturbed \in BOOLEAN
  BY RegistrarAssumption DEF Inv, TypeOK
<1>4. Counted
  <2>1. disturbed' = TRUE \/ UNCHANGED disturbed
    BY Zenon DEF handleSendRequest
  <2>2. UNCHANGED incidents \/ (incidents < MaxIncident /\ incidents' = incidents + 1)
    BY Zenon DEF handleSendRequest, Incident
  <2>3. incidents' \in 0..MaxIncident
    BY <1>3, <2>2
  <2> QED BY <1>3, <2>1, <2>3 DEF Counted
<1>5. \/ UNCHANGED <<csr, jobs>>
      \/ b \in running /\ MayServe(b) /\ csr' = [csr EXCEPT ![b] = request.csr] /\ Raise(b, request.events)
  BY Zenon DEF handleSendRequest
<1> QED BY <1>2, <1>4, <1>5 DEF Changed

\* What is left of the invariant after such a change.
LEMMA ChangedRight ==
  ASSUME Inv, NEW b \in Cse, Changed(b)
  PROVE  /\ csr' \in [Cse -> Map(SUBSET Cse)] /\ jobs' \in [Cse -> Seq(Event)]
         /\ \A d \in Cse : Right(d, csr'[d]) /\ Queue(d, jobs'[d])
         /\ \A d \in Cse \ {b} : csr'[d] = csr[d] /\ jobs'[d] = jobs[d]
         /\ b \notin running => UNCHANGED <<csr, jobs>>
         /\ ~disturbed' => \A d \in Cse \ overlap : \A r \in RegistreeMap(d) :
              Explained(d, jobs[d], r, Registrees(d)) =>
                Explained(d, jobs'[d], r, RegistreesOf(d, csr'[d]))
<1>1. csr \in [Cse -> Map(SUBSET Cse)] /\ jobs \in [Cse -> Seq(Event)]
  BY DEF Inv, TypeOK
<1>2. \A d \in Cse : Right(d, csr[d]) /\ Queue(d, jobs[d])
  BY DEF Inv
<1>3. CASE UNCHANGED <<csr, jobs>>
  BY <1>1, <1>2, <1>3 DEF Registrees
<1>4. CASE ~UNCHANGED <<csr, jobs>>
  <2>1. PICK f, es : /\ b \in running /\ Right(b, f) /\ Queue(b, es)
                     /\ Change(b, f, es) \/ disturbed' \/ b \in overlap
                     /\ csr' = [csr EXCEPT ![b] = f] /\ jobs' = [jobs EXCEPT ![b] = @ \o es]
    BY <1>4 DEF Changed
  <2>2. Right(b, f) /\ Queue(b, es) /\ f \in Map(SUBSET Cse) /\ es \in Seq(Event)
    BY <2>1 DEF Right, Queue
  <2>3. jobs[b] \in Seq(Event) /\ jobs[b] \o es \in Seq(Event)
    BY <1>1, <2>2, ConcatProperties
  <2>4. csr'[b] = f /\ jobs'[b] = jobs[b] \o es
    BY <1>1, <2>1
  <2>5. \A d \in Cse \ {b} : csr'[d] = csr[d] /\ jobs'[d] = jobs[d]
    BY <1>1, <2>1
  <2>6. csr' \in [Cse -> Map(SUBSET Cse)]
    BY <1>1, <2>1, <2>2
  <2>7. jobs' \in [Cse -> Seq(Event)]
    BY <1>1, <2>1, <2>3
  <2>8. Queue(b, jobs'[b])
    <3>1. Queue(b, jobs[b])
      BY <1>2
    <3>2. ASSUME NEW i \in 1..Len(jobs[b] \o es)
          PROVE  \/ i \in 1..Len(jobs[b]) /\ (jobs[b] \o es)[i] = jobs[b][i]
                 \/ i - Len(jobs[b]) \in 1..Len(es) /\ (jobs[b] \o es)[i] = es[i - Len(jobs[b])]
      BY <2>2, <2>3, ConcatProperties, LenProperties
    <3> QED BY <2>2, <2>3, <2>4, <3>1, <3>2 DEF Queue
  <2>9. ~disturbed' /\ b \notin overlap =>
          \A r \in RegistreeMap(b) : Explained(b, jobs[b], r, Registrees(b)) =>
                                       Explained(b, jobs'[b], r, RegistreesOf(b, csr'[b]))
    BY <2>1, <2>3, <2>4 DEF Change
  <2>10. \A d \in Cse : Right(d, csr'[d]) /\ Queue(d, jobs'[d])
    BY <1>2, <2>2, <2>4, <2>5, <2>8
  <2>11. ASSUME ~disturbed', NEW d \in Cse \ overlap, NEW r \in RegistreeMap(d), Explained(d, jobs[d], r, Registrees(d))
         PROVE  Explained(d, jobs'[d], r, RegistreesOf(d, csr'[d]))
    <3>1. CASE d = b
      BY <2>9, <2>11, <3>1
    <3>2. CASE d # b
      BY <2>5, <2>11, <3>2 DEF Registrees
    <3> QED BY <3>1, <3>2
  <2> QED BY <2>1, <2>5, <2>6, <2>7, <2>10, <2>11
<1> QED BY <1>3, <1>4

(***************************************************************************)
(* The monitor.                                                            *)
(***************************************************************************)
LEMMA MonitorKeeps ==
  ASSUME Inv, NEW c \in Cse, NEW b \in Cse, NEW m, Changed(b), Counted,
         b # c => UNCHANGED <<csr, jobs>> \/ MayServe(b),
         monitor' = [monitor EXCEPT ![c] = m], Works(c, m), c \notin running => m = Idle,
         ~disturbed' /\ c \notin overlap => Checks(c, m, csr'[c]),
         registrarCSE' \subseteq Cse, UNCHANGED <<descendantCSR, running, checkLiveliness, overlap>>,
         sending' \in [Cse -> SUBSET SUBSET Cse], \A d \in Cse : sending'[d] \subseteq sending[d]
  PROVE  Inv'
<1>1. /\ csr' \in [Cse -> Map(SUBSET Cse)] /\ jobs' \in [Cse -> Seq(Event)]
      /\ \A d \in Cse : Right(d, csr'[d]) /\ Queue(d, jobs'[d])
      /\ \A d \in Cse \ {b} : csr'[d] = csr[d] /\ jobs'[d] = jobs[d]
      /\ b \notin running => UNCHANGED <<csr, jobs>>
      /\ ~disturbed' => \A d \in Cse \ overlap : \A r \in RegistreeMap(d) :
           Explained(d, jobs[d], r, Registrees(d)) => Explained(d, jobs'[d], r, RegistreesOf(d, csr'[d]))
  BY ChangedRight
<1>2. TypeOK /\ monitor \in [Cse -> Monitor]
  BY DEF Inv, TypeOK
<1>3. m \in Monitor
  BY DEF Works
<1>4. monitor' \in [Cse -> Monitor] /\ monitor'[c] = m /\ \A d \in Cse \ {c} : monitor'[d] = monitor[d]
  BY <1>2, <1>3
<1>5. TypeOK'
  BY <1>1, <1>2, <1>4 DEF TypeOK, Counted
<1>6. ASSUME NEW d \in Cse PROVE Right(d, csr[d])' /\ Queue(d, jobs[d])' /\ Listed(d)' /\ Sent(d)'
  <2>1. Right(d, csr'[d]) /\ Queue(d, jobs'[d])
    BY <1>1
  <2>2. Listed(d)'
    BY DEF Inv, Listed, Descendants
  <2>3. Sent(d)'
    BY DEF Inv, Sent
  <2> QED BY <2>1, <2>2, <2>3 DEF Right, Queue
<1>7. ASSUME NEW d \in Cse PROVE Works(d, monitor[d])' /\ Over(d)'
  <2>1. Works(d, monitor[d]) /\ Over(d)
    BY DEF Inv
  <2>2. Works(d, monitor'[d])
    BY <1>4, <2>1
  <2>3. ASSUME d \notin running PROVE jobs'[d] = jobs[d]
    BY <1>1, <2>3
  <2>4. ASSUME d \notin running PROVE sending'[d] = {}
    BY <2>1, <2>4 DEF Over
  <2>5. ASSUME d \notin running PROVE monitor'[d] = Idle
    BY <1>4, <2>1, <2>5 DEF Over
  <2> QED BY <2>1, <2>2, <2>3, <2>4, <2>5 DEF Over, Works, HasRegistrar
<1>8. ASSUME ~disturbed', NEW d \in Cse \ overlap'
      PROVE  Checks(d, monitor[d], csr[d])' /\ Knows(d)'
  <2>1. ~disturbed /\ d \notin overlap
    BY <1>8 DEF Counted
  <2>2. Checks(d, monitor[d], csr[d]) /\ Knows(d)
    BY <2>1 DEF Inv
  <2>3. Knows(d)'
    BY <1>1, <1>8, <2>1, <2>2 DEF Knows, Registrees, RegistreesOf
  <2>4. Checks(d, monitor'[d], csr'[d])
    <3>1. CASE d = c
      BY <1>4, <1>8, <2>1, <3>1
    <3>2. CASE d # c /\ (d # b \/ UNCHANGED <<csr, jobs>>)
      BY <1>1, <1>4, <2>2, <3>2
    <3>3. CASE d # c /\ d = b /\ ~UNCHANGED <<csr, jobs>>
      BY <1>4, <2>1, <2>2, <3>3 DEF MayServe, Checks
    <3> QED BY <3>1, <3>2, <3>3
  <2> QED BY <2>3, <2>4 DEF Checks
<1> QED BY <1>5, <1>6, <1>7, <1>8 DEF Inv

\* A request of the monitor.
LEMMA RequestKeeps ==
  ASSUME Inv, NEW c \in Cse, c \in running, NEW request, NEW rsc, Request(c, request),
         handleSendRequest(c, request, rsc),
         NEW m, monitor' = [monitor EXCEPT ![c] = m], Works(c, m),
         Checks(c, m, csr[c]) \/ m = monitor[c],
         registrarCSE' \subseteq Cse, UNCHANGED <<descendantCSR, running, checkLiveliness, overlap>>,
         sending' \in [Cse -> SUBSET SUBSET Cse], \A d \in Cse : sending'[d] \subseteq sending[d]
  PROVE  Inv'
<1>1. Changed(Registrar[c]) /\ Counted /\ (UNCHANGED <<csr, jobs>> \/ MayServe(Registrar[c]))
  BY Requested
<1>2. Registrar[c] \in Cse /\ c # Registrar[c]
  BY RegistrarFacts DEF Request
<1>3. csr'[c] = csr[c]
  BY <1>1, <1>2, ChangedRight
<1>4. ~disturbed' /\ c \notin overlap => Checks(c, m, csr[c])
  BY <1>1 DEF Inv, Counted
<1> HIDE DEF Inv
<1> QED BY <1>1, <1>2, <1>3, <1>4, MonitorKeeps

\* Where the monitor goes next.
LEMMA Steps ==
  ASSUME Inv, NEW c \in Cse
  PROVE  /\ Works(c, Idle) /\ Checks(c, Idle, csr[c])
         /\ Works(c, Checked(c)) /\ Checks(c, Checked(c), csr[c])
         /\ HasRegistrar(c) =>
              \A pc \in {"retrieveCSR", "retrieveCSE", "compare", "update", "disconnect", "recreate", "delete",
                         "create", "register", "localCSR", "failed", "stop"} :
                /\ Works(c, [monitor[c] EXCEPT !.pc = pc])
                /\ Checks(c, [monitor[c] EXCEPT !.pc = pc], csr[c])
                /\ Works(c, [monitor[c] EXCEPT !.pc = pc, !.dcse = Descendants(c)])
                /\ Checks(c, [monitor[c] EXCEPT !.pc = pc, !.dcse = Descendants(c)], csr[c])
                /\ Works(c, [monitor[c] EXCEPT !.pc = pc, !.bound = TRUE])
                /\ Checks(c, [monitor[c] EXCEPT !.pc = pc, !.bound = TRUE], csr[c])
         /\ Works(c, [monitor[c] EXCEPT !.pc = "stopped"])
         /\ Checks(c, [monitor[c] EXCEPT !.pc = "stopped"], csr[c])
<1>1. Works(c, monitor[c]) /\ Right(c, csr[c]) /\ Listed(c)
  BY DEF Inv
<1>2. monitor[c] \in Monitor /\ monitor[c].dcse \subseteq Down(c) /\ monitor[c].csrs \subseteq Below(c)
  BY <1>1 DEF Works
<1>3. Works(c, Idle) /\ Checks(c, Idle, csr[c])
  BY DEF Works, Checks, Idle, Monitor, WithoutRegistrar
<1>4. Works(c, Checked(c)) /\ Checks(c, Checked(c), csr[c])
  <2> DEFINE x == DOMAIN csr[c] \ {Registrar[c]}
             m == [Idle EXCEPT !.pc = "registrees", !.csrs = x]
  <2>1. x \subseteq Below(c) /\ x \subseteq Cse
    BY <1>1 DEF Right, Below
  <2>2. Works(c, m) /\ Checks(c, m, csr[c])
    BY <2>1 DEF Works, Checks, Idle, Monitor, WithoutRegistrar
  <2> HIDE DEF m
  <2>3. Checked(c) = m \/ Checked(c) = Idle
    BY DEF Checked, m
  <2> QED BY <1>3, <2>2, <2>3
<1>5. Descendants(c) \subseteq Down(c) /\ Descendants(c) \subseteq Cse
  BY <1>1, BelowDown DEF Listed
<1>6. ASSUME HasRegistrar(c),
             NEW pc \in {"retrieveCSR", "retrieveCSE", "compare", "update", "disconnect", "recreate", "delete",
                         "create", "register", "localCSR", "failed", "stop"}
      PROVE  /\ Works(c, [monitor[c] EXCEPT !.pc = pc])
             /\ Checks(c, [monitor[c] EXCEPT !.pc = pc], csr[c])
             /\ Works(c, [monitor[c] EXCEPT !.pc = pc, !.dcse = Descendants(c)])
             /\ Checks(c, [monitor[c] EXCEPT !.pc = pc, !.dcse = Descendants(c)], csr[c])
             /\ Works(c, [monitor[c] EXCEPT !.pc = pc, !.bound = TRUE])
             /\ Checks(c, [monitor[c] EXCEPT !.pc = pc, !.bound = TRUE], csr[c])
  BY <1>2, <1>5, <1>6 DEF Works, Checks, Monitor, WithoutRegistrar
<1>7. /\ Works(c, [monitor[c] EXCEPT !.pc = "stopped"])
      /\ Checks(c, [monitor[c] EXCEPT !.pc = "stopped"], csr[c])
  BY <1>2 DEF Works, Checks, Monitor, WithoutRegistrar
<1> QED BY <1>3, <1>4, <1>6, <1>7

LEMMA Gotos ==
  ASSUME Inv, NEW c \in Cse, NEW pc, NEW x
  PROVE  /\ [monitor EXCEPT ![c].pc = pc] = [monitor EXCEPT ![c] = [monitor[c] EXCEPT !.pc = pc]]
         /\ [monitor EXCEPT ![c].pc = pc, ![c].dcse = x]
              = [monitor EXCEPT ![c] = [monitor[c] EXCEPT !.pc = pc, !.dcse = x]]
         /\ [monitor EXCEPT ![c].pc = pc, ![c].bound = x]
              = [monitor EXCEPT ![c] = [monitor[c] EXCEPT !.pc = pc, !.bound = x]]
<1>1. monitor \in [Cse -> Monitor]
  BY DEF Inv, TypeOK
<1> QED BY <1>1 DEF Monitor

LEMMA Actor ==
  ASSUME Inv, NEW c \in Cse, monitor[c].pc # "idle"
  PROVE  /\ c \in running
         /\ monitor[c].pc \notin WithoutRegistrar => HasRegistrar(c) /\ Registrar[c] \in Cse
<1>1. monitor[c] # Idle
  BY DEF Idle
<1> QED BY <1>1, RegistrarFacts DEF Inv, Over, Works

\* A request whose answer only decides how the monitor goes on.
LEMMA AnswerKeeps ==
  ASSUME Inv, NEW c \in Cse, NEW request, NEW rsc, monitor[c].pc \notin WithoutRegistrar, Request(c, request),
         handleSendRequest(c, request, rsc), registrarCSE' \subseteq Cse, UNCHANGED unchangedByMonitor,
         \/ Next1(c, Checked(c)) \/ Goto(c, "stopped")
         \/ \E pc \in {"retrieveCSR", "retrieveCSE", "compare", "update", "disconnect", "recreate", "delete",
                       "create", "register", "localCSR", "failed", "stop"} :
              \/ Goto(c, pc)
              \/ monitor' = [monitor EXCEPT ![c].pc = pc, ![c].dcse = Descendants(c)]
              \/ monitor' = [monitor EXCEPT ![c].pc = pc, ![c].bound = TRUE]
  PROVE  Inv'
<1>1. c \in running /\ HasRegistrar(c)
  BY Actor DEF WithoutRegistrar
<1>2. PICK m : monitor' = [monitor EXCEPT ![c] = m] /\ Works(c, m) /\ Checks(c, m, csr[c])
  <2>1. CASE Next1(c, Checked(c))
    BY <2>1, Steps DEF Next1
  <2>2. CASE Goto(c, "stopped")
    BY <2>2, Steps, Gotos DEF Goto
  <2>3. ASSUME NEW pc \in {"retrieveCSR", "retrieveCSE", "compare", "update", "disconnect", "recreate", "delete",
                           "create", "register", "localCSR", "failed", "stop"},
               \/ Goto(c, pc)
               \/ monitor' = [monitor EXCEPT ![c].pc = pc, ![c].dcse = Descendants(c)]
               \/ monitor' = [monitor EXCEPT ![c].pc = pc, ![c].bound = TRUE]
        PROVE  \E m : monitor' = [monitor EXCEPT ![c] = m] /\ Works(c, m) /\ Checks(c, m, csr[c])
    <3>1. /\ Works(c, [monitor[c] EXCEPT !.pc = pc])
          /\ Checks(c, [monitor[c] EXCEPT !.pc = pc], csr[c])
          /\ Works(c, [monitor[c] EXCEPT !.pc = pc, !.dcse = Descendants(c)])
          /\ Checks(c, [monitor[c] EXCEPT !.pc = pc, !.dcse = Descendants(c)], csr[c])
          /\ Works(c, [monitor[c] EXCEPT !.pc = pc, !.bound = TRUE])
          /\ Checks(c, [monitor[c] EXCEPT !.pc = pc, !.bound = TRUE], csr[c])
      BY <1>1, <2>3, Steps
    <3>2. CASE Goto(c, pc)
      <4>1. monitor' = [monitor EXCEPT ![c] = [monitor[c] EXCEPT !.pc = pc]]
        BY <3>2, Gotos DEF Goto
      <4> QED BY <3>1, <4>1, Zenon
    <3>3. CASE monitor' = [monitor EXCEPT ![c].pc = pc, ![c].dcse = Descendants(c)]
      <4>1. monitor' = [monitor EXCEPT ![c] = [monitor[c] EXCEPT !.pc = pc, !.dcse = Descendants(c)]]
        BY <3>3, Gotos
      <4> QED BY <3>1, <4>1, Zenon
    <3>4. CASE monitor' = [monitor EXCEPT ![c].pc = pc, ![c].bound = TRUE]
      <4>1. monitor' = [monitor EXCEPT ![c] = [monitor[c] EXCEPT !.pc = pc, !.bound = TRUE]]
        BY <3>4, Gotos
      <4> QED BY <3>1, <4>1, Zenon
    <3> QED BY <2>3, <3>2, <3>3, <3>4
  <2> QED BY <2>1, <2>2, <2>3
<1>3. sending \in [Cse -> SUBSET SUBSET Cse]
  BY DEF Inv, TypeOK
<1> HIDE DEF Inv
<1> QED BY <1>1, <1>2, <1>3, RequestKeeps, Zenon DEF unchangedByMonitor

LEMMA checkOwnCSRKeeps == ASSUME Inv, NEW c \in Cse, checkOwnCSR(c) PROVE Inv'
<1>1. monitor[c].pc = "retrieveCSR" /\ HasRegistrar(c) /\ registrarCSE' \subseteq Cse
  BY Actor DEF checkOwnCSR, WithoutRegistrar, Inv, TypeOK
<1>2. PICK rsc \in {"OK", "NOT_FOUND"} \cup NoAnswer : handleSendRequest(c, RetrieveCSR(c), rsc)
  BY DEF checkOwnCSR
<1>3. \/ monitor' = [monitor EXCEPT ![c].pc = "retrieveCSE", ![c].bound = TRUE]
      \/ Next1(c, Checked(c)) \/ Goto(c, "disconnect")
  BY DEF checkOwnCSR
<1> QED BY <1>1, <1>2, <1>3, Retrieves, AnswerKeeps DEF checkOwnCSR, WithoutRegistrar

LEMMA checkRegistrarCSEKeeps == ASSUME Inv, NEW c \in Cse, checkRegistrarCSE(c) PROVE Inv'
<1>1. monitor[c].pc = "retrieveCSE" /\ HasRegistrar(c)
  BY Actor DEF checkRegistrarCSE, WithoutRegistrar
<1>2. PICK rsc \in {"OK"} \cup NoAnswer : handleSendRequest(c, RetrieveCSE(c), rsc)
  BY DEF checkRegistrarCSE
<1>3. Goto(c, "compare") /\ registrarCSE' \subseteq Cse
  BY DEF checkRegistrarCSE, Inv, TypeOK
<1> QED BY <1>1, <1>2, <1>3, Retrieves, AnswerKeeps DEF checkRegistrarCSE, WithoutRegistrar

LEMMA updateOwnCSRKeeps == ASSUME Inv, NEW c \in Cse, updateOwnCSR(c) PROVE Inv'
<1>1. monitor[c].pc = "update" /\ HasRegistrar(c) /\ registrarCSE' \subseteq Cse
  BY Actor DEF updateOwnCSR, WithoutRegistrar, Inv, TypeOK
<1>2. PICK rsc \in {"UPDATED", "NOT_FOUND"} \cup NoAnswer :
        handleSendRequest(c, UpdateCSR(c, monitor[c].dcse), rsc)
  BY DEF updateOwnCSR
<1>3. Next1(c, Checked(c)) \/ Goto(c, "disconnect")
  BY DEF updateOwnCSR
<1>4. monitor[c].dcse \in SUBSET Down(c)
  BY DEF Inv, Works
<1> QED BY <1>1, <1>2, <1>3, <1>4, Creates, AnswerKeeps DEF updateOwnCSR, WithoutRegistrar

LEMMA recreateCSRKeeps == ASSUME Inv, NEW c \in Cse, recreateCSR(c) PROVE Inv'
<1>1. monitor[c].pc = "recreate" /\ HasRegistrar(c) /\ registrarCSE' \subseteq Cse
  BY Actor DEF recreateCSR, WithoutRegistrar, Inv, TypeOK
<1>2. PICK rsc \in {"CREATED", "CONFLICT"} \cup NoAnswer :
        handleSendRequest(c, CreateCSR(c, monitor[c].dcse), rsc)
  BY DEF recreateCSR
<1>3. Goto(c, "register") \/ Goto(c, "failed")
  BY DEF recreateCSR
<1>4. monitor[c].dcse \in SUBSET Down(c)
  BY DEF Inv, Works
<1> QED BY <1>1, <1>2, <1>3, <1>4, Creates, AnswerKeeps DEF recreateCSR, WithoutRegistrar

LEMMA deleteOwnCSRKeeps == ASSUME Inv, NEW c \in Cse, deleteOwnCSR(c) PROVE Inv'
<1>1. monitor[c].pc = "delete" /\ HasRegistrar(c) /\ registrarCSE' \subseteq Cse
  BY Actor DEF deleteOwnCSR, WithoutRegistrar, Inv, TypeOK
<1>2. PICK rsc \in {"DELETED", "NOT_FOUND"} \cup NoAnswer : handleSendRequest(c, DeleteCSR(c), rsc)
  BY DEF deleteOwnCSR
<1>3. Next1(c, Checked(c)) \/ monitor' = [monitor EXCEPT ![c].pc = "create", ![c].dcse = Descendants(c)]
  BY DEF deleteOwnCSR
<1> QED BY <1>1, <1>2, <1>3, Deletes, AnswerKeeps DEF deleteOwnCSR, WithoutRegistrar

LEMMA createOwnCSRKeeps == ASSUME Inv, NEW c \in Cse, createOwnCSR(c) PROVE Inv'
<1>1. monitor[c].pc = "create" /\ HasRegistrar(c)
  BY Actor DEF createOwnCSR, WithoutRegistrar
<1>2. PICK rsc \in {"CREATED", "CONFLICT"} \cup NoAnswer :
        handleSendRequest(c, CreateCSR(c, monitor[c].dcse), rsc)
  BY DEF createOwnCSR
<1>3. (Next1(c, Checked(c)) \/ Goto(c, "register")) /\ registrarCSE' \subseteq Cse
  BY DEF createOwnCSR, Inv, TypeOK
<1>4. monitor[c].dcse \in SUBSET Down(c)
  BY DEF Inv, Works
<1> QED BY <1>1, <1>2, <1>3, <1>4, Creates, AnswerKeeps DEF createOwnCSR, WithoutRegistrar

LEMMA retrieveRegistrarCSEKeeps == ASSUME Inv, NEW c \in Cse, retrieveRegistrarCSE(c) PROVE Inv'
<1>1. monitor[c].pc = "register" /\ HasRegistrar(c)
  BY Actor DEF retrieveRegistrarCSE, WithoutRegistrar
<1>2. PICK rsc \in {"OK"} \cup NoAnswer : handleSendRequest(c, RetrieveCSE(c), rsc)
  BY DEF retrieveRegistrarCSE
<1>3. (Next1(c, Checked(c)) \/ Goto(c, "localCSR")) /\ registrarCSE' \subseteq Cse
  BY DEF retrieveRegistrarCSE, Inv, TypeOK
<1> QED BY <1>1, <1>2, <1>3, Retrieves, AnswerKeeps DEF retrieveRegistrarCSE, WithoutRegistrar

LEMMA stopDeleteOwnCSRKeeps == ASSUME Inv, NEW c \in Cse, stopDeleteOwnCSR(c) PROVE Inv'
<1>1. monitor[c].pc = "stop" /\ HasRegistrar(c) /\ registrarCSE' \subseteq Cse
  BY Actor DEF stopDeleteOwnCSR, WithoutRegistrar, Inv, TypeOK
<1>2. PICK rsc \in {"DELETED", "NOT_FOUND"} \cup NoAnswer : handleSendRequest(c, DeleteCSR(c), rsc)
  BY DEF stopDeleteOwnCSR
<1>3. Goto(c, "stopped")
  BY DEF stopDeleteOwnCSR
<1> QED BY <1>1, <1>2, <1>3, Deletes, AnswerKeeps DEF stopDeleteOwnCSR, WithoutRegistrar

\* A step of the monitor that changes nothing outside it.
LEMMA LocalKeeps ==
  ASSUME Inv, NEW c \in Cse, c \in running, NEW m, Changed(c), Counted,
         monitor' = [monitor EXCEPT ![c] = m], Works(c, m),
         ~disturbed' /\ c \notin overlap => Checks(c, m, csr'[c]),
         registrarCSE' \subseteq Cse, UNCHANGED unchangedByMonitor
  PROVE  Inv'
<1>1. sending \in [Cse -> SUBSET SUBSET Cse]
  BY DEF Inv, TypeOK
<1> HIDE DEF Inv
<1> QED BY <1>1, MonitorKeeps DEF unchangedByMonitor

LEMMA NotCounted == ASSUME Inv, UNCHANGED disturbed, UNCHANGED incidents \/ (incidents < MaxIncident /\ incidents' = incidents + 1)
                    PROVE Counted
<1>1. incidents \in 0..MaxIncident /\ MaxIncident \in Nat /\ disturbed \in BOOLEAN
  BY RegistrarAssumption DEF Inv, TypeOK
<1> QED BY <1>1 DEF Counted

LEMMA connectionMonitorWorkerKeeps == ASSUME Inv, NEW c \in Cse, connectionMonitorWorker(c) PROVE Inv'
<1>1. /\ c \in running /\ UNCHANGED <<csr, jobs, registrarCSE, disturbed, incidents>> /\ UNCHANGED unchangedByMonitor
      /\ registrarCSE' \subseteq Cse
  BY DEF connectionMonitorWorker, unchangedLocally, Inv, TypeOK
<1>2. Changed(c) /\ Counted
  BY <1>1, NotCounted DEF Changed
<1>3. \/ HasRegistrar(c) /\ (Goto(c, "retrieveCSR") \/ Goto(c, "delete"))
      \/ Next1(c, Checked(c))
  BY Zenon DEF connectionMonitorWorker
<1>4. PICK m : monitor' = [monitor EXCEPT ![c] = m] /\ Works(c, m) /\ Checks(c, m, csr[c])
  <2>1. CASE Next1(c, Checked(c))
    BY <2>1, Steps DEF Next1
  <2>2. ASSUME HasRegistrar(c), NEW pc \in {"retrieveCSR", "delete"}, Goto(c, pc)
        PROVE  \E m : monitor' = [monitor EXCEPT ![c] = m] /\ Works(c, m) /\ Checks(c, m, csr[c])
    <3>1. Works(c, [monitor[c] EXCEPT !.pc = pc]) /\ Checks(c, [monitor[c] EXCEPT !.pc = pc], csr[c])
      BY <2>2, Steps
    <3>2. monitor' = [monitor EXCEPT ![c] = [monitor[c] EXCEPT !.pc = pc]]
      BY <2>2, Gotos DEF Goto
    <3> QED BY <3>1, <3>2, Zenon
  <2> QED BY <1>3, <2>1, <2>2
<1> HIDE DEF Inv
<1> QED BY <1>1, <1>2, <1>4, LocalKeeps

LEMMA checkOwnCSEKeeps == ASSUME Inv, NEW c \in Cse, checkOwnCSE(c) PROVE Inv'
<1>1. /\ c \in running /\ HasRegistrar(c) /\ UNCHANGED <<csr, jobs, registrarCSE, disturbed>>
      /\ UNCHANGED unchangedByMonitor /\ registrarCSE' \subseteq Cse
  BY Actor DEF checkOwnCSE, Inv, TypeOK, WithoutRegistrar
<1>2. UNCHANGED incidents \/ (incidents < MaxIncident /\ incidents' = incidents + 1)
  BY DEF checkOwnCSE
<1>3. Changed(c) /\ Counted
  BY <1>1, <1>2, NotCounted DEF Changed
<1>4. \/ monitor' = [monitor EXCEPT ![c].pc = "update", ![c].dcse = Descendants(c)]
      \/ Next1(c, Checked(c))
  BY DEF checkOwnCSE
<1>5. PICK m : monitor' = [monitor EXCEPT ![c] = m] /\ Works(c, m) /\ Checks(c, m, csr[c])
  <2>1. CASE Next1(c, Checked(c))
    BY <2>1, Steps DEF Next1
  <2>2. CASE monitor' = [monitor EXCEPT ![c].pc = "update", ![c].dcse = Descendants(c)]
    <3>1. monitor' = [monitor EXCEPT ![c] = [monitor[c] EXCEPT !.pc = "update", !.dcse = Descendants(c)]]
      BY <2>2, Gotos
    <3>2. /\ Works(c, [monitor[c] EXCEPT !.pc = "update", !.dcse = Descendants(c)])
          /\ Checks(c, [monitor[c] EXCEPT !.pc = "update", !.dcse = Descendants(c)], csr[c])
      BY <1>1, Steps
    <3> QED BY <3>1, <3>2, Zenon
  <2> QED BY <1>4, <2>1, <2>2
<1> HIDE DEF Inv
<1> QED BY <1>1, <1>3, <1>5, LocalKeeps

LEMMA disconnectKeeps == ASSUME Inv, NEW c \in Cse, disconnect(c) PROVE Inv'
<1> DEFINE f == Restrict(csr[c], DOMAIN csr[c] \ {Registrar[c]})
           e == NewEvent("deregistered", Registrar[c], {})
           m == [monitor[c] EXCEPT !.pc = "recreate", !.dcse = Descendants(c)]
<1>1. c \in running /\ HasRegistrar(c) /\ Registrar[c] \in Cse
  BY Actor DEF disconnect, WithoutRegistrar
<1>2. Right(c, csr[c]) /\ csr \in [Cse -> Map(SUBSET Cse)]
  BY DEF Inv, TypeOK
<1>3. Right(c, f)
  <2>1. f \in Map(SUBSET Cse)
    BY <1>2, CsrRestrict DEF Right
  <2>2. DOMAIN f \subseteq DOMAIN csr[c] /\ \A x \in DOMAIN f : f[x] = csr[c][x]
    BY DEF Restrict
  <2> HIDE DEF f
  <2> QED BY <1>2, <2>1, <2>2 DEF Right
<1>4. e \in Event /\ e.type = "deregistered" /\ e.csi = Registrar[c]
  BY <1>1 DEF NewEvent, Event
<1>5. RegistreesOf(c, f) = Restrict(Registrees(c), DOMAIN Registrees(c) \ {Registrar[c]})
  BY Zenon DEF RegistreesOf, Registrees, Restrict
<1> HIDE DEF e
<1>6. Truthful(e, c) /\ Tells(e, Registrees(c), RegistreesOf(c, f))
  BY <1>4, <1>5 DEF Truthful, Tells
<1>7. Change(c, f, <<e>>)
  BY <1>3, <1>4, <1>6, OneEvent
<1>8. csr' = [csr EXCEPT ![c] = f] /\ jobs' = [jobs EXCEPT ![c] = @ \o <<e>>]
  BY <1>2 DEF disconnect, Raise, e
<1>9. Changed(c)
  BY <1>1, <1>7, <1>8 DEF Changed, Change
<1>10. UNCHANGED unchangedByMonitor /\ Counted /\ registrarCSE' \subseteq Cse
  BY NotCounted DEF disconnect, unchangedLocally, Inv, TypeOK
<1>11. Works(c, m) /\ Checks(c, m, csr'[c])
  <2>1. Works(c, m)
    BY <1>1, Steps
  <2>2. m.pc = "recreate"
    BY DEF Inv, TypeOK, Monitor
  <2> QED BY <2>1, <2>2 DEF Checks
<1>12. monitor' = [monitor EXCEPT ![c] = m]
  BY Gotos DEF disconnect
<1> HIDE DEF Inv, m
<1> QED BY <1>1, <1>9, <1>10, <1>11, <1>12, LocalKeeps

LEMMA disconnectedKeeps == ASSUME Inv, NEW c \in Cse, disconnected(c) PROVE Inv'
<1> DEFINE e == NewEvent("deregisteredFromRegistrarCSE", c, {})
<1>1. c \in running
  BY Actor DEF disconnected
<1>2. Right(c, csr[c]) /\ csr \in [Cse -> Map(SUBSET Cse)]
  BY DEF Inv, TypeOK
<1>3. e \in Event /\ e.type = "deregisteredFromRegistrarCSE"
  BY DEF NewEvent, Event
<1> HIDE DEF e
<1>4. Truthful(e, c) /\ Tells(e, Registrees(c), RegistreesOf(c, csr[c]))
  BY <1>3 DEF Truthful, Tells, Registrees
<1>5. Change(c, csr[c], <<e>>)
  BY <1>2, <1>3, <1>4, OneEvent
<1>6. csr' = [csr EXCEPT ![c] = csr[c]] /\ jobs' = [jobs EXCEPT ![c] = @ \o <<e>>]
  BY <1>2 DEF disconnected, Raise, e
<1>7. Changed(c)
  BY <1>1, <1>5, <1>6 DEF Changed, Change
<1>8. UNCHANGED unchangedByMonitor /\ Counted /\ registrarCSE' \subseteq Cse
  BY NotCounted DEF disconnected, unchangedLocally, Inv, TypeOK
<1>9. Works(c, Checked(c)) /\ Checks(c, Checked(c), csr'[c]) /\ monitor' = [monitor EXCEPT ![c] = Checked(c)]
  BY Steps DEF disconnected, Next1
<1> HIDE DEF Inv
<1> QED BY <1>1, <1>7, <1>8, <1>9, LocalKeeps

LEMMA createLocalCSRKeeps == ASSUME Inv, NEW c \in Cse, createLocalCSR(c) PROVE Inv'
<1> DEFINE f == With(csr[c], Registrar[c], {})
           e == NewEvent("registeredToRegistrarCSE", c, {})
<1>1. c \in running /\ HasRegistrar(c) /\ Registrar[c] \in Cse
  BY Actor DEF createLocalCSR, WithoutRegistrar
<1>2. Right(c, csr[c]) /\ csr \in [Cse -> Map(SUBSET Cse)]
  BY DEF Inv, TypeOK
<1>3. DOMAIN f = DOMAIN csr[c] \cup {Registrar[c]} /\ \A x \in DOMAIN f \ {Registrar[c]} : f[x] = csr[c][x]
  BY DEF With
<1>4. Right(c, f)
  <2>1. f \in Map(SUBSET Cse)
    BY <1>1, <1>2, CsrWith DEF Right
  <2> HIDE DEF f
  <2> QED BY <1>2, <1>3, <2>1 DEF Right
<1>5. e \in Event /\ e.type = "registeredToRegistrarCSE"
  BY DEF NewEvent, Event
<1>6. RegistreesOf(c, f) = Registrees(c)
  BY Zenon DEF RegistreesOf, Registrees, Restrict, With
<1> HIDE DEF e
<1>7. Truthful(e, c) /\ Tells(e, Registrees(c), RegistreesOf(c, f))
  BY <1>5, <1>6 DEF Truthful, Tells
<1>8. Change(c, f, <<e>>)
  BY <1>4, <1>5, <1>7, OneEvent
<1>9. csr' = [csr EXCEPT ![c] = f] /\ jobs' = [jobs EXCEPT ![c] = @ \o <<e>>]
  BY <1>2 DEF createLocalCSR, Raise, e
<1>10. Changed(c)
  BY <1>1, <1>8, <1>9 DEF Changed, Change
<1>11. UNCHANGED unchangedByMonitor /\ Counted /\ registrarCSE' \subseteq Cse
  BY NotCounted DEF createLocalCSR, unchangedLocally, Inv, TypeOK
<1>12. Works(c, Checked(c)) /\ Checks(c, Checked(c), csr[c]) /\ monitor' = [monitor EXCEPT ![c] = Checked(c)]
  BY Steps DEF createLocalCSR, Next1
<1>13. Checks(c, Checked(c), csr'[c])
  <2>1. csr'[c] = f
    BY <1>2, <1>9
  <2> QED BY <1>3, <1>12, <2>1 DEF Checks
<1> HIDE DEF Inv
<1> QED BY <1>1, <1>10, <1>11, <1>12, <1>13, LocalKeeps

LEMMA checkRegistreeLivelinessKeeps == ASSUME Inv, NEW c \in Cse, checkRegistreeLiveliness(c) PROVE Inv'
<1>1. c \in running /\ monitor[c].pc = "registrees"
  BY Actor DEF checkRegistreeLiveliness
<1>2. /\ Right(c, csr[c]) /\ csr \in [Cse -> Map(SUBSET Cse)] /\ Works(c, monitor[c])
      /\ monitor \in [Cse -> Monitor] /\ monitor[c] \in Monitor
  BY DEF Inv, TypeOK
<1>3. ~disturbed /\ c \notin overlap => Checks(c, monitor[c], csr[c])
  BY DEF Inv
<1>4. UNCHANGED unchangedByMonitor /\ UNCHANGED csr /\ registrarCSE' \subseteq Cse
  BY DEF checkRegistreeLiveliness, Inv, TypeOK
<1>5. CASE Next1(c, Idle) /\ UNCHANGED <<jobs, incidents, disturbed>>
  <2>1. Changed(c) /\ Counted
    BY <1>4, <1>5, NotCounted DEF Changed
  <2>2. Works(c, Idle) /\ Checks(c, Idle, csr'[c]) /\ monitor' = [monitor EXCEPT ![c] = Idle]
    BY <1>4, <1>5, Steps DEF Next1
  <2> HIDE DEF Inv
  <2> QED BY <1>1, <1>4, <2>1, <2>2, LocalKeeps
<1>6. ASSUME NEW d \in monitor[c].csrs, monitor' = [monitor EXCEPT ![c].csrs = @ \ {d}],
             UNCHANGED <<jobs, incidents, disturbed>>
      PROVE  Inv'
  <2> DEFINE m == [monitor[c] EXCEPT !.csrs = @ \ {d}]
  <2>1. Changed(c) /\ Counted
    BY <1>4, <1>6, NotCounted DEF Changed
  <2>2. monitor' = [monitor EXCEPT ![c] = m]
    BY <1>2, <1>6 DEF Monitor
  <2>3. m.pc = "registrees" /\ m.csrs = monitor[c].csrs \ {d} /\ m.dcse = monitor[c].dcse /\ m \in Monitor
    BY <1>1, <1>2 DEF Monitor
  <2> HIDE DEF m
  <2>4. Works(c, m)
    BY <1>2, <2>3 DEF Works, WithoutRegistrar
  <2>5. ~disturbed' /\ c \notin overlap => Checks(c, m, csr'[c])
    BY <1>1, <1>3, <1>4, <1>6, <2>3 DEF Checks
  <2> HIDE DEF Inv
  <2> QED BY <1>1, <1>4, <2>1, <2>2, <2>4, <2>5, LocalKeeps
<1>7. ASSUME NEW d \in monitor[c].csrs, Raise(c, <<NewEvent("deregistered", d, {})>>),
             monitor' = [monitor EXCEPT ![c].pc = "deleteCSR", ![c].csrs = @ \ {d}, ![c].csi = d],
             \/ d \notin running /\ disturbed' = TRUE /\ UNCHANGED incidents
             \/ d \in running /\ incidents < MaxIncident /\ incidents' = incidents + 1 /\ disturbed' = TRUE
             \/ d \notin DOMAIN csr[c] \cup Descendants(c) /\ UNCHANGED <<incidents, disturbed>>
      PROVE  Inv'
  <2> DEFINE m == [monitor[c] EXCEPT !.pc = "deleteCSR", !.csrs = @ \ {d}, !.csi = d]
             e == NewEvent("deregistered", d, {})
  <2>1. d \in Below(c) /\ d \in Cse
    BY <1>2 DEF Works, Below
  <2>2. e \in Event /\ e.type = "deregistered" /\ e.csi = d
    BY <2>1 DEF NewEvent, Event
  <2>3. jobs' = [jobs EXCEPT ![c] = @ \o <<e>>] /\ csr' = [csr EXCEPT ![c] = csr[c]]
    BY <1>2, <1>4, <1>7 DEF Raise
  <2> HIDE DEF e
  <2>4. Queue(c, <<e>>)
    BY <2>1, <2>2 DEF Queue, Truthful
  <2>5. disturbed' \/ c \in overlap
    BY <1>1, <1>3, <1>7 DEF Checks
  <2>6. Changed(c)
    BY <1>1, <1>2, <2>3, <2>4, <2>5 DEF Changed
  <2>7. Counted
    <3>1. incidents \in 0..MaxIncident /\ MaxIncident \in Nat /\ disturbed \in BOOLEAN
      BY RegistrarAssumption DEF Inv, TypeOK
    <3>2. incidents' = incidents \/ (incidents < MaxIncident /\ incidents' = incidents + 1)
      BY <1>7, Zenon
    <3>3. disturbed' = TRUE \/ UNCHANGED disturbed
      BY <1>7, Zenon
    <3>4. incidents' \in 0..MaxIncident
      BY <3>1, <3>2
    <3> QED BY <3>1, <3>3, <3>4 DEF Counted
  <2>8. monitor' = [monitor EXCEPT ![c] = m]
    BY <1>2, <1>7 DEF Monitor
  <2>9. m.pc = "deleteCSR" /\ m.csrs = monitor[c].csrs \ {d} /\ m.dcse = monitor[c].dcse /\ m \in Monitor
    BY <1>2, <2>1 DEF Monitor
  <2> HIDE DEF m
  <2>10. Works(c, m)
    BY <1>2, <2>9 DEF Works, WithoutRegistrar
  <2> HIDE DEF Inv
  <2> QED BY <1>1, <1>4, <2>5, <2>6, <2>7, <2>8, <2>10, LocalKeeps
<1> QED BY <1>5, <1>6, <1>7, Zenon DEF checkRegistreeLiveliness

LEMMA deleteRegistreeCSRKeeps == ASSUME Inv, NEW c \in Cse, deleteRegistreeCSR(c) PROVE Inv'
<1> DEFINE f == Restrict(csr[c], DOMAIN csr[c] \ {monitor[c].csi})
           m == [monitor[c] EXCEPT !.pc = "registrees", !.csi = None]
<1>1. c \in running /\ monitor[c].pc = "deleteCSR"
  BY Actor DEF deleteRegistreeCSR
<1>2. /\ Right(c, csr[c]) /\ csr \in [Cse -> Map(SUBSET Cse)] /\ Works(c, monitor[c])
      /\ monitor \in [Cse -> Monitor] /\ monitor[c] \in Monitor /\ jobs \in [Cse -> Seq(Event)]
  BY DEF Inv, TypeOK
<1>3. disturbed \/ c \in overlap
  BY <1>1 DEF Inv, Checks
<1>4. Right(c, f)
  <2>1. f \in Map(SUBSET Cse)
    BY <1>2, CsrRestrict DEF Right
  <2>2. DOMAIN f \subseteq DOMAIN csr[c] /\ \A x \in DOMAIN f : f[x] = csr[c][x]
    BY DEF Restrict
  <2> HIDE DEF f
  <2> QED BY <1>2, <2>1, <2>2 DEF Right
<1>5. csr' = [csr EXCEPT ![c] = f] /\ jobs' = [jobs EXCEPT ![c] = @ \o <<>>]
  <2>1. jobs[c] \o <<>> = jobs[c]
    BY <1>2, ConcatEmptySeq
  <2> QED BY <1>2, <2>1 DEF deleteRegistreeCSR
<1>6. Queue(c, <<>>)
  BY DEF Queue
<1>7. UNCHANGED unchangedByMonitor /\ Counted /\ registrarCSE' \subseteq Cse /\ UNCHANGED disturbed
  BY NotCounted DEF deleteRegistreeCSR, unchangedLocally, Inv, TypeOK
<1>8. Changed(c)
  BY <1>1, <1>3, <1>4, <1>5, <1>6, <1>7 DEF Changed
<1>9. monitor' = [monitor EXCEPT ![c] = m]
  BY <1>2 DEF deleteRegistreeCSR, Monitor
<1>10. m.pc = "registrees" /\ m.csrs = monitor[c].csrs /\ m.dcse = monitor[c].dcse /\ m \in Monitor
  BY <1>2 DEF Monitor
<1> HIDE DEF m
<1>11. Works(c, m)
  BY <1>2, <1>10 DEF Works, WithoutRegistrar
<1> HIDE DEF Inv
<1> QED BY <1>1, <1>3, <1>7, <1>8, <1>9, <1>11, LocalKeeps

LEMMA stopKeeps == ASSUME Inv, NEW c \in Cse, stop(c) PROVE Inv'
<1>1. /\ c \in running /\ UNCHANGED <<csr, jobs, registrarCSE, disturbed>> /\ incidents < MaxIncident
      /\ incidents' = incidents + 1 /\ UNCHANGED unchangedByMonitor /\ registrarCSE' \subseteq Cse
  BY DEF stop, unchangedByMonitor, Inv, TypeOK
<1>2. Changed(c) /\ Counted
  BY <1>1, NotCounted DEF Changed
<1>3. PICK pc \in {"stop", "stopped"} : Goto(c, pc) /\ (pc = "stop" => HasRegistrar(c))
  BY DEF stop
<1>4. monitor' = [monitor EXCEPT ![c] = [monitor[c] EXCEPT !.pc = pc]]
  BY <1>3, Gotos DEF Goto
<1>5. Works(c, [monitor[c] EXCEPT !.pc = pc]) /\ Checks(c, [monitor[c] EXCEPT !.pc = pc], csr[c])
  <2>1. CASE pc = "stop"
    BY <1>3, <2>1, Steps
  <2>2. CASE pc = "stopped"
    BY <2>2, Steps
  <2> QED BY <2>1, <2>2
<1> HIDE DEF Inv
<1> QED BY <1>1, <1>2, <1>4, <1>5, LocalKeeps

LEMMA updateCSRonRegistrarCSEKeeps == ASSUME Inv, NEW c \in Cse, updateCSRonRegistrarCSE(c) PROVE Inv'
<1>1. PICK dcse \in sending[c] :
        /\ sending' = [sending EXCEPT ![c] = @ \ {dcse}]
        /\ IF LocalRegistrarCSR(c)
             THEN \E rsc \in {"UPDATED", "NOT_FOUND"} \cup NoAnswer :
                    handleSendRequest(c, UpdateCSR(c, dcse), rsc)
             ELSE UNCHANGED <<csr, jobs, incidents, disturbed>>
  BY DEF updateCSRonRegistrarCSE
<1>2. /\ c \in running /\ UNCHANGED <<descendantCSR, registrarCSE, running, monitor, checkLiveliness, overlap>>
      /\ registrarCSE' \subseteq Cse
  BY DEF updateCSRonRegistrarCSE, Inv, TypeOK
<1>3. /\ sending \in [Cse -> SUBSET SUBSET Cse] /\ monitor \in [Cse -> Monitor]
      /\ Works(c, monitor[c]) /\ Right(c, csr[c]) /\ dcse \in SUBSET Down(c)
  BY <1>1 DEF Inv, TypeOK, Sent
<1>4. sending' \in [Cse -> SUBSET SUBSET Cse] /\ \A d \in Cse : sending'[d] \subseteq sending[d]
  BY <1>1, <1>3
<1>5. monitor' = [monitor EXCEPT ![c] = monitor[c]]
  BY <1>2, <1>3
<1>6. CASE LocalRegistrarCSR(c)
  <2>1. HasRegistrar(c)
    BY <1>3, <1>6, MapValues, RegistrarAssumption DEF LocalRegistrarCSR, Right, HasRegistrar
  <2>2. PICK rsc \in {"UPDATED", "NOT_FOUND"} \cup NoAnswer : handleSendRequest(c, UpdateCSR(c, dcse), rsc)
    BY <1>1, <1>6
  <2>3. Request(c, UpdateCSR(c, dcse))
    BY <1>3, <2>1, Creates
  <2> HIDE DEF Inv
  <2> QED BY <1>2, <1>3, <1>4, <1>5, <2>2, <2>3, RequestKeeps
<1>7. CASE ~LocalRegistrarCSR(c)
  <2>1. UNCHANGED <<csr, jobs, incidents, disturbed>>
    BY <1>1, <1>7
  <2>2. Changed(c) /\ Counted
    BY <2>1, NotCounted DEF Changed
  <2>3. ~disturbed' /\ c \notin overlap => Checks(c, monitor[c], csr'[c])
    BY <2>1 DEF Inv
  <2> HIDE DEF Inv
  <2> QED BY <1>2, <1>3, <1>4, <1>5, <2>2, <2>3, MonitorKeeps
<1> QED BY <1>6, <1>7

(***************************************************************************)
(* The events, and the start and end of a CSE.                             *)
(***************************************************************************)
\* The list that is kept names only what is below the CSE.
LEMMA HandledBelow ==
  ASSUME Inv, NEW c \in Cse, NEW e \in Event, Truthful(e, c),
         e.type \in {"registered", "deregistered", "updated"}
  PROVE  Handled(c, e) \in Map(Cse) /\ DOMAIN Handled(c, e) \subseteq Down(c)
<1> DEFINE list == descendantCSR[c]
<1>1. DOMAIN list \subseteq Down(c)
  BY DEF Inv, Listed, Descendants
<1>2. e.type \in {"registered", "updated"} => {e.csi} \cup e.dcse \subseteq Down(c)
  <2>1. ASSUME e.csi \in Below(c), e.dcse \subseteq Down(e.csi) PROVE {e.csi} \cup e.dcse \subseteq Down(c)
    BY <2>1, DownBelow
  <2> QED BY <2>1 DEF Truthful
<1>3. e.type = "registered" => DOMAIN Handled(c, e) \subseteq DOMAIN list \cup {e.csi} \cup e.dcse
  BY DEF Handled, handleRegistreeCSERegistration, WithDescendants, With
<1>4. e.type = "updated" => DOMAIN Handled(c, e) \subseteq DOMAIN list \cup e.dcse
  BY DEF Handled, handleRegistreeCSEUpdate, WithDescendants, WithoutDescendants, Restrict
<1>5. e.type = "deregistered" => DOMAIN Handled(c, e) \subseteq DOMAIN list
  BY DEF Handled, handleRegistreeCSEDeregistration, WithoutDescendants, Restrict, Descendants
<1>6. Handled(c, e) \in Map(Cse)
  BY HandledMap DEF Inv
<1> QED BY <1>1, <1>2, <1>3, <1>4, <1>5, <1>6

LEMMA FirstEvent ==
  ASSUME NEW q \in Seq(Event), NEW i \in 1..Len(q)
  PROVE  /\ SubSeq(q, 1, i - 1) \o SubSeq(q, i + 1, Len(q)) \in Seq(Event)
         /\ \A j \in 1..Len(SubSeq(q, 1, i - 1) \o SubSeq(q, i + 1, Len(q))) : \E k \in 1..Len(q) :
              (SubSeq(q, 1, i - 1) \o SubSeq(q, i + 1, Len(q)))[j] = q[k]
         /\ i = 1 => SubSeq(q, 1, i - 1) \o SubSeq(q, i + 1, Len(q)) = Tail(q)
<1> DEFINE a == SubSeq(q, 1, i - 1)
           b == SubSeq(q, i + 1, Len(q))
<1>1. Len(q) \in Nat /\ i \in Nat /\ i - 1 \in Int /\ i + 1 \in Int /\ Len(q) \in Int /\ 1 \in Int
  BY LenProperties
<1>2. \A j \in 1..Len(q) : q[j] \in Event
  BY ElementOfSeq
<1>3. /\ a \in Seq(Event) /\ Len(a) = i - 1 /\ \A j \in 1..i - 1 : a[j] = q[j]
  <2>1. \A j \in 1..i - 1 : q[j] \in Event
    BY <1>1, <1>2
  <2>2. /\ a \in Seq(Event) /\ Len(a) = (IF 1 <= i - 1 THEN i - 1 - 1 + 1 ELSE 0)
        /\ \A j \in 1..(i - 1) - 1 + 1 : a[j] = q[1 + j - 1]
    BY <1>1, <2>1, SubSeqProperties
  <2>3. \A j \in 1..i - 1 : j \in 1..(i - 1) - 1 + 1 /\ 1 + j - 1 = j
    BY <1>1
  <2> QED BY <1>1, <2>2, <2>3
<1>4. /\ b \in Seq(Event) /\ Len(b) = Len(q) - i /\ \A j \in 1..Len(q) - i : b[j] = q[i + j]
  <2>1. \A j \in i + 1..Len(q) : q[j] \in Event
    BY <1>1, <1>2
  <2>2. /\ b \in Seq(Event) /\ Len(b) = (IF i + 1 <= Len(q) THEN Len(q) - (i + 1) + 1 ELSE 0)
        /\ \A j \in 1..Len(q) - (i + 1) + 1 : b[j] = q[i + 1 + j - 1]
    BY <1>1, <2>1, SubSeqProperties
  <2>3. \A j \in 1..Len(q) - i : j \in 1..Len(q) - (i + 1) + 1 /\ i + 1 + j - 1 = i + j
    BY <1>1
  <2> QED BY <1>1, <2>2, <2>3
<1> HIDE DEF a, b
<1>5. /\ a \o b \in Seq(Event) /\ Len(a \o b) = Len(a) + Len(b)
      /\ \A j \in 1..Len(a) + Len(b) : (a \o b)[j] = IF j <= Len(a) THEN a[j] ELSE b[j - Len(a)]
  BY <1>3, <1>4, ConcatProperties
<1>6. \A j \in 1..Len(a \o b) : \E k \in 1..Len(q) : (a \o b)[j] = q[k]
  <2> SUFFICES ASSUME NEW j \in 1..Len(a \o b) PROVE \E k \in 1..Len(q) : (a \o b)[j] = q[k]
    OBVIOUS
  <2>1. CASE j <= Len(a)
    <3>1. j \in 1..Len(q) /\ (a \o b)[j] = q[j]
      BY <1>1, <1>3, <1>4, <1>5, <2>1
    <3> QED BY <3>1
  <2>2. CASE ~(j <= Len(a))
    <3>1. j - Len(a) \in 1..Len(q) - i /\ j \in 1..Len(a) + Len(b)
      BY <1>1, <1>3, <1>4, <1>5, <2>2
    <3>2. (a \o b)[j] = b[j - Len(a)] /\ i + (j - Len(a)) \in 1..Len(q)
      BY <1>1, <1>3, <1>5, <2>2, <3>1
    <3> QED BY <1>4, <3>1, <3>2
  <2> QED BY <2>1, <2>2
<1>7. ASSUME i = 1 PROVE a \o b = Tail(q)
  <2>1. q # <<>> /\ Tail(q) = SubSeq(q, 2, Len(q))
    BY <1>1, <1>7, TailIsSubSeq
  <2>2. a = <<>>
    BY <1>3, <1>7
  <2>3. b = Tail(q)
    BY <1>7, <2>1 DEF b
  <2> QED BY <1>4, <2>2, <2>3, ConcatEmptySeq
<1> QED BY <1>5, <1>6, <1>7 DEF a, b

LEMMA handleEventKeeps == ASSUME Inv, NEW c \in Cse, handleEvent(c) PROVE Inv'
<1> DEFINE rest(i) == SubSeq(jobs[c], 1, i - 1) \o SubSeq(jobs[c], i + 1, Len(jobs[c]))
<1>1. /\ TypeOK /\ jobs \in [Cse -> Seq(Event)] /\ jobs[c] \in Seq(Event) /\ sending \in [Cse -> SUBSET SUBSET Cse]
      /\ descendantCSR \in [Cse -> Map(Cse)]
      /\ Queue(c, jobs[c]) /\ Sent(c)
  BY DEF Inv, TypeOK
<1>2. PICK i \in DOMAIN jobs[c] :
        /\ c \in overlap \/ i = 1
        /\ jobs' = [jobs EXCEPT ![c] = rest(i)]
        /\ CASE jobs[c][i].type = "registeredToRegistrarCSE" ->
                  /\ registrarCSE' = registrarCSE \cup {c}
                  /\ UNCHANGED <<descendantCSR, sending>>
             [] jobs[c][i].type = "deregisteredFromRegistrarCSE" ->
                  /\ registrarCSE' = registrarCSE \ {c}
                  /\ UNCHANGED <<descendantCSR, sending>>
             [] OTHER -> changeDescendants(c, jobs[c][i]) /\ UNCHANGED registrarCSE
  BY <1>1 DEF handleEvent
<1> DEFINE e == jobs[c][i]
<1>3. i \in 1..Len(jobs[c]) /\ e \in Event /\ Truthful(e, c)
  <2>1. i \in 1..Len(jobs[c])
    BY <1>1, <1>2, LenProperties
  <2> QED BY <1>1, <2>1, ElementOfSeq DEF Queue
<1>4. /\ rest(i) \in Seq(Event)
      /\ \A j \in 1..Len(rest(i)) : \E k \in 1..Len(jobs[c]) : rest(i)[j] = jobs[c][k]
      /\ i = 1 => rest(i) = Tail(jobs[c])
  BY <1>1, <1>3, FirstEvent
<1> HIDE DEF rest
<1>5. Queue(c, rest(i))
  BY <1>1, <1>4 DEF Queue
<1>6. /\ jobs' \in [Cse -> Seq(Event)] /\ jobs'[c] = rest(i) /\ \A d \in Cse \ {c} : jobs'[d] = jobs[d]
  BY <1>1, <1>2, <1>4
<1>7. /\ c \in running /\ registrarCSE' \subseteq Cse
      /\ UNCHANGED <<csr, running, monitor, incidents, disturbed, checkLiveliness, overlap>>
  <2>1. registrarCSE \subseteq Cse
    BY <1>1 DEF TypeOK
  <2>2. registrarCSE' \in {registrarCSE, registrarCSE \cup {c}, registrarCSE \ {c}}
    BY <1>2
  <2> QED BY <2>1, <2>2 DEF handleEvent
<1>8. /\ descendantCSR' \in [Cse -> Map(Cse)]
      /\ \A d \in Cse \ {c} : descendantCSR'[d] = descendantCSR[d]
      /\ DOMAIN descendantCSR'[c] \subseteq Down(c)
      /\ \/ descendantCSR'[c] = Handled(c, e) /\ e.type \in {"registered", "deregistered", "updated"}
         \/ descendantCSR'[c] = descendantCSR[c] /\ e.type \notin {"registered", "deregistered", "updated"}
      /\ sending' \in [Cse -> SUBSET SUBSET Cse]
      /\ \A d \in Cse \ {c} : sending'[d] = sending[d]
      /\ sending'[c] \subseteq SUBSET Down(c)
  <2>1. CASE e.type \in {"registered", "deregistered", "updated"}
    <3>1. changeDescendants(c, e)
      BY <1>2, <2>1
    <3>2. Handled(c, e) \in Map(Cse) /\ DOMAIN Handled(c, e) \subseteq Down(c)
      BY <1>3, <2>1, HandledBelow
    <3>3. descendantCSR' = [descendantCSR EXCEPT ![c] = Handled(c, e)]
      BY <3>1, Zenon DEF changeDescendants, Handled
    <3>4. sending' = [sending EXCEPT ![c] = @ \cup {DOMAIN Handled(c, e)}] \/ sending' = sending
      BY <3>1, Zenon DEF changeDescendants, Handled
    <3>5. DOMAIN Handled(c, e) \in SUBSET Cse /\ DOMAIN Handled(c, e) \in SUBSET Down(c)
      BY <3>2, BelowDown
    <3>6. sending[c] \subseteq SUBSET Down(c)
      BY <1>1 DEF Sent
    <3>7. /\ sending' \in [Cse -> SUBSET SUBSET Cse]
          /\ \A d \in Cse \ {c} : sending'[d] = sending[d]
          /\ sending'[c] \subseteq SUBSET Down(c)
      <4>1. CASE sending' = sending
        BY <1>1, <3>6, <4>1
      <4>2. CASE sending' = [sending EXCEPT ![c] = @ \cup {DOMAIN Handled(c, e)}]
        <5> DEFINE new == sending[c] \cup {DOMAIN Handled(c, e)}
        <5>1. new \in SUBSET SUBSET Cse /\ new \subseteq SUBSET Down(c)
          BY <1>1, <3>5, <3>6
        <5>2. sending' = [sending EXCEPT ![c] = new]
          BY <4>2
        <5> HIDE DEF new
        <5> QED BY <1>1, <5>1, <5>2
      <4> QED BY <3>4, <4>1, <4>2
    <3>8. /\ descendantCSR' \in [Cse -> Map(Cse)] /\ descendantCSR'[c] = Handled(c, e)
          /\ \A d \in Cse \ {c} : descendantCSR'[d] = descendantCSR[d]
      BY <1>1, <3>2, <3>3
    <3> QED BY <2>1, <3>2, <3>7, <3>8
  <2>2. CASE e.type \notin {"registered", "deregistered", "updated"}
    <3>1. UNCHANGED <<descendantCSR, sending>>
      BY <1>2, <1>3, <2>2 DEF Event
    <3> QED BY <1>1, <2>2, <3>1 DEF Inv, Listed, Descendants, Sent
  <2> QED BY <2>1, <2>2
<1>9. TypeOK'
  BY <1>1, <1>6, <1>7, <1>8 DEF TypeOK
<1>10. ASSUME NEW d \in Cse PROVE Right(d, csr[d])' /\ Queue(d, jobs[d])' /\ Listed(d)' /\ Sent(d)'
  <2>1. Right(d, csr[d]) /\ Queue(d, jobs[d]) /\ Listed(d) /\ Sent(d)
    BY DEF Inv
  <2>2. Queue(d, jobs'[d])
    BY <1>5, <1>6, <2>1
  <2>3. Listed(d)'
    BY <1>8, <2>1 DEF Listed, Descendants
  <2>4. Sent(d)'
    BY <1>8, <2>1 DEF Sent
  <2> QED BY <1>7, <2>1, <2>2, <2>3, <2>4 DEF Right, Queue
<1>11. ASSUME NEW d \in Cse PROVE Works(d, monitor[d])' /\ Over(d)'
  <2>1. Works(d, monitor[d]) /\ Over(d)
    BY DEF Inv
  <2> QED BY <1>6, <1>7, <1>8, <2>1 DEF Works, Over, HasRegistrar
<1>12. ASSUME ~disturbed', NEW d \in Cse \ overlap' PROVE Checks(d, monitor[d], csr[d])' /\ Knows(d)'
  <2>1. Checks(d, monitor[d], csr[d]) /\ Knows(d) /\ d \notin overlap
    BY <1>7, <1>12 DEF Inv
  <2>2. Registrees(d)' = Registrees(d)
    BY <1>7 DEF Registrees, RegistreesOf
  <2>3. CASE d # c
    BY <1>6, <1>7, <1>8, <2>1, <2>2, <2>3 DEF Checks, Knows
  <2>4. CASE d = c
    <3>1. i = 1 /\ jobs'[c] = Tail(jobs[c]) /\ jobs[c] # <<>>
      BY <1>1, <1>2, <1>3, <1>4, <1>6, <2>1, <2>4
    <3>2. PICK r \in RegistreeMap(c) : Agree(descendantCSR[c], c, r) /\ Explained(c, jobs[c], r, Registrees(c))
      BY <1>7, <2>1, <2>4 DEF Knows
    <3>3. PICK s \in RegistreeMap(c) : Tells(jobs[c][1], r, s) /\ Explained(c, Tail(jobs[c]), s, Registrees(c))
      BY <1>1, <3>1, <3>2, ExplainedTail
    <3>4. Tells(e, r, s)
      BY <3>1, <3>3
    <3>5. Agree(descendantCSR'[c], c, s)
      <4>1. CASE e.type \in {"registered", "deregistered", "updated"}
        BY <1>1, <1>3, <1>8, <3>2, <3>4, <4>1, HandledAgrees
      <4>2. CASE e.type \notin {"registered", "deregistered", "updated"}
        BY <1>8, <3>2, <3>4, <4>2 DEF Tells
      <4> QED BY <4>1, <4>2
    <3>6. Knows(c)'
      BY <2>2, <2>4, <3>1, <3>3, <3>5 DEF Knows
    <3> QED BY <1>7, <2>1, <2>4, <3>6 DEF Checks
  <2> QED BY <2>3, <2>4
<1> QED BY <1>9, <1>10, <1>11, <1>12 DEF Inv

\* What is left when a process has ended.
LEMMA EndedKeeps ==
  ASSUME Inv, NEW c \in Cse, Ended(c), Counted, UNCHANGED <<checkLiveliness, overlap>>,
         csr' \in [Cse -> Map(SUBSET Cse)], Right(c, csr'[c]), \A d \in Cse \ {c} : csr'[d] = csr[d]
  PROVE  Inv'
<1>1. TypeOK
  BY DEF Inv
<1>2. /\ descendantCSR' \in [Cse -> Map(Cse)] /\ descendantCSR'[c] = <<>>
      /\ \A d \in Cse \ {c} : descendantCSR'[d] = descendantCSR[d]
  <2>1. <<>> \in Map(Cse)
    BY EmptyMap
  <2> QED BY <1>1, <2>1 DEF TypeOK, Ended
<1>3. /\ jobs' \in [Cse -> Seq(Event)] /\ jobs'[c] = <<>>
      /\ \A d \in Cse \ {c} : jobs'[d] = jobs[d]
  BY <1>1 DEF TypeOK, Ended
<1>4. /\ sending' \in [Cse -> SUBSET SUBSET Cse] /\ sending'[c] = {}
      /\ \A d \in Cse \ {c} : sending'[d] = sending[d]
  BY <1>1 DEF TypeOK, Ended
<1>5. /\ monitor' \in [Cse -> Monitor] /\ monitor'[c] = Idle
      /\ \A d \in Cse \ {c} : monitor'[d] = monitor[d]
  <2>1. Idle \in Monitor
    BY DEF Idle, Monitor
  <2> QED BY <1>1, <2>1 DEF TypeOK, Ended
<1>6. running' = running \ {c} /\ registrarCSE' \subseteq Cse
  BY <1>1 DEF TypeOK, Ended
<1>7. TypeOK'
  BY <1>1, <1>2, <1>3, <1>4, <1>5, <1>6 DEF TypeOK, Counted
<1>8. ASSUME NEW d \in Cse PROVE Right(d, csr[d])' /\ Queue(d, jobs[d])' /\ Listed(d)' /\ Sent(d)'
  <2>1. Right(d, csr[d]) /\ Queue(d, jobs[d]) /\ Listed(d) /\ Sent(d)
    BY DEF Inv
  <2>2. Right(d, csr'[d])
    BY <2>1
  <2>3. Queue(d, jobs'[d])
    <3>1. Queue(c, <<>>)
      BY DEF Queue
    <3> QED BY <1>3, <2>1, <3>1
  <2>4. Listed(d)'
    BY <1>2, <2>1, EmptyMap DEF Listed, Descendants
  <2>5. Sent(d)'
    BY <1>4, <2>1 DEF Sent
  <2> QED BY <2>2, <2>3, <2>4, <2>5 DEF Right, Queue
<1>9. ASSUME NEW d \in Cse PROVE Works(d, monitor[d])' /\ Over(d)'
  <2>1. Works(d, monitor[d]) /\ Over(d)
    BY DEF Inv
  <2>2. Works(d, monitor'[d])
    BY <1>5, <2>1, Steps
  <2> QED BY <1>2, <1>3, <1>4, <1>5, <1>6, <2>1, <2>2 DEF Works, Over, HasRegistrar
<1>10. ASSUME ~disturbed', NEW d \in Cse \ overlap' PROVE Checks(d, monitor[d], csr[d])' /\ Knows(d)'
  <2>1. Checks(d, monitor[d], csr[d]) /\ Knows(d)
    BY <1>10 DEF Inv, Counted
  <2>2. CASE d = c
    BY <1>5, <1>6, <2>2 DEF Checks, Knows, Idle
  <2>3. CASE d # c
    <3>1. csr'[d] = csr[d]
      BY <2>3
    <3> QED BY <1>2, <1>3, <1>5, <1>6, <2>1, <2>3, <3>1 DEF Checks, Knows, Registrees, RegistreesOf
  <2> QED BY <2>2, <2>3
<1> QED BY <1>7, <1>8, <1>9, <1>10 DEF Inv

LEMMA stoppedKeeps == ASSUME Inv, NEW c \in Cse, stopped(c) PROVE Inv'
<1> DEFINE f == Restrict(csr[c], DOMAIN csr[c] \ {Registrar[c]})
<1>1. Right(c, csr[c]) /\ csr \in [Cse -> Map(SUBSET Cse)]
  BY DEF Inv, TypeOK
<1>2. Right(c, f) /\ f \in Map(SUBSET Cse)
  <2>1. f \in Map(SUBSET Cse)
    BY <1>1, CsrRestrict DEF Right
  <2>2. DOMAIN f \subseteq DOMAIN csr[c] /\ \A x \in DOMAIN f : f[x] = csr[c][x]
    BY DEF Restrict
  <2> HIDE DEF f
  <2> QED BY <1>1, <2>1, <2>2 DEF Right
<1>3. csr' = [csr EXCEPT ![c] = f]
  BY <1>1 DEF stopped
<1>4. csr' \in [Cse -> Map(SUBSET Cse)] /\ csr'[c] = f /\ \A d \in Cse \ {c} : csr'[d] = csr[d]
  BY <1>1, <1>2, <1>3
<1>5. Ended(c) /\ Counted /\ UNCHANGED <<checkLiveliness, overlap>>
  BY NotCounted DEF stopped
<1> HIDE DEF Inv, f
<1> QED BY <1>2, <1>4, <1>5, EndedKeeps

LEMMA crashKeeps == ASSUME Inv, NEW c \in Cse, crash(c) PROVE Inv'
<1>1. Right(c, csr'[c]) /\ csr' \in [Cse -> Map(SUBSET Cse)] /\ \A d \in Cse \ {c} : csr'[d] = csr[d]
  BY DEF Inv, TypeOK, crash
<1>2. Counted
  <2>1. incidents \in 0..MaxIncident /\ MaxIncident \in Nat
    BY RegistrarAssumption DEF Inv, TypeOK
  <2> QED BY <2>1 DEF crash, Counted
<1>3. Ended(c) /\ UNCHANGED <<checkLiveliness, overlap>>
  BY DEF crash
<1> HIDE DEF Inv
<1> QED BY <1>1, <1>2, <1>3, EndedKeeps

\* The list that a CSE starts with agrees with the stored <csr>s.
LEMMA startKeeps == ASSUME Inv, NEW c \in Cse, start(c) PROVE Inv'
<1> DEFINE x == DOMAIN csr[c] \ {Registrar[c]}
           D == x \cup UNION {csr[c][y] : y \in x}
           list == [d \in D |-> IF \E y \in x : d \in csr[c][y] THEN CHOOSE y \in x : d \in csr[c][y] ELSE c]
<1>1. TypeOK
  BY DEF Inv
<1>2. /\ c \notin running /\ running' = running \cup {c}
      /\ descendantCSR' = [descendantCSR EXCEPT ![c] = list]
      /\ UNCHANGED <<csr, registrarCSE, jobs, sending, monitor, incidents, disturbed, checkLiveliness, overlap>>
  BY DEF start
<1>3. Right(c, csr[c]) /\ jobs[c] = <<>> /\ jobs[c] \in Seq(Event)
  BY <1>1, <1>2 DEF Inv, Over, TypeOK
<1>4. Registrees(c) \in RegistreeMap(c)
  BY <1>3, RegistreesFacts DEF Registrees
<1>5. DOMAIN Registrees(c) = x /\ \A y \in x : Registrees(c)[y] = csr[c][y]
  BY DEF Registrees, RegistreesOf, Restrict
<1>6. /\ x \subseteq Below(c) /\ Below(c) \subseteq Cse
      /\ \A y \in x : csr[c][y] \subseteq Down(y) /\ csr[c][y] \subseteq Cse /\ c \notin csr[c][y] /\ y # c
      /\ \A y, z \in x : z \notin csr[c][y] /\ (y # z => csr[c][y] \cap csr[c][z] = {})
  BY <1>4, <1>5, RegistreeMapFacts
<1>7. D \subseteq Down(c) /\ D \subseteq Cse
  <2>1. \A y \in x : y \in Down(c) /\ csr[c][y] \subseteq Down(c)
    BY <1>6, DownBelow
  <2> QED BY <2>1, BelowDown
<1>8. list \in Map(Cse) /\ DOMAIN list = D
  <2>1. \A d \in D : list[d] \in Cse
    BY <1>6
  <2>2. list \in [D -> Cse]
    BY <2>1
  <2> HIDE DEF list
  <2> QED BY <1>7, <2>2, MapDef
<1>9. Agree(list, c, Registrees(c))
  <2>1. \A y \in x : list[y] = c
    BY <1>6
  <2>2. \A y \in x : \A d \in csr[c][y] : d \in D /\ list[d] = y
    <3> SUFFICES ASSUME NEW y \in x, NEW d \in csr[c][y] PROVE d \in D /\ list[d] = y
      OBVIOUS
    <3>1. \A z \in x : d \in csr[c][z] => z = y
      BY <1>6
    <3>2. (CHOOSE z \in x : d \in csr[c][z]) = y
      BY <3>1
    <3> QED BY <3>2
  <2>3. \A d \in D : \/ list[d] = c /\ d \in x
                     \/ list[d] \in x /\ d \in csr[c][list[d]]
    <3> SUFFICES ASSUME NEW d \in D PROVE (list[d] = c /\ d \in x) \/ (list[d] \in x /\ d \in csr[c][list[d]])
      OBVIOUS
    <3>1. CASE \E y \in x : d \in csr[c][y]
      BY <2>2, <3>1
    <3>2. CASE ~\E y \in x : d \in csr[c][y]
      BY <3>2
    <3> QED BY <3>1, <3>2
  <2> HIDE DEF list, x, D
  <2>4. DOMAIN list = D
    BY <1>8
  <2>5. x \subseteq D
    BY DEF D
  <2> QED BY <1>5, <2>1, <2>2, <2>3, <2>4, <2>5 DEF Agree
<1> HIDE DEF list
<1>10. /\ descendantCSR' \in [Cse -> Map(Cse)] /\ descendantCSR'[c] = list
       /\ \A d \in Cse \ {c} : descendantCSR'[d] = descendantCSR[d]
  BY <1>1, <1>2, <1>8 DEF TypeOK
<1>11. TypeOK'
  BY <1>1, <1>2, <1>10 DEF TypeOK
<1>12. ASSUME NEW d \in Cse PROVE Right(d, csr[d])' /\ Queue(d, jobs[d])' /\ Listed(d)' /\ Sent(d)'
  <2>1. Right(d, csr[d]) /\ Queue(d, jobs[d]) /\ Listed(d) /\ Sent(d)
    BY DEF Inv
  <2>2. Listed(d)'
    BY <1>7, <1>8, <1>10, <2>1 DEF Listed, Descendants
  <2> QED BY <1>2, <2>1, <2>2 DEF Right, Queue, Sent
<1>13. ASSUME NEW d \in Cse PROVE Works(d, monitor[d])' /\ Over(d)'
  <2>1. Works(d, monitor[d]) /\ Over(d)
    BY DEF Inv
  <2> QED BY <1>2, <1>10, <2>1 DEF Works, Over, HasRegistrar
<1>14. ASSUME ~disturbed', NEW d \in Cse \ overlap' PROVE Checks(d, monitor[d], csr[d])' /\ Knows(d)'
  <2>1. Checks(d, monitor[d], csr[d]) /\ Knows(d)
    BY <1>2, <1>14 DEF Inv
  <2>2. Registrees(d)' = Registrees(d) /\ jobs'[d] = jobs[d]
    BY <1>2 DEF Registrees, RegistreesOf
  <2>3. CASE d = c
    <3>1. Explained(c, jobs[c], Registrees(c), Registrees(c))
      BY <1>3, <1>4, NothingExplained
    <3> QED BY <1>2, <1>4, <1>9, <1>10, <2>1, <2>2, <2>3, <3>1 DEF Checks, Knows
  <2>4. CASE d # c
    BY <1>2, <1>10, <2>1, <2>2, <2>4 DEF Checks, Knows
  <2> QED BY <2>3, <2>4
<1> QED BY <1>11, <1>12, <1>13, <1>14 DEF Inv

(***************************************************************************)
(* The theorems.                                                           *)
(***************************************************************************)
LEMMA InitInv == Init => Inv
<1> SUFFICES ASSUME Init PROVE Inv
  OBVIOUS
<1>1. <<>> \in Map(Cse) /\ <<>> \in Map(SUBSET Cse) /\ DOMAIN <<>> = {}
  BY EmptyMap
<1>2. Idle \in Monitor
  BY DEF Idle, Monitor
<1>3. overlap \subseteq Cse /\ running \subseteq Cse
  BY RegistrarAssumption DEF Init, Present
<1>4. /\ csr = [c \in Cse |-> <<>>] /\ descendantCSR = [c \in Cse |-> <<>>] /\ jobs = [c \in Cse |-> <<>>]
      /\ sending = [c \in Cse |-> {}] /\ monitor = [c \in Cse |-> Idle] /\ registrarCSE = {}
      /\ incidents = 0 /\ disturbed = FALSE /\ checkLiveliness \in BOOLEAN
  BY RegistrarAssumption DEF Init
<1>5. TypeOK
  <2>1. csr \in [Cse -> Map(SUBSET Cse)] /\ descendantCSR \in [Cse -> Map(Cse)]
    BY <1>1, <1>4
  <2>2. jobs \in [Cse -> Seq(Event)] /\ sending \in [Cse -> SUBSET SUBSET Cse]
    BY <1>4
  <2>3. monitor \in [Cse -> Monitor]
    BY <1>2, <1>4
  <2>4. incidents \in 0..MaxIncident /\ registrarCSE \subseteq Cse /\ disturbed \in BOOLEAN
    <3>1. MaxIncident \in Nat
      BY RegistrarAssumption
    <3>2. incidents \in 0..MaxIncident
      BY <1>4, <3>1
    <3>3. disturbed \in BOOLEAN
      BY <1>4, Zenon
    <3> QED BY <1>4, <3>2, <3>3
  <2> QED BY <1>3, <1>4, <2>1, <2>2, <2>3, <2>4 DEF TypeOK
<1>6. ASSUME NEW c \in Cse
      PROVE  Right(c, csr[c]) /\ Queue(c, jobs[c]) /\ Listed(c) /\ Sent(c) /\ Works(c, monitor[c]) /\ Over(c)
  <2>1. csr[c] = <<>> /\ descendantCSR[c] = <<>> /\ jobs[c] = <<>> /\ sending[c] = {} /\ monitor[c] = Idle
    BY <1>4
  <2>2. Right(c, csr[c]) /\ Listed(c)
    BY <1>1, <2>1 DEF Right, Listed, Descendants
  <2>3. Queue(c, <<>>)
    BY DEF Queue
  <2>4. Works(c, Idle)
    BY <1>2 DEF Works, WithoutRegistrar, Idle
  <2> QED BY <2>1, <2>2, <2>3, <2>4 DEF Sent, Over
<1>7. ASSUME NEW c \in Cse PROVE Checks(c, monitor[c], csr[c]) /\ Knows(c)
  <2>1. csr[c] = <<>> /\ descendantCSR[c] = <<>> /\ jobs[c] = <<>> /\ monitor[c] = Idle
    BY <1>4
  <2>2. Registrees(c) \in RegistreeMap(c)
    BY <1>6, RegistreesFacts DEF Registrees
  <2>3. DOMAIN Registrees(c) = {}
    BY <1>1, <2>1 DEF Registrees, RegistreesOf, Restrict
  <2>4. Agree(descendantCSR[c], c, Registrees(c))
    BY <1>1, <2>1, <2>3 DEF Agree
  <2>5. Explained(c, jobs[c], Registrees(c), Registrees(c))
    <3>1. jobs[c] \in Seq(Event)
      BY <1>5 DEF TypeOK
    <3> QED BY <2>1, <2>2, <3>1, NothingExplained
  <2> QED BY <2>1, <2>2, <2>4, <2>5 DEF Checks, Knows, Idle
<1> QED BY <1>5, <1>6, <1>7 DEF Inv

LEMMA NextInv == Inv /\ [Next]_vars => Inv'
<1> SUFFICES ASSUME Inv, [Next]_vars PROVE Inv'
  OBVIOUS
<1>1. ASSUME NEW c \in Present, MonitorStep(c) PROVE Inv'
  <2>1. c \in Cse
    BY DEF Present, Inv, TypeOK
  <2> HIDE DEF Inv
  <2> QED BY <1>1, <2>1, connectionMonitorWorkerKeeps, checkOwnCSRKeeps, checkRegistrarCSEKeeps, checkOwnCSEKeeps,
             updateOwnCSRKeeps, disconnectKeeps, recreateCSRKeeps, disconnectedKeeps, deleteOwnCSRKeeps,
             createOwnCSRKeeps, retrieveRegistrarCSEKeeps, createLocalCSRKeeps, checkRegistreeLivelinessKeeps,
             deleteRegistreeCSRKeeps, stopDeleteOwnCSRKeeps, stoppedKeeps DEF MonitorStep
<1>2. ASSUME NEW c \in Present,
             handleEvent(c) \/ updateCSRonRegistrarCSE(c) \/ start(c) \/ stop(c) \/ crash(c)
      PROVE  Inv'
  <2>1. c \in Cse
    BY DEF Present, Inv, TypeOK
  <2> HIDE DEF Inv
  <2> QED BY <1>2, <2>1, handleEventKeeps, updateCSRonRegistrarCSEKeeps, startKeeps, stopKeeps, crashKeeps
<1>3. CASE UNCHANGED vars
  BY <1>3 DEF vars, Inv, TypeOK, Right, Queue, Listed, Descendants, Sent, Works, HasRegistrar, Over, Checks, Knows,
              Registrees, RegistreesOf
<1> QED BY <1>1, <1>2, <1>3 DEF Next

\* The invariant says of a CSE that is at rest what the run's property says.
LEMMA InvMatch == Inv => DescendantsMatch
<1> SUFFICES ASSUME Inv, ~disturbed, NEW c \in Cse \ overlap
             PROVE  /\ AtRest(c) =>
                         LET registrees == DOMAIN csr[c] \ {Registrar[c]} IN
                         /\ {d \in Descendants(c) : descendantCSR[c][d] = c} = registrees
                         /\ \A d \in registrees : {x \in Descendants(c) : descendantCSR[c][x] = d} = csr[c][d]
                    /\ \A d \in Descendants(c) :
                         LET at == descendantCSR[c][d] IN
                         at = c \/ (at \in Descendants(c) /\ descendantCSR[c][at] = c)
  BY DEF DescendantsMatch
<1> DEFINE x == DOMAIN csr[c] \ {Registrar[c]}
<1>1. Knows(c) /\ Over(c) /\ jobs[c] \in Seq(Event)
  BY DEF Inv, TypeOK
<1>2. CASE c \notin running
  <2>1. Descendants(c) = {}
    BY <1>1, <1>2, EmptyMap DEF Over, Descendants
  <2> QED BY <1>2, <2>1 DEF AtRest
<1>3. CASE c \in running
  <2>1. PICK r \in RegistreeMap(c) : Agree(descendantCSR[c], c, r) /\ Explained(c, jobs[c], r, Registrees(c))
    BY <1>1, <1>3 DEF Knows
  <2>2. \A d \in Descendants(c) :
           descendantCSR[c][d] = c \/ (descendantCSR[c][d] \in Descendants(c)
                                         /\ descendantCSR[c][descendantCSR[c][d]] = c)
    BY <2>1 DEF Agree, Descendants
  <2>3. ASSUME AtRest(c)
        PROVE  /\ {d \in Descendants(c) : descendantCSR[c][d] = c} = x
               /\ \A d \in x : {y \in Descendants(c) : descendantCSR[c][y] = d} = csr[c][d]
    <3>1. jobs[c] = <<>>
      BY <2>3 DEF AtRest
    <3>2. r = Registrees(c)
      BY <1>1, <2>1, <3>1, NothingExplained
    <3>3. DOMAIN r = x /\ \A y \in x : r[y] = csr[c][y]
      BY <3>2 DEF Registrees, RegistreesOf, Restrict
    <3>4. \A y \in x : y # c
      BY <3>3, RegistreeMapFacts
    <3> HIDE DEF x
    <3>5. {d \in Descendants(c) : descendantCSR[c][d] = c} = x
      BY <2>1, <3>3, <3>4 DEF Agree, Descendants
    <3>6. \A d \in x : {y \in Descendants(c) : descendantCSR[c][y] = d} = csr[c][d]
      BY <2>1, <3>3, <3>4 DEF Agree, Descendants
    <3> QED BY <3>5, <3>6
  <2> QED BY <2>2, <2>3
<1> QED BY <1>2, <1>3

\* Every CSE has, at any time, a list of descendants, events, lists to send and a monitor as the code
\* can build them, for every forest of CSEs.
THEOREM TypeCorrect == Spec => []TypeOK
<1>1. Inv => TypeOK
  BY DEF Inv
<1> QED BY <1>1, InitInv, NextInv, PTL DEF Spec

\* The list of descendants of a CSE at rest says what its stored <csr>s say, for every forest of CSEs and
\* however many requests, jobs, restarts and shutdowns lie between.
THEOREM DescendantsMatching == Spec => []DescendantsMatch
BY InitInv, NextInv, InvMatch, PTL DEF Spec
=============================================================================
