--------------------------- MODULE PhpRadiusProofs ---------------------------
(* Who owns a rad_handle, its secrets and its socket, for any number of      *)
(* variables, resources and servers, any configuration files, and for both   *)
(* versions of PHP.                                                          *)
EXTENDS PhpRadius, RadConfigProofs, FiniteSetTheorems

-----------------------------------------------------------------------------
(* Resources and handles.                                                    *)

USE ScriptAssumption DEF ScriptAssumption

Types == {"none", "rad_handle", "stream", "closed", "gone"}
Resource == [refs : Int, type : Types, ptr : 0..MaxOpens]
Shaped(h) ==
  h = [status |-> h.status, type |-> h.type, servers |-> h.servers, fd |-> h.fd]

(* The number of a resource is that of its handle.  A handle is live as long *)
(* as its resource has its type, and is given to rad_close when it ceases.   *)
Owned(r) ==
  /\ resources[r].type = "rad_handle" <=> Live(r)
  /\ resources[r].type = "rad_handle" => resources[r].ptr = r
  /\ r > opened => resources[r].type = "none" /\ handles[r].status = "none"
  /\ ended => resources[r].type = "none"
  /\ releases[r] = IF handles[r].status = "freed" THEN 1 ELSE 0

OwnInv ==
  /\ opened \in 0..MaxOpens
  /\ resources \in [Ids -> Resource]
  /\ handles = [h \in Ids |-> handles[h]]
  /\ \A h \in Ids : Shaped(handles[h])
  /\ releases \in [Ids -> Nat]
  /\ \A r \in Ids : Owned(r)

(* A variable that is set holds a resource that was opened.                  *)
VarInv ==
  /\ zvalOf \in [Vars -> Zvals \cup {0}]
  /\ holds \in [Zvals -> 0..MaxOpens]
  /\ \A v \in Vars : IsSet(v) => ResourceOf(v) \in 1..opened
  /\ ended => \A v \in Vars : ~IsSet(v)

(* With PHP 7 a closed resource has lost its type for good.                  *)
ClosedInv ==
  /\ closed \subseteq 1..opened
  /\ ended => closed = {}
  /\ php7 => \A r \in closed : resources[r].type # "rad_handle"

Inv == OwnInv /\ VarInv /\ ClosedInv

-----------------------------------------------------------------------------
(* Records of handles and resources.                                         *)

(* The number for "not set" is no zval.                                      *)
LEMMA ZeroIsNoZval == 0 \notin Zvals
  BY DEF Zvals

(* What was opened has a number.                                             *)
LEMMA OpenedAreIds ==
  ASSUME OwnInv PROVE 1..opened \subseteq Ids
  BY DEF OwnInv, Ids

(* Freeing a handle changes nothing but its status.                          *)
LEMMA FreedShape ==
  ASSUME NEW h, Shaped(h)
  PROVE  LET new == [h EXCEPT !.status = "freed"]
         IN  /\ Shaped(new)
             /\ new.status = "freed" /\ new.type = h.type
             /\ new.servers = h.servers /\ new.fd = h.fd
<1>1. h = [status |-> h.status, type |-> h.type, servers |-> h.servers, fd |-> h.fd]
  BY DEF Shaped
<1> QED BY <1>1 DEF Shaped

(* Neither do new servers and a socket change anything else.                 *)
LEMMA ServersShape ==
  ASSUME NEW h, Shaped(h), NEW servers
  PROVE  LET new == [h EXCEPT !.servers = servers]
         IN  /\ Shaped(new)
             /\ new.status = h.status /\ new.type = h.type
             /\ new.servers = servers /\ new.fd = h.fd
<1>1. h = [status |-> h.status, type |-> h.type, servers |-> h.servers, fd |-> h.fd]
  BY DEF Shaped
<1> QED BY <1>1 DEF Shaped
(* Opening the socket of a handle changes nothing else of it.                *)
LEMMA SocketShape ==
  ASSUME NEW h, Shaped(h), NEW fd
  PROVE  LET new == [h EXCEPT !.fd = fd]
         IN  /\ Shaped(new)
             /\ new.status = h.status /\ new.type = h.type
             /\ new.servers = h.servers /\ new.fd = fd
<1>1. h = [status |-> h.status, type |-> h.type, servers |-> h.servers, fd |-> h.fd]
  BY DEF Shaped
<1> QED BY <1>1 DEF Shaped

(* rad_close frees these handles and no others.                              *)
LEMMA RadCloseFrees ==
  ASSUME OwnInv, NEW hs \in SUBSET Ids, RadClose(hs), \A h \in hs : Live(h)
  PROVE  /\ handles' = [h \in Ids |-> handles'[h]]
         /\ \A h \in Ids : Shaped(handles'[h])
         /\ releases' \in [Ids -> Nat]
         /\ \A h \in Ids : /\ handles'[h].status =
                                IF h \in hs THEN "freed" ELSE handles[h].status
                           /\ releases'[h] = releases[h] + (IF h \in hs THEN 1 ELSE 0)
<1>1. \A h \in Ids : handles'[h] = IF h \in hs THEN [handles[h] EXCEPT !.status = "freed"]
                                   ELSE handles[h]
  BY DEF RadClose
<1>2. handles' = [h \in Ids |-> handles'[h]]
  BY DEF RadClose
<1>3. \A h \in Ids : Shaped(handles[h])
  BY DEF OwnInv
<1>4. \A h \in Ids : /\ Shaped(handles'[h])
                     /\ handles'[h].status =
                          IF h \in hs THEN "freed" ELSE handles[h].status
  <2> TAKE h \in Ids
  <2>1. CASE h \in hs
    BY ZenonT(30), <1>1, <1>3, <2>1, FreedShape
  <2>2. CASE h \notin hs
    BY <1>1, <1>3, <2>2
  <2> QED BY <2>1, <2>2
<1>5. /\ releases' \in [Ids -> Nat]
      /\ \A h \in Ids : releases'[h] = releases[h] + (IF h \in hs THEN 1 ELSE 0)
  BY DEF RadClose, OwnInv
<1> QED BY <1>2, <1>4, <1>5

-----------------------------------------------------------------------------
(* What happens to a single resource.                                        *)

(* The destructor of a resource frees the handle it owns.                    *)
LEMMA DestructorFrees ==
  ASSUME OwnInv, NEW r \in Ids, Destructor(r)
  PROVE  /\ handles' = [h \in Ids |-> handles'[h]]
         /\ \A h \in Ids : Shaped(handles'[h])
         /\ releases' \in [Ids -> Nat]
         /\ \A h \in Ids \ {r} : /\ handles'[h].status = handles[h].status
                                 /\ releases'[h] = releases[h]
         /\ handles'[r].status = IF Live(r) THEN "freed" ELSE handles[r].status
         /\ releases'[r] = releases[r] + (IF Live(r) THEN 1 ELSE 0)
<1>1. Owned(r)
  BY DEF OwnInv
<1>2. CASE resources[r].type = "rad_handle"
  <2>1. resources[r].ptr = r /\ Live(r)
    BY <1>1, <1>2 DEF Owned
  <2>2. RadClose({r})
    BY <1>2, <2>1 DEF Destructor
  <2>3. {r} \in SUBSET Ids /\ \A h \in {r} : Live(h)
    BY <2>1
  <2>4. /\ handles' = [h \in Ids |-> handles'[h]]
        /\ \A h \in Ids : Shaped(handles'[h])
        /\ releases' \in [Ids -> Nat]
        /\ \A h \in Ids : /\ handles'[h].status =
                               IF h \in {r} THEN "freed" ELSE handles[h].status
                          /\ releases'[h] = releases[h] + (IF h \in {r} THEN 1 ELSE 0)
    BY <2>2, <2>3, RadCloseFrees
  <2>5. \A h \in Ids : releases[h] \in Nat
    BY DEF OwnInv
  <2> QED BY <2>1, <2>4, <2>5
<1>3. CASE resources[r].type # "rad_handle"
  <2>1. UNCHANGED handleVars /\ ~Live(r)
    BY <1>1, <1>3 DEF Destructor, Owned
  <2>2. releases[r] \in Nat
    BY DEF OwnInv
  <2> QED BY <2>1, <2>2 DEF handleVars, OwnInv
<1> QED BY <1>2, <1>3

(* A resource that loses its type together with its handle.                  *)
LEMMA LosesType ==
  ASSUME OwnInv, NEW r \in 1..opened, Destructor(r), ~ended,
         UNCHANGED <<opened, ended>>,
         resources' \in [Ids -> Resource],
         \A s \in Ids \ {r} : resources'[s] = resources[s],
         resources'[r].type \in {"closed", "gone"}
  PROVE  OwnInv'
<1>1. r \in Ids /\ r <= opened
  BY OpenedAreIds DEF OwnInv
<1>2. \A s \in Ids : Owned(s)
  BY DEF OwnInv
<1>3. ASSUME NEW s \in Ids PROVE Owned(s)'
  <2>1. CASE s = r
    <3>1. releases[r] = (IF handles[r].status = "freed" THEN 1 ELSE 0)
      BY <1>1, <1>2 DEF Owned
    <3>2. /\ handles'[r].status = (IF Live(r) THEN "freed" ELSE handles[r].status)
          /\ releases'[r] = releases[r] + (IF Live(r) THEN 1 ELSE 0)
      BY <1>1, DestructorFrees
    <3>3. ~Live(r)' /\ resources'[r].type # "rad_handle"
      BY <3>2 DEF Live
    <3>4. ~(r > opened') /\ ~ended'
      BY <1>1 DEF OwnInv
    <3>5. releases'[r] = (IF handles'[r].status = "freed" THEN 1 ELSE 0)
      BY <3>1, <3>2 DEF Live
    <3> QED BY <2>1, <3>3, <3>4, <3>5 DEF Owned
  <2>2. CASE s # r
    <3>1. /\ resources'[s] = resources[s]
          /\ handles'[s].status = handles[s].status
          /\ releases'[s] = releases[s]
      BY <1>1, <2>2, DestructorFrees
    <3> QED BY <1>2, <3>1 DEF Owned, Live
  <2> QED BY <2>1, <2>2
<1>4. /\ handles' = [h \in Ids |-> handles'[h]]
      /\ \A h \in Ids : Shaped(handles'[h])
      /\ releases' \in [Ids -> Nat]
  BY <1>1, DestructorFrees
<1>5. \A h \in Ids : Shaped(handles[h])'
  BY <1>4 DEF Shaped
<1> QED BY <1>3, <1>4, <1>5 DEF OwnInv

(* Giving up a reference.                                                    *)
LEMMA ReleaseKeeps ==
  ASSUME OwnInv, NEW r \in 1..opened, Release(r), ~ended, UNCHANGED <<opened, ended>>
  PROVE  /\ OwnInv'
         /\ \A s \in Ids : resources[s].type # "rad_handle" => resources'[s].type # "rad_handle"
<1>1. r \in Ids
  BY OpenedAreIds
<1>2. resources \in [Ids -> Resource]
  BY DEF OwnInv
<1>3. CASE resources[r].type = "gone"
  <2>1. resources' = resources /\ UNCHANGED handleVars
    BY <1>3 DEF Release
  <2> QED BY <2>1 DEF OwnInv, Owned, Live, Shaped, handleVars
<1>4. CASE resources[r].type # "gone" /\ resources[r].refs > 1
  <2>1. resources' = [resources EXCEPT ![r].refs = @ - 1] /\ UNCHANGED handleVars
    BY <1>4 DEF Release
  <2>2. resources' \in [Ids -> Resource]
    BY <1>1, <1>2, <2>1 DEF Resource
  <2>3. \A s \in Ids : /\ resources'[s].type = resources[s].type
                       /\ resources'[s].ptr = resources[s].ptr
    BY <1>1, <1>2, <2>1 DEF Resource
  <2> QED BY <2>1, <2>2, <2>3 DEF OwnInv, Owned, Live, Shaped, handleVars
<1>5. CASE resources[r].type # "gone" /\ ~(resources[r].refs > 1)
  <2>1. /\ Destructor(r)
        /\ resources' = [resources EXCEPT ![r] = [refs |-> 0, type |-> "gone", ptr |-> 0]]
    BY <1>5 DEF Release
  <2>2. [refs |-> 0, type |-> "gone", ptr |-> 0] \in Resource
    BY DEF Resource, Types
  <2>3. resources' \in [Ids -> Resource]
    BY <1>2, <2>1, <2>2
  <2>4. resources'[r] = [refs |-> 0, type |-> "gone", ptr |-> 0]
    BY <1>1, <1>2, <2>1
  <2>5. resources'[r].type = "gone"
    BY <2>4
  <2>6. \A s \in Ids \ {r} : resources'[s] = resources[s]
    BY <1>2, <2>1
  <2>7. OwnInv'
    BY <2>1, <2>3, <2>5, <2>6, LosesType
  <2> QED BY <2>5, <2>6, <2>7
<1> QED BY <1>3, <1>4, <1>5

(* radius_close.                                                             *)
LEMMA DeleteKeeps ==
  ASSUME OwnInv, NEW r \in 1..opened, DeleteResource(r), ~ended,
         UNCHANGED <<opened, ended>>
  PROVE  /\ OwnInv'
         /\ \A s \in Ids : resources[s].type # "rad_handle" => resources'[s].type # "rad_handle"
         /\ php7 => resources'[r].type # "rad_handle"
<1>1. CASE php7
  <2>1. /\ Destructor(r)
        /\ resources' = [resources EXCEPT ![r] = [refs |-> @.refs, type |-> "closed", ptr |-> 0]]
    BY <1>1 DEF DeleteResource, ListClose
  <2>2. resources \in [Ids -> Resource] /\ r \in Ids
    BY OpenedAreIds DEF OwnInv
  <2> DEFINE new == [refs |-> resources[r].refs, type |-> "closed", ptr |-> 0]
  <2>5. resources[r].refs \in Int
    BY <2>2 DEF Resource
  <2>6. new \in Resource /\ new.type = "closed"
    BY <2>5 DEF Resource, Types
  <2>7. resources' = [resources EXCEPT ![r] = new]
    BY <2>1, <2>2
  <2> HIDE DEF new
  <2>3. /\ resources' \in [Ids -> Resource]
        /\ resources'[r].type = "closed"
        /\ \A s \in Ids \ {r} : resources'[s] = resources[s]
    BY <2>2, <2>6, <2>7
  <2>4. OwnInv'
    BY <2>1, <2>3, LosesType
  <2> QED BY <2>3, <2>4
<1>2. CASE ~php7
  <2>1. Release(r)
    BY <1>2 DEF DeleteResource
  <2> QED BY <1>2, <2>1, ReleaseKeeps
<1> QED BY <1>1, <1>2

(* A new resource takes the next number.                                     *)
LEMMA RegisterAdds ==
  ASSUME OwnInv, VarInv, NEW v \in Vars, NEW type \in {"rad_handle", "stream"},
         NEW ptr \in 0..MaxOpens, Register(v, type, ptr), ~ended, UNCHANGED ended
  PROVE  /\ opened' = opened + 1 /\ opened' \in Ids
         /\ resources' \in [Ids -> Resource]
         /\ resources'[opened'].type = type /\ resources'[opened'].ptr = ptr
         /\ \A r \in Ids \ {opened'} : resources'[r] = resources[r]
         /\ VarInv'
<1>1. PICK z \in Zvals :
        /\ ~IsSet(v) /\ ~InUse(z)
        /\ opened < MaxOpens
        /\ opened' = opened + 1
        /\ resources' = [resources EXCEPT ![opened'] =
                           [refs |-> 1, type |-> type, ptr |-> ptr]]
        /\ zvalOf' = [zvalOf EXCEPT ![v] = z]
        /\ holds' = [holds EXCEPT ![z] = opened']
  BY DEF Register
<1>2. opened' \in Ids /\ opened' \in Nat
  BY <1>1 DEF OwnInv, Ids
<1>3. [refs |-> 1, type |-> type, ptr |-> ptr] \in Resource
  BY DEF Resource, Types
<1>4. /\ resources' \in [Ids -> Resource]
      /\ resources'[opened'] = [refs |-> 1, type |-> type, ptr |-> ptr]
      /\ \A r \in Ids \ {opened'} : resources'[r] = resources[r]
  BY <1>1, <1>2, <1>3 DEF OwnInv
<1>5. resources'[opened'].type = type /\ resources'[opened'].ptr = ptr
  BY <1>4
<1>6. /\ zvalOf' \in [Vars -> Zvals \cup {0}]
      /\ holds' \in [Zvals -> 0..MaxOpens]
  BY <1>1, <1>2 DEF VarInv, Ids
<1>7. ASSUME NEW w \in Vars, IsSet(w)' PROVE ResourceOf(w)' \in 1..opened'
  <2>1. CASE w = v
    <3>1. zvalOf'[v] = z /\ holds'[z] = opened'
      BY <1>1 DEF VarInv
    <3>2. ResourceOf(w)' = opened'
      BY <2>1, <3>1 DEF ResourceOf
    <3>3. opened' >= 1
      BY <1>1, <1>2 DEF OwnInv
    <3> QED BY <1>2, <3>2, <3>3
  <2>2. CASE w # v
    <3>1. zvalOf'[w] = zvalOf[w] /\ zvalOf[w] # z /\ zvalOf[w] \in Zvals
      BY <1>1, <1>7, <2>2 DEF VarInv, InUse, IsSet
    <3>2. ResourceOf(w)' = ResourceOf(w) /\ ResourceOf(w) \in 1..opened
      BY <1>1, <1>7, <3>1 DEF VarInv, ResourceOf, IsSet
    <3> QED BY <1>1, <3>2 DEF OwnInv
  <2> QED BY <2>1, <2>2
<1> QED BY <1>1, <1>2, <1>4, <1>5, <1>6, <1>7 DEF VarInv

-----------------------------------------------------------------------------
(* The actions.                                                              *)

(* The calls and the engine keep Inv, one lemma each.  Opening a handle:     *)
LEMMA OpenKeeps == ASSUME Inv, Open PROVE Inv'
<1>1. PICK v \in Vars, type \in {"auth", "acct"} :
        /\ Register(v, "rad_handle", opened + 1)
        /\ handles' = [handles EXCEPT ![opened'] = Opened(type)]
  BY DEF Open
<1>2. ~ended /\ UNCHANGED <<php7, fds, secrets, releases, closed, ended>>
  BY DEF Open
<1>3. opened + 1 \in 0..MaxOpens
  BY <1>1 DEF Register, Inv, OwnInv
<1>4. /\ opened' = opened + 1 /\ opened' \in Ids
      /\ resources' \in [Ids -> Resource]
      /\ resources'[opened'].type = "rad_handle" /\ resources'[opened'].ptr = opened + 1
      /\ \A r \in Ids \ {opened'} : resources'[r] = resources[r]
      /\ VarInv'
  BY <1>1, <1>2, <1>3, RegisterAdds DEF Inv
<1> DEFINE new == Opened(type)
<1>6. new.status = "live" /\ Shaped(new)
  BY DEF Opened, Shaped
<1> HIDE DEF new
<1>7. /\ handles' = [h \in Ids |-> handles'[h]]
      /\ handles'[opened'] = new
      /\ \A h \in Ids \ {opened'} : handles'[h] = handles[h]
  BY <1>1, <1>4 DEF Inv, OwnInv, new
<1>8. \A h \in Ids : Shaped(handles[h])'
  BY <1>6, <1>7 DEF Inv, OwnInv, Shaped
<1>9. ASSUME NEW r \in Ids PROVE Owned(r)'
  <2>1. CASE r = opened'
    <3>1. releases[r] = 0
      BY <1>4, <2>1 DEF Inv, OwnInv, Owned
    <3> QED BY <1>2, <1>4, <1>6, <1>7, <2>1, <3>1 DEF Inv, OwnInv, Owned, Live
  <2>2. CASE r # opened'
    BY <1>2, <1>4, <1>7, <2>2 DEF Inv, OwnInv, Owned, Live, Ids
  <2> QED BY <2>1, <2>2
<1>10. OwnInv'
  BY <1>2, <1>4, <1>7, <1>8, <1>9 DEF Inv, OwnInv, Ids
<1>11. ClosedInv'
  <2>1. opened' \notin closed /\ closed \subseteq 1..opened'
    BY <1>4 DEF Inv, OwnInv, ClosedInv
  <2>2. \A r \in closed : r \in Ids \ {opened'}
    BY <2>1, OpenedAreIds DEF Inv, ClosedInv
  <2> QED BY <1>2, <1>4, <2>1, <2>2 DEF Inv, ClosedInv
<1> QED BY <1>4, <1>10, <1>11 DEF Inv

(* Opening another resource.                                                 *)
LEMMA OpenOtherKeeps == ASSUME Inv, OpenOther PROVE Inv'
<1>1. PICK v \in Vars : Register(v, "stream", 0)
  BY DEF OpenOther
<1>2. ~ended /\ UNCHANGED <<php7, handleVars, closed, ended>>
  BY DEF OpenOther
<1>4. /\ opened' = opened + 1 /\ opened' \in Ids
      /\ resources' \in [Ids -> Resource]
      /\ resources'[opened'].type = "stream"
      /\ \A r \in Ids \ {opened'} : resources'[r] = resources[r]
      /\ VarInv'
  BY <1>1, <1>2, RegisterAdds DEF Inv
<1>9. ASSUME NEW r \in Ids PROVE Owned(r)'
  <2>1. CASE r = opened'
    BY <1>2, <1>4, <2>1 DEF Inv, OwnInv, Owned, Live, handleVars
  <2>2. CASE r # opened'
    BY <1>2, <1>4, <2>2 DEF Inv, OwnInv, Owned, Live, Ids, handleVars
  <2> QED BY <2>1, <2>2
<1>10. OwnInv'
  BY <1>2, <1>4, <1>9 DEF Inv, OwnInv, Ids, Shaped, handleVars
<1>11. ClosedInv'
  <2>1. opened' \notin closed /\ closed \subseteq 1..opened'
    BY <1>4 DEF Inv, OwnInv, ClosedInv
  <2>2. \A r \in closed : r \in Ids \ {opened'}
    BY <2>1, OpenedAreIds DEF Inv, ClosedInv
  <2> QED BY <1>2, <1>4, <2>1, <2>2 DEF Inv, ClosedInv
<1> QED BY <1>4, <1>10, <1>11 DEF Inv

(* Copies and references.                                                    *)
LEMMA AssignKeeps == ASSUME Inv, Assign PROVE Inv'
<1>1. PICK v \in Vars, w \in Vars :
       /\ IsSet(v) /\ ~IsSet(w)
       /\ \/ /\ zvalOf' = [zvalOf EXCEPT ![w] = zvalOf[v]]
             /\ UNCHANGED <<holds, resources>>
          \/ \E z \in Zvals :
               /\ ~InUse(z)
               /\ zvalOf' = [zvalOf EXCEPT ![w] = z]
               /\ holds' = [holds EXCEPT ![z] = ResourceOf(v)]
               /\ resources' = IF resources[ResourceOf(v)].type = "gone" THEN resources
                               ELSE [resources EXCEPT ![ResourceOf(v)].refs = @ + 1]
  BY DEF Assign
<1>2. ~ended /\ UNCHANGED <<php7, opened, handleVars, closed, ended>>
  BY DEF Assign
<1>3. ResourceOf(v) \in 1..opened /\ ResourceOf(v) \in Ids
  BY <1>1, OpenedAreIds DEF Inv, VarInv
<1>4. /\ resources' \in [Ids -> Resource]
      /\ \A r \in Ids : /\ resources'[r].type = resources[r].type
                         /\ resources'[r].ptr = resources[r].ptr
  <2>1. resources \in [Ids -> Resource]
    BY DEF Inv, OwnInv
  <2>2. \/ resources' = resources
        \/ resources' = [resources EXCEPT ![ResourceOf(v)].refs = @ + 1]
    BY <1>1
  <2>3. CASE resources' = [resources EXCEPT ![ResourceOf(v)].refs = @ + 1]
    BY <1>3, <2>1, <2>3 DEF Resource
  <2> QED BY <2>1, <2>2, <2>3
<1>5. OwnInv'
  BY <1>2, <1>4 DEF Inv, OwnInv, Owned, Live, Shaped, handleVars
<1>6. VarInv'
  <2>1. CASE zvalOf' = [zvalOf EXCEPT ![w] = zvalOf[v]] /\ UNCHANGED <<holds, resources>>
    BY <1>1, <1>2, <2>1 DEF Inv, VarInv, IsSet, ResourceOf
  <2>2. ASSUME NEW z \in Zvals, ~InUse(z),
               zvalOf' = [zvalOf EXCEPT ![w] = z],
               holds' = [holds EXCEPT ![z] = ResourceOf(v)]
        PROVE  VarInv'
    <3>1. /\ zvalOf' \in [Vars -> Zvals \cup {0}]
          /\ holds' \in [Zvals -> 0..MaxOpens]
      BY <1>3, <2>2 DEF Inv, VarInv, Ids
    <3>2. ASSUME NEW u \in Vars, IsSet(u)' PROVE ResourceOf(u)' \in 1..opened'
      <4>1. CASE u = w
        BY <1>2, <1>3, <2>2, <4>1 DEF Inv, VarInv, ResourceOf
      <4>2. CASE u # w
        <5>1. zvalOf'[u] = zvalOf[u] /\ zvalOf[u] # z /\ zvalOf[u] \in Zvals
          BY <2>2, <3>2, <4>2 DEF Inv, VarInv, InUse, IsSet
        <5>2. ResourceOf(u)' = ResourceOf(u) /\ ResourceOf(u) \in 1..opened
          BY <2>2, <3>2, <5>1 DEF Inv, VarInv, ResourceOf, IsSet
        <5> QED BY <1>2, <5>2
      <4> QED BY <4>1, <4>2
    <3> QED BY <1>2, <3>1, <3>2 DEF VarInv
  <2> QED BY <1>1, <2>1, <2>2
<1>7. ClosedInv'
  BY <1>2, <1>4, OpenedAreIds DEF Inv, ClosedInv
<1> QED BY <1>5, <1>6, <1>7 DEF Inv

(* Unsetting a variable.                                                     *)
LEMMA UnsetKeeps == ASSUME Inv, Unset PROVE Inv'
<1>1. PICK v \in Vars :
       /\ IsSet(v)
       /\ zvalOf' = [zvalOf EXCEPT ![v] = 0]
       /\ IF \E w \in Vars \ {v} : zvalOf[w] = zvalOf[v]
            THEN UNCHANGED <<holds, resources, handleVars>>
            ELSE /\ Release(ResourceOf(v))
                 /\ holds' = [holds EXCEPT ![zvalOf[v]] = 0]
  BY DEF Unset
<1>2. ~ended /\ UNCHANGED <<php7, opened, closed, ended>>
  BY DEF Unset
<1>3. ResourceOf(v) \in 1..opened
  BY <1>1 DEF Inv, VarInv
<1>4. CASE UNCHANGED <<holds, resources, handleVars>>
  <2>1. OwnInv'
    BY <1>2, <1>4 DEF Inv, OwnInv, Owned, Live, Shaped, handleVars
  <2>2. VarInv'
    BY <1>1, <1>2, <1>4 DEF Inv, VarInv, IsSet, ResourceOf
  <2>3. ClosedInv'
    BY <1>2, <1>4 DEF Inv, ClosedInv
  <2> QED BY <2>1, <2>2, <2>3 DEF Inv
<1>5. CASE /\ \A w \in Vars \ {v} : zvalOf[w] # zvalOf[v]
           /\ Release(ResourceOf(v))
           /\ holds' = [holds EXCEPT ![zvalOf[v]] = 0]
  <2>1. /\ OwnInv'
        /\ \A s \in Ids : resources[s].type # "rad_handle"
                            => resources'[s].type # "rad_handle"
    BY <1>2, <1>3, <1>5, ReleaseKeeps DEF Inv
  <2>2. VarInv'
    BY <1>1, <1>2, <1>5 DEF Inv, VarInv, IsSet, ResourceOf
  <2>3. ClosedInv'
    BY <1>2, <2>1, OpenedAreIds DEF Inv, ClosedInv
  <2> QED BY <2>1, <2>2, <2>3 DEF Inv
<1> QED BY <1>1, <1>4, <1>5

(* Closing a handle.                                                         *)
LEMMA CloseKeeps == ASSUME Inv, Close PROVE Inv'
<1>1. PICK v \in Vars :
       /\ IsSet(v) /\ Fetches(v)
       /\ DeleteResource(ResourceOf(v))
       /\ closed' = closed \cup {ResourceOf(v)}
  BY DEF Close
<1>2. ~ended /\ UNCHANGED <<php7, zvalOf, holds, opened, ended>>
  BY DEF Close
<1>3. ResourceOf(v) \in 1..opened
  BY <1>1 DEF Inv, VarInv
<1>4. /\ OwnInv'
      /\ \A s \in Ids : resources[s].type # "rad_handle"
                          => resources'[s].type # "rad_handle"
      /\ php7 => resources'[ResourceOf(v)].type # "rad_handle"
  BY <1>1, <1>2, <1>3, DeleteKeeps DEF Inv
<1>5. VarInv'
  BY <1>2 DEF Inv, VarInv, IsSet, ResourceOf
<1>6. ClosedInv'
  BY <1>1, <1>2, <1>3, <1>4, OpenedAreIds DEF Inv, ClosedInv
<1> QED BY <1>4, <1>5, <1>6 DEF Inv

(* What the calls of a handle that is open change of it.                     *)
LEMMA HandleChanges ==
  ASSUME Inv, NEW h \in Ids, NEW new,
         handles' = [handles EXCEPT ![h] = new],
         new.status = handles[h].status, Shaped(new),
         UNCHANGED <<php7, engineVars, releases, closed, ended>>
  PROVE  Inv'
<1>1. /\ handles' = [g \in Ids |-> handles'[g]]
      /\ \A g \in Ids : handles'[g].status = handles[g].status /\ Shaped(handles'[g])
  BY DEF Inv, OwnInv
<1>2. \A g \in Ids : Shaped(handles[g])'
  BY <1>1 DEF Shaped
<1>3. \A r \in Ids : Owned(r)'
  BY <1>1 DEF Inv, OwnInv, Owned, Live, engineVars
<1>4. OwnInv'
  BY <1>1, <1>2, <1>3 DEF Inv, OwnInv, engineVars
<1>5. VarInv' /\ ClosedInv'
  BY DEF Inv, VarInv, ClosedInv, IsSet, ResourceOf, engineVars
<1> QED BY <1>4, <1>5 DEF Inv

(* The handle that a variable reaches is one.                                *)
LEMMA FetchedIsId ==
  ASSUME Inv, NEW v \in Vars, IsSet(v), Fetches(v)
  PROVE  HandleOf(v) \in Ids /\ Shaped(handles[HandleOf(v)])
<1>1. ResourceOf(v) \in Ids
  BY OpenedAreIds DEF Inv, VarInv
<1>2. HandleOf(v) = ResourceOf(v)
  BY <1>1 DEF Inv, OwnInv, Owned, Fetches, HandleOf
<1> QED BY <1>1, <1>2 DEF Inv, OwnInv

(* What the functions that fill the server table have in common.             *)
LEMMA SetServersKeeps ==
  ASSUME Inv, NEW v \in Vars, IsSet(v), Fetches(v), NEW servers,
         SetServers(HandleOf(v), servers), UNCHANGED ended
  PROVE  Inv'
<1> DEFINE h == HandleOf(v)
           new == [handles[h] EXCEPT !.servers = servers]
<1>1. h \in Ids /\ Shaped(handles[h])
  BY FetchedIsId
<1>2. new.status = handles[h].status /\ Shaped(new)
  BY <1>1, ServersShape
<1>3. handles' = [handles EXCEPT ![h] = new]
  BY <1>1 DEF SetServers, Inv, OwnInv
<1>4. UNCHANGED <<php7, engineVars, releases, closed, ended>>
  BY DEF SetServers
<1> HIDE DEF h, new
<1> QED BY <1>1, <1>2, <1>3, <1>4, HandleChanges

(* Reading a configuration file.                                             *)
LEMMA ReadConfigKeeps == ASSUME Inv, ReadConfig PROVE Inv'
<1>1. PICK v \in Vars, file \in Files, garbage \in {"CR", "other"} :
        /\ IsSet(v) /\ Fetches(v)
        /\ SetServers(HandleOf(v),
                      Config(file, handles[HandleOf(v)].type,
                             handles[HandleOf(v)].servers, garbage).servers)
  BY DEF ReadConfig
<1>2. UNCHANGED ended
  BY <1>1 DEF SetServers
<1> QED BY <1>1, <1>2, SetServersKeeps

(* Adding a server.                                                          *)
LEMMA AddServerKeeps == ASSUME Inv, AddServer PROVE Inv'
<1>1. PICK v \in Vars, s \in Added :
        /\ IsSet(v) /\ Fetches(v)
        /\ SetServers(HandleOf(v),
                      Append(handles[HandleOf(v)].servers,
                             Server(s[1], 0, s[2], TIMEOUT, MAXTRIES)))
  BY DEF AddServer
<1>2. UNCHANGED ended
  BY <1>1 DEF SetServers
<1> QED BY <1>1, <1>2, SetServersKeeps

(* Sending, which opens the socket.                                          *)
LEMMA SendRequestKeeps == ASSUME Inv, SendRequest PROVE Inv'
<1>1. PICK v \in Vars :
        /\ IsSet(v) /\ Fetches(v)
        /\ handles' = [handles EXCEPT ![HandleOf(v)].fd = TRUE]
  BY DEF SendRequest
<1> DEFINE h == HandleOf(v)
           new == [handles[h] EXCEPT !.fd = TRUE]
<1>2. h \in Ids /\ Shaped(handles[h])
  BY <1>1, FetchedIsId
<1>3. new.status = handles[h].status /\ Shaped(new)
  BY <1>2, SocketShape
<1>4. handles' = [handles EXCEPT ![h] = new]
  BY <1>1, <1>2 DEF Inv, OwnInv
<1>5. UNCHANGED <<php7, engineVars, releases, closed, ended>>
  BY DEF SendRequest
<1> HIDE DEF h, new
<1> QED BY <1>2, <1>3, <1>4, <1>5, HandleChanges

(* At the end of a request every handle that is live is freed.               *)
LEMMA EndRequestKeeps == ASSUME Inv, EndRequest PROVE Inv'
<1>1. PICK hs \in SUBSET Ids : hs = {h \in Ids : Live(h)}
  OBVIOUS
<1>11. hs = {resources[r].ptr : r \in {r \in Ids : resources[r].type = "rad_handle"}}
  BY <1>1 DEF Inv, OwnInv, Owned
<1>2. /\ RadClose(hs)
      /\ ended' = TRUE
      /\ resources' = [r \in Ids |-> NoResource]
      /\ zvalOf' = [v \in Vars |-> 0]
      /\ holds' = [z \in Zvals |-> 0]
      /\ closed' = {}
      /\ UNCHANGED <<php7, opened>>
  BY <1>11 DEF EndRequest, RadClose
<1>3. hs \in SUBSET Ids /\ \A h \in hs : Live(h)
  BY <1>1
<1>4. /\ handles' = [h \in Ids |-> handles'[h]]
      /\ \A h \in Ids : Shaped(handles'[h])
      /\ releases' \in [Ids -> Nat]
      /\ \A h \in Ids : /\ handles'[h].status =
                             IF h \in hs THEN "freed" ELSE handles[h].status
                        /\ releases'[h] = releases[h] + (IF h \in hs THEN 1 ELSE 0)
  BY <1>2, <1>3, RadCloseFrees DEF Inv
<1>5. NoResource \in Resource /\ NoResource.type = "none"
  BY DEF NoResource, Resource, Types
<1>6. resources' \in [Ids -> Resource] /\ \A r \in Ids : resources'[r].type = "none"
  BY <1>2, <1>5
<1>7. ASSUME NEW r \in Ids PROVE Owned(r)'
  <2>1. /\ handles'[r].status = (IF Live(r) THEN "freed" ELSE handles[r].status)
        /\ releases'[r] = releases[r] + (IF Live(r) THEN 1 ELSE 0)
    <3>1. r \in hs <=> Live(r)
      BY <1>1
    <3> QED BY <1>4, <3>1
  <2>2. /\ releases[r] = (IF handles[r].status = "freed" THEN 1 ELSE 0)
        /\ r > opened => resources[r].type = "none" /\ handles[r].status = "none"
    BY DEF Inv, OwnInv, Owned
  <2>3. ~Live(r)' /\ releases'[r] = (IF handles'[r].status = "freed" THEN 1 ELSE 0)
    BY <2>1, <2>2 DEF Live
  <2>4. r > opened' => handles'[r].status = "none"
    BY <1>2, <2>1, <2>2 DEF Live
  <2> QED BY <1>6, <2>3, <2>4 DEF Owned
<1>8. \A h \in Ids : Shaped(handles[h])'
  BY <1>4 DEF Shaped
<1>9. OwnInv'
  BY <1>2, <1>4, <1>6, <1>7, <1>8 DEF Inv, OwnInv
<1>10. VarInv' /\ ClosedInv'
  BY <1>2 DEF VarInv, ClosedInv, IsSet
<1> QED BY <1>9, <1>10 DEF Inv

(* The next request begins with nothing.                                     *)
LEMMA NextRequestKeeps == ASSUME Inv, NextRequest PROVE Inv'
<1>1. /\ ended /\ ended' = FALSE /\ opened' = 0
      /\ handles' = [h \in Ids |-> NoHandle]
      /\ releases' = [h \in Ids |-> 0]
      /\ UNCHANGED <<php7, zvalOf, holds, resources, fds, secrets, closed>>
  BY DEF NextRequest
<1>2. NoHandle.status = "none" /\ Shaped(NoHandle)
  BY DEF NoHandle, Shaped
<1>3. \A h \in Ids : handles'[h].status = "none" /\ Shaped(handles[h])'
  BY <1>1, <1>2 DEF Shaped
<1>4. \A r \in Ids : resources[r].type = "none"
  BY <1>1 DEF Inv, OwnInv, Owned
<1>5. \A r \in Ids : Owned(r)'
  BY <1>1, <1>3, <1>4 DEF Owned, Live
<1>6. OwnInv'
  BY <1>1, <1>3, <1>5 DEF Inv, OwnInv
<1>7. VarInv'
  BY <1>1 DEF Inv, VarInv, IsSet
<1>8. ClosedInv'
  BY <1>1, <1>4 DEF Inv, ClosedInv, VarInv
<1> QED BY <1>6, <1>7, <1>8 DEF Inv

-----------------------------------------------------------------------------
(* The specification.                                                        *)

(* Nothing is open before the first request.                                 *)
LEMMA InvInitially == Init => Inv
<1> SUFFICES ASSUME Init PROVE Inv
  OBVIOUS
<1>1. NoHandle.status = "none" /\ Shaped(NoHandle)
  BY DEF NoHandle, Shaped
<1>2. NoResource.type = "none" /\ NoResource \in Resource
  BY DEF NoResource, Resource, Types
<1>3. /\ \A h \in Ids : handles[h] = NoHandle /\ resources[h] = NoResource
      /\ handles = [h \in Ids |-> handles[h]]
      /\ opened = 0 /\ ended = FALSE /\ closed = {}
      /\ releases = [h \in Ids |-> 0]
      /\ zvalOf = [v \in Vars |-> 0] /\ holds = [z \in Zvals |-> 0]
      /\ resources = [r \in Ids |-> NoResource]
  BY DEF Init
<1>4. \A r \in Ids : Owned(r)
  BY <1>1, <1>2, <1>3 DEF Owned, Live
<1>5. OwnInv
  BY <1>1, <1>2, <1>3, <1>4 DEF OwnInv
<1>6. VarInv /\ ClosedInv
  BY <1>3 DEF VarInv, ClosedInv, IsSet
<1> QED BY <1>5, <1>6 DEF Inv

(* Inv is inductive.                                                         *)
LEMMA InvPreserved == Inv /\ [Next]_vars => Inv'
<1> SUFFICES ASSUME Inv, [Next]_vars PROVE Inv'
  OBVIOUS
<1>1. CASE UNCHANGED vars
  BY <1>1 DEF vars, engineVars, handleVars, Inv, OwnInv, VarInv, ClosedInv, Owned, Live,
              Shaped, IsSet, ResourceOf
<1> QED BY <1>1, OpenKeeps, OpenOtherKeeps, AssignKeeps, UnsetKeeps, CloseKeeps,
           ReadConfigKeeps, AddServerKeeps, SendRequestKeeps, EndRequestKeeps,
           NextRequestKeeps DEF Next

(* Inv holds in every reachable state.                                       *)
LEMMA InvAlways == Spec => []Inv
  BY InvInitially, InvPreserved, PTL DEF Spec

(* No handle is ever given to rad_close twice, whatever variables the script *)
(* shares, copies and unsets, in whichever order it closes them, wherever it *)
(* ends, and with either version of PHP.                                     *)
THEOREM HandlesAreReleasedOnce == Spec => []ReleasedOnce
<1>1. Inv => ReleasedOnce
  BY DEF Inv, OwnInv, Owned, ReleasedOnce
<1> QED BY <1>1, InvAlways, PTL

(* With PHP 7 no variable reaches a handle that was closed through another   *)
(* one.                                                                      *)
THEOREM ClosedStaysClosed == Spec => []ClosedIsClosed
<1>1. Inv => ClosedIsClosed
  BY DEF Inv, ClosedInv, ClosedIsClosed, Fetches
<1> QED BY <1>1, InvAlways, PTL

-----------------------------------------------------------------------------
(* The references of a resource nobody closed are counted: one for each zval *)
(* that holds it.                                                            *)

ZvalsOf(r) == {z \in Zvals : InUse(z) /\ holds[z] = r}
Counted(r) ==
  \/ /\ resources[r].type \in {"rad_handle", "stream"}
     /\ resources[r].refs = Cardinality(ZvalsOf(r))
     /\ resources[r].refs >= 1
  \/ resources[r].type = "gone" /\ ZvalsOf(r) = {}
RefInv == ~ended => \A r \in (1..opened) \ closed : Counted(r)

(* There are finitely many zvals.                                            *)
LEMMA ZvalsAreFinite ==
  ASSUME NEW S \in SUBSET Zvals PROVE IsFiniteSet(S) /\ Cardinality(S) \in Nat
<1>1. Cardinality(Vars) \in Nat
  BY FS_CardinalityType
<1>2. IsFiniteSet(Zvals)
  BY <1>1, FS_Interval DEF Zvals
<1> QED BY <1>2, FS_Subset, FS_CardinalityType

(* A variable that is set counts.                                            *)
LEMMA HeldIsCounted ==
  ASSUME VarInv, NEW v \in Vars, IsSet(v)
  PROVE  zvalOf[v] \in ZvalsOf(ResourceOf(v))
  BY DEF VarInv, IsSet, InUse, ResourceOf, ZvalsOf

(* What Release does to the resource.                                        *)
LEMMA ReleaseCounts ==
  ASSUME OwnInv, NEW r \in 1..opened, Release(r), resources[r].type # "gone"
  PROVE  /\ \A s \in Ids \ {r} : resources'[s] = resources[s]
         /\ resources[r].refs > 1 => /\ resources'[r].type = resources[r].type
                                     /\ resources'[r].refs = resources[r].refs - 1
         /\ ~(resources[r].refs > 1) => resources'[r].type = "gone"
<1>1. r \in Ids /\ resources \in [Ids -> Resource]
  BY OpenedAreIds DEF OwnInv
<1>2. CASE resources[r].refs > 1
  <2>1. resources' = [resources EXCEPT ![r].refs = @ - 1]
    BY <1>2 DEF Release
  <2> QED BY <1>1, <1>2, <2>1 DEF Resource
<1>3. CASE ~(resources[r].refs > 1)
  <2>1. resources' = [resources EXCEPT ![r] = [refs |-> 0, type |-> "gone", ptr |-> 0]]
    BY <1>3 DEF Release
  <2>2. resources'[r] = [refs |-> 0, type |-> "gone", ptr |-> 0]
    BY <1>1, <2>1
  <2>3. resources'[r].type = "gone"
    BY <2>2
  <2>4. \A s \in Ids \ {r} : resources'[s] = resources[s]
    BY <1>1, <2>1
  <2> QED BY <1>3, <2>3, <2>4
<1> QED BY <1>2, <1>3

(* A new resource has one reference, of one zval.                            *)
LEMMA RegisterCounts ==
  ASSUME Inv, RefInv, NEW v \in Vars, NEW type \in {"rad_handle", "stream"}, NEW ptr,
         Register(v, type, ptr), ~ended, UNCHANGED <<closed, ended>>
  PROVE  RefInv'
<1>1. PICK z \in Zvals :
        /\ ~IsSet(v) /\ ~InUse(z)
        /\ opened < MaxOpens
        /\ opened' = opened + 1
        /\ resources' = [resources EXCEPT ![opened'] =
                           [refs |-> 1, type |-> type, ptr |-> ptr]]
        /\ zvalOf' = [zvalOf EXCEPT ![v] = z]
        /\ holds' = [holds EXCEPT ![z] = opened']
  BY DEF Register
<1>2. opened \in Nat /\ opened' \in Ids
  BY <1>1 DEF Inv, OwnInv, Ids
<1>3. \A y \in Zvals : InUse(y)' <=> InUse(y) \/ y = z
  BY <1>1, ZeroIsNoZval DEF Inv, VarInv, InUse, IsSet
<1>4. \A y \in Zvals : InUse(y) => holds[y] \in 1..opened
  BY ZeroIsNoZval DEF Inv, VarInv, InUse, IsSet, ResourceOf
<1>5. \A y \in Zvals : holds'[y] = IF y = z THEN opened' ELSE holds[y]
  BY <1>1 DEF Inv, VarInv
<1>6. SUFFICES ASSUME NEW r \in (1..opened') \ closed PROVE Counted(r)'
  BY DEF RefInv
<1>7. CASE r = opened'
  <2>1. ZvalsOf(r)' = {z}
    BY <1>1, <1>2, <1>3, <1>4, <1>5, <1>7 DEF ZvalsOf
  <2>2. resources'[r] = [refs |-> 1, type |-> type, ptr |-> ptr]
    BY <1>1, <1>2, <1>7 DEF Inv, OwnInv
  <2>3. resources'[r].refs = 1 /\ resources'[r].type = type
    BY <2>2
  <2>4. Cardinality({z}) = 1
    BY FS_Singleton
  <2> QED BY <2>1, <2>3, <2>4 DEF Counted
<1>8. CASE r # opened'
  <2>1. r \in (1..opened) \ closed /\ r \in Ids
    BY <1>1, <1>2, <1>8 DEF Ids
  <2>2. ZvalsOf(r)' = ZvalsOf(r)
    BY <1>1, <1>3, <1>5, <1>8 DEF ZvalsOf
  <2>3. resources'[r] = resources[r]
    BY <1>1, <1>2, <1>8, <2>1 DEF Inv, OwnInv
  <2>4. Counted(r)
    BY <2>1 DEF RefInv
  <2> QED BY <2>2, <2>3, <2>4 DEF Counted
<1> QED BY <1>7, <1>8

(* A copy counts where it arrives, and no longer where it was.               *)
LEMMA AssignCounts == ASSUME Inv, RefInv, Assign PROVE RefInv'
<1>1. PICK v \in Vars, w \in Vars :
       /\ IsSet(v) /\ ~IsSet(w)
       /\ \/ /\ zvalOf' = [zvalOf EXCEPT ![w] = zvalOf[v]]
             /\ UNCHANGED <<holds, resources>>
          \/ \E z \in Zvals :
               /\ ~InUse(z)
               /\ zvalOf' = [zvalOf EXCEPT ![w] = z]
               /\ holds' = [holds EXCEPT ![z] = ResourceOf(v)]
               /\ resources' = IF resources[ResourceOf(v)].type = "gone" THEN resources
                               ELSE [resources EXCEPT ![ResourceOf(v)].refs = @ + 1]
  BY DEF Assign
<1>2. ~ended /\ UNCHANGED <<opened, closed, ended>>
  BY DEF Assign
<1>3. CASE /\ zvalOf' = [zvalOf EXCEPT ![w] = zvalOf[v]]
           /\ UNCHANGED <<holds, resources>>
  <2>1. \A y \in Zvals : InUse(y)' <=> InUse(y)
    BY <1>1, <1>3, ZeroIsNoZval DEF Inv, VarInv, InUse, IsSet
  <2>2. \A r : ZvalsOf(r)' = ZvalsOf(r)
    BY <1>3, <2>1 DEF ZvalsOf
  <2> QED BY <1>2, <1>3, <2>2 DEF RefInv, Counted
<1>4. ASSUME NEW z \in Zvals, ~InUse(z),
             zvalOf' = [zvalOf EXCEPT ![w] = z],
             holds' = [holds EXCEPT ![z] = ResourceOf(v)],
             resources' = IF resources[ResourceOf(v)].type = "gone" THEN resources
                          ELSE [resources EXCEPT ![ResourceOf(v)].refs = @ + 1]
      PROVE  RefInv'
  <2>1. PICK k \in 1..opened : k \in Ids /\ k = ResourceOf(v)
    BY <1>1, OpenedAreIds DEF Inv, VarInv
  <2>2. \A y \in Zvals : InUse(y)' <=> InUse(y) \/ y = z
    BY <1>1, <1>4, ZeroIsNoZval DEF Inv, VarInv, InUse, IsSet
  <2>3. \A y \in Zvals : holds'[y] = IF y = z THEN k ELSE holds[y]
    BY <1>4, <2>1 DEF Inv, VarInv
  <2>4. z \notin ZvalsOf(k) /\ ZvalsOf(k)' = ZvalsOf(k) \cup {z}
    BY <1>4, <2>2, <2>3 DEF ZvalsOf
  <2>5. \A r : r # k => ZvalsOf(r)' = ZvalsOf(r)
    BY <1>4, <2>2, <2>3 DEF ZvalsOf
  <2>6. zvalOf[v] \in ZvalsOf(k)
    BY <1>1, <2>1, HeldIsCounted DEF Inv
  <2>7. SUFFICES ASSUME NEW r \in (1..opened) \ closed PROVE Counted(r)'
    BY <1>2 DEF RefInv
  <2>8. Counted(r) /\ r \in Ids
    BY <1>2, OpenedAreIds DEF RefInv, Inv
  <2>9. CASE r = k
    <3>1. /\ resources[k].type \in {"rad_handle", "stream"}
          /\ resources[k].refs = Cardinality(ZvalsOf(k))
          /\ resources[k].refs >= 1
      BY <2>6, <2>8, <2>9 DEF Counted
    <3>2. resources' = [resources EXCEPT ![k].refs = @ + 1]
      BY <1>4, <2>1, <3>1
    <3>3. /\ resources'[k].type = resources[k].type
          /\ resources'[k].refs = resources[k].refs + 1
      BY <2>1, <3>2 DEF Inv, OwnInv, Resource
    <3>4. ZvalsOf(k) \in SUBSET Zvals
      BY DEF ZvalsOf
    <3>5. IsFiniteSet(ZvalsOf(k)) /\ Cardinality(ZvalsOf(k)) \in Nat
      BY <3>4, ZvalsAreFinite
    <3>6. Cardinality(ZvalsOf(k) \cup {z}) = Cardinality(ZvalsOf(k)) + 1
      BY <2>4, <3>5, FS_AddElement
    <3> QED BY SMTT(30), <2>4, <2>9, <3>1, <3>3, <3>5, <3>6 DEF Counted
  <2>10. CASE r # k
    <3>1. resources'[r] = resources[r]
      BY <1>4, <2>1, <2>8, <2>10 DEF Inv, OwnInv
    <3> QED BY <2>5, <2>8, <2>10, <3>1 DEF Counted
  <2> QED BY <2>9, <2>10
<1> QED BY <1>1, <1>3, <1>4

(* Unsetting a variable gives up the one reference of its zval.              *)
LEMMA UnsetCounts == ASSUME Inv, RefInv, Unset PROVE RefInv'
<1>1. PICK v \in Vars :
       /\ IsSet(v)
       /\ zvalOf' = [zvalOf EXCEPT ![v] = 0]
       /\ IF \E w \in Vars \ {v} : zvalOf[w] = zvalOf[v]
            THEN UNCHANGED <<holds, resources, handleVars>>
            ELSE /\ Release(ResourceOf(v))
                 /\ holds' = [holds EXCEPT ![zvalOf[v]] = 0]
  BY DEF Unset
<1>2. ~ended /\ UNCHANGED <<opened, closed, ended>>
  BY DEF Unset
<1>3. CASE /\ \E w \in Vars \ {v} : zvalOf[w] = zvalOf[v]
           /\ UNCHANGED <<holds, resources, handleVars>>
  <2>1. \A y \in Zvals : InUse(y)' <=> InUse(y)
    BY <1>1, <1>3, ZeroIsNoZval DEF Inv, VarInv, InUse, IsSet
  <2>2. \A r : ZvalsOf(r)' = ZvalsOf(r)
    BY <1>3, <2>1 DEF ZvalsOf
  <2> QED BY <1>2, <1>3, <2>2 DEF RefInv, Counted
<1>4. CASE /\ \A w \in Vars \ {v} : zvalOf[w] # zvalOf[v]
           /\ Release(ResourceOf(v))
           /\ holds' = [holds EXCEPT ![zvalOf[v]] = 0]
  <2>0. PICK z \in Zvals : z = zvalOf[v]
    BY <1>1 DEF Inv, VarInv, IsSet
  <2>1. PICK k \in 1..opened : k \in Ids /\ k = ResourceOf(v)
    BY <1>1, OpenedAreIds DEF Inv, VarInv
  <2>2. \A y \in Zvals : InUse(y)' <=> InUse(y) /\ y # z
    BY <1>1, <1>4, <2>0, ZeroIsNoZval DEF Inv, VarInv, InUse, IsSet
  <2>3. \A y \in Zvals : y # z => holds'[y] = holds[y]
    BY <1>4, <2>0 DEF Inv, VarInv
  <2>4. holds[z] = k /\ z \in ZvalsOf(k)
    BY <1>1, <2>0, <2>1, HeldIsCounted DEF ResourceOf, Inv
  <2>5. Release(k)
    BY <1>4, <2>1
  <2>6. ZvalsOf(k)' = ZvalsOf(k) \ {z}
    BY <2>2, <2>3 DEF ZvalsOf
  <2>7. \A r : r # k => ZvalsOf(r)' = ZvalsOf(r)
    BY <2>2, <2>3, <2>4 DEF ZvalsOf
  <2>8. SUFFICES ASSUME NEW r \in (1..opened) \ closed PROVE Counted(r)'
    BY <1>2 DEF RefInv
  <2>9. Counted(r) /\ r \in Ids
    BY <1>2, OpenedAreIds DEF RefInv, Inv
  <2>10. OwnInv
    BY DEF Inv
  <2>11. CASE r = k
    <3>1. /\ resources[k].type \in {"rad_handle", "stream"}
          /\ resources[k].refs = Cardinality(ZvalsOf(k))
      BY <2>4, <2>9, <2>11 DEF Counted
    <3>2. /\ resources[k].refs > 1 => /\ resources'[k].type = resources[k].type
                                      /\ resources'[k].refs = resources[k].refs - 1
          /\ ~(resources[k].refs > 1) => resources'[k].type = "gone"
      BY <2>1, <2>5, <2>10, <3>1, ReleaseCounts
    <3>3. ZvalsOf(k) \in SUBSET Zvals
      BY DEF ZvalsOf
    <3>4. IsFiniteSet(ZvalsOf(k)) /\ Cardinality(ZvalsOf(k)) \in Nat
      BY <3>3, ZvalsAreFinite
    <3>5. Cardinality(ZvalsOf(k) \ {z}) = Cardinality(ZvalsOf(k)) - 1
      BY <2>4, <3>4, FS_RemoveElement
    <3>6. CASE resources[k].refs > 1
      BY <2>6, <2>11, <3>1, <3>2, <3>4, <3>5, <3>6 DEF Counted
    <3>7. CASE ~(resources[k].refs > 1)
      <4>1. IsFiniteSet(ZvalsOf(k) \ {z})
        BY <3>4, FS_RemoveElement
      <4>2. Cardinality(ZvalsOf(k) \ {z}) \in Nat
        BY <4>1, FS_CardinalityType
      <4>3. Cardinality(ZvalsOf(k) \ {z}) = 0
        BY <3>1, <3>4, <3>5, <3>7, <4>2
      <4>4. ZvalsOf(k) \ {z} = {}
        BY <4>1, <4>3, FS_EmptySet
      <4> QED BY <2>6, <2>11, <3>2, <3>7, <4>4 DEF Counted
    <3> QED BY <3>6, <3>7
  <2>12. CASE r # k
    <3>1. resources'[r] = resources[r]
      <4>1. CASE resources[k].type = "gone"
        BY <2>5, <4>1 DEF Release
      <4>2. CASE resources[k].type # "gone"
        BY <2>1, <2>5, <2>9, <2>10, <2>12, <4>2, ReleaseCounts
      <4> QED BY <4>1, <4>2
    <3> QED BY <2>7, <2>9, <2>12, <3>1 DEF Counted
  <2> QED BY <2>11, <2>12
<1> QED BY <1>1, <1>3, <1>4

(* Closing leaves the references of all other resources.                     *)
LEMMA CloseCounts == ASSUME Inv, RefInv, Close PROVE RefInv'
<1>1. PICK v \in Vars :
       /\ IsSet(v) /\ Fetches(v)
       /\ DeleteResource(ResourceOf(v))
       /\ closed' = closed \cup {ResourceOf(v)}
  BY DEF Close
<1>2. ~ended /\ UNCHANGED <<zvalOf, holds, opened, ended>>
  BY DEF Close
<1> DEFINE k == ResourceOf(v)
<1>3. k \in 1..opened /\ k \in Ids /\ resources[k].type = "rad_handle"
  BY <1>1, OpenedAreIds DEF Inv, VarInv, Fetches
<1>4. DeleteResource(k) /\ closed' = closed \cup {k}
  BY <1>1
<1> HIDE DEF k
<1>5. \A s \in Ids \ {k} : resources'[s] = resources[s]
  <2>1. CASE php7
    BY <1>3, <1>4, <2>1 DEF DeleteResource, ListClose, Inv, OwnInv
  <2>2. CASE ~php7
    BY <1>3, <1>4, <2>2, ReleaseCounts DEF DeleteResource, Inv
  <2> QED BY <2>1, <2>2
<1>6. \A r : ZvalsOf(r)' = ZvalsOf(r)
  BY <1>2 DEF ZvalsOf, InUse
<1>7. SUFFICES ASSUME NEW r \in (1..opened) \ closed' PROVE Counted(r)'
  BY <1>2 DEF RefInv
<1>8. r \in (1..opened) \ closed /\ r \in Ids \ {k}
  BY <1>4, <1>7, OpenedAreIds DEF Inv
<1>9. Counted(r)
  BY <1>2, <1>8 DEF RefInv
<1> QED BY <1>5, <1>6, <1>8, <1>9 DEF Counted

(* The other actions touch neither zvals nor resources.                      *)
LEMMA RefInvPreserved == Inv /\ RefInv /\ [Next]_vars => RefInv'
<1> SUFFICES ASSUME Inv, RefInv, [Next]_vars PROVE RefInv'
  OBVIOUS
<1>1. CASE Open
  <2>1. PICK v \in Vars : Register(v, "rad_handle", opened + 1)
    BY <1>1 DEF Open
  <2>2. ~ended /\ UNCHANGED <<closed, ended>>
    BY <1>1 DEF Open
  <2> QED BY <2>1, <2>2, RegisterCounts
<1>2. CASE OpenOther
  <2>1. PICK v \in Vars : Register(v, "stream", 0)
    BY <1>2 DEF OpenOther
  <2>2. ~ended /\ UNCHANGED <<closed, ended>>
    BY <1>2 DEF OpenOther
  <2> QED BY <2>1, <2>2, RegisterCounts
<1>3. CASE ReadConfig \/ AddServer \/ SendRequest \/ UNCHANGED vars
  <2>1. UNCHANGED <<engineVars, closed, ended>>
    BY <1>3 DEF ReadConfig, AddServer, SendRequest, SetServers, vars
  <2> QED BY <2>1 DEF RefInv, Counted, ZvalsOf, InUse, engineVars
<1>4. CASE EndRequest
  BY <1>4 DEF EndRequest, RefInv
<1>5. CASE NextRequest
  <2>1. opened' = 0
    BY <1>5 DEF NextRequest
  <2> QED BY <2>1 DEF RefInv
<1> QED BY <1>1, <1>2, <1>3, <1>4, <1>5, AssignCounts, UnsetCounts, CloseCounts DEF Next

(* Whatever a script does, a handle is on the heap exactly as long as one    *)
(* resource owns it, and a variable that holds a resource nobody has closed  *)
(* can use it.                                                               *)
THEOREM HandlesAreAlwaysOwned == Spec => []HandlesAreOwned
<1>1. Init => RefInv
  BY DEF Init, RefInv
<1>2. Inv /\ RefInv => HandlesAreOwned
  <2> SUFFICES ASSUME Inv, RefInv PROVE HandlesAreOwned
    OBVIOUS
  <2>1. ASSUME NEW h \in Ids PROVE Cardinality(Owners(h)) = IF Live(h) THEN 1 ELSE 0
    <3>1. Owners(h) = IF Live(h) THEN {h} ELSE {}
      BY DEF Inv, OwnInv, Owned, Owners
    <3> QED BY <3>1, FS_Singleton, FS_EmptySet
  <2>2. ASSUME NEW v \in Vars, IsSet(v), ResourceOf(v) \notin closed
        PROVE  resources[ResourceOf(v)].type \in {"rad_handle", "stream"}
    <3>1. ResourceOf(v) \in 1..opened /\ ~ended
      BY <2>2 DEF Inv, VarInv
    <3>2. zvalOf[v] \in ZvalsOf(ResourceOf(v))
      BY <2>2, HeldIsCounted DEF Inv
    <3> QED BY <2>2, <3>1, <3>2 DEF RefInv, Counted
  <2> QED BY <2>1, <2>2 DEF HandlesAreOwned
<1> QED BY <1>1, <1>2, InvAlways, RefInvPreserved, PTL DEF Spec

-----------------------------------------------------------------------------
(* What is on the heap: the secrets of the servers of live handles, and      *)
(* their sockets.                                                            *)

HeapOf(h) ==
  /\ handles[h].status \in {"none", "live", "freed"}
  /\ handles[h].type \in {"auth", "acct"}
  /\ handles[h].fd \in BOOLEAN
  /\ IsTable(handles[h].servers)
  /\ secrets[h] = IF Live(h) THEN Len(handles[h].servers) ELSE 0
  /\ h \in fds <=> Live(h) /\ handles[h].fd = TRUE
HeapInv ==
  /\ fds \subseteq Ids
  /\ secrets \in [Ids -> Nat]
  /\ \A h \in Ids : HeapOf(h)

(* No servers are a table.                                                   *)
LEMMA EmptyIsTable == IsTable(<< >>)
<1>1. << >> \in Seq({}) /\ Len(<< >>) = 0
  OBVIOUS
<1>2. IsSequence(<< >>)
  BY <1>1, SequencesAre
<1>3. \A i \in 1..Len(<< >>) : FALSE
  BY <1>1
<1> QED BY <1>1, <1>2, <1>3, ConfigAssumption DEF IsTable, ConfigAssumption

(* Tables have a length.                                                     *)
LEMMA TableHasLength == ASSUME NEW s, IsTable(s) PROVE Len(s) \in Nat
  BY SequenceHasLength DEF IsTable

(* rad_close releases what the handle has, and it alone.                     *)
LEMMA RadCloseHeap ==
  ASSUME OwnInv, HeapInv, NEW hs \in SUBSET Ids, RadClose(hs), \A h \in hs : Live(h)
  PROVE  HeapInv'
<1>1. /\ \A h \in Ids : handles'[h] = IF h \in hs THEN [handles[h] EXCEPT !.status = "freed"]
                                      ELSE handles[h]
      /\ fds' = fds \ {h \in hs : handles[h].fd}
      /\ secrets' = [h \in Ids |-> IF h \in hs THEN HeapAfterClose(h) ELSE secrets[h]]
  BY DEF RadClose
<1>2. \A h \in Ids : Shaped(handles[h])
  BY DEF OwnInv
<1>3. ASSUME NEW h \in Ids PROVE HeapOf(h)' /\ secrets'[h] \in Nat
  <2>1. HeapOf(h) /\ Len(handles[h].servers) \in Nat /\ secrets[h] \in Nat
    BY TableHasLength DEF HeapInv, HeapOf
  <2>2. CASE h \in hs
    <3>1. /\ handles'[h].status = "freed" /\ handles'[h].type = handles[h].type
          /\ handles'[h].servers = handles[h].servers /\ handles'[h].fd = handles[h].fd
      <4>1. handles'[h] = [handles[h] EXCEPT !.status = "freed"]
        BY <1>1, <2>2
      <4>2. Shaped(handles[h])
        BY <1>2
      <4> QED BY <4>1, <4>2, FreedShape
    <3>2. Live(h) /\ ~Live(h)'
      BY <2>2, <3>1 DEF Live
    <3>3. secrets'[h] = 0
      BY <1>1, <2>1, <2>2, <3>2 DEF HeapOf, HeapAfterClose
    <3>4. h \notin fds'
      <4>1. CASE handles[h].fd = TRUE
        BY <1>1, <2>2, <4>1
      <4>2. CASE handles[h].fd # TRUE
        BY <1>1, <2>1, <4>2 DEF HeapOf
      <4> QED BY <4>1, <4>2
    <3> QED BY <2>1, <3>1, <3>2, <3>3, <3>4 DEF HeapOf
  <2>3. CASE h \notin hs
    <3>1. handles'[h] = handles[h] /\ secrets'[h] = secrets[h] /\ (h \in fds' <=> h \in fds)
      BY <1>1, <2>3
    <3> QED BY <2>1, <3>1 DEF HeapOf, Live
  <2> QED BY <2>2, <2>3
<1>4. fds' \subseteq Ids
  BY <1>1 DEF HeapInv
<1>5. secrets' \in [Ids -> Nat]
  <2>1. secrets' = [h \in Ids |-> secrets'[h]]
    BY <1>1
  <2> QED BY <1>3, <2>1
<1> QED BY <1>3, <1>4, <1>5 DEF HeapInv

(* Steps that leave the heap alone.                                          *)
LEMMA HeapUnchanged ==
  ASSUME HeapInv, UNCHANGED <<handles, fds, secrets>> PROVE HeapInv'
  BY DEF HeapInv, HeapOf, Live

(* The destructor of a resource that owns a handle releases what the handle  *)
(* has.                                                                      *)
LEMMA DestructorHeap ==
  ASSUME OwnInv, HeapInv, NEW r \in Ids, Destructor(r) PROVE HeapInv'
<1>1. CASE resources[r].type = "rad_handle"
  <2>1. resources[r].ptr = r /\ Live(r)
    BY <1>1 DEF OwnInv, Owned
  <2>2. RadClose({r})
    BY <1>1, <2>1 DEF Destructor
  <2>3. {r} \in SUBSET Ids /\ \A h \in {r} : Live(h)
    BY <2>1
  <2> QED BY <2>2, <2>3, RadCloseHeap
<1>2. CASE resources[r].type # "rad_handle"
  BY <1>2, HeapUnchanged DEF Destructor, handleVars
<1> QED BY <1>1, <1>2

(* So does giving up the last reference.                                     *)
LEMMA ReleaseHeap ==
  ASSUME OwnInv, HeapInv, NEW r \in Ids, Release(r) PROVE HeapInv'
<1>1. CASE UNCHANGED handleVars
  BY <1>1, HeapUnchanged DEF handleVars
<1>2. CASE Destructor(r)
  BY <1>2, DestructorHeap
<1> QED BY <1>1, <1>2 DEF Release

(* So does closing, with either PHP.                                         *)
LEMMA DeleteHeap ==
  ASSUME OwnInv, HeapInv, NEW r \in Ids, DeleteResource(r) PROVE HeapInv'
  BY ReleaseHeap, DestructorHeap DEF DeleteResource, ListClose

(* A call that changes one handle that is live, and its secrets.             *)
LEMMA OneHandleHeap ==
  ASSUME OwnInv, HeapInv, NEW h \in Ids, NEW new, NEW n,
         handles' = [handles EXCEPT ![h] = new],
         secrets' = [secrets EXCEPT ![h] = n],
         \A g \in Ids \ {h} : g \in fds' <=> g \in fds,
         fds' \subseteq Ids,
         new.status = "live", new.type \in {"auth", "acct"}, new.fd \in BOOLEAN,
         IsTable(new.servers), n = Len(new.servers),
         h \in fds' <=> new.fd = TRUE
  PROVE  HeapInv'
<1>1. n \in Nat
  BY TableHasLength
<1>2. secrets' \in [Ids -> Nat] /\ secrets'[h] = n
  BY <1>1 DEF HeapInv
<1>3. handles'[h] = new
  BY DEF OwnInv
<1>4. ASSUME NEW g \in Ids PROVE HeapOf(g)'
  <2>1. CASE g = h
    BY <1>2, <1>3, <2>1 DEF HeapOf, Live
  <2>2. CASE g # h
    <3>1. handles'[g] = handles[g] /\ secrets'[g] = secrets[g] /\ (g \in fds' <=> g \in fds)
      BY <2>2 DEF OwnInv, HeapInv
    <3> QED BY <3>1 DEF HeapInv, HeapOf, Live
  <2> QED BY <2>1, <2>2
<1> QED BY <1>2, <1>4 DEF HeapInv

(* A new handle has neither secrets nor a socket.                            *)
LEMMA OpenHeap == ASSUME Inv, HeapInv, Open PROVE HeapInv'
<1>1. PICK v \in Vars, type \in {"auth", "acct"} :
        /\ Register(v, "rad_handle", opened + 1)
        /\ handles' = [handles EXCEPT ![opened'] = Opened(type)]
  BY DEF Open
<1>2. UNCHANGED <<fds, secrets>>
  BY DEF Open
<1>3. PICK h \in Ids : h = opened' /\ h > opened
  BY <1>1 DEF Register, Inv, OwnInv, Ids
<1>4. handles[h].status = "none"
  BY <1>3 DEF Inv, OwnInv, Owned
<1>5. secrets[h] = 0 /\ h \notin fds
  BY <1>4 DEF HeapInv, HeapOf, Live
<1> DEFINE new == Opened(type)
<1>6. /\ new.status = "live" /\ new.type = type
      /\ new.servers = << >> /\ new.fd = FALSE
  BY DEF Opened
<1>7. handles' = [handles EXCEPT ![h] = new]
  BY <1>1, <1>3
<1>8. secrets' = [secrets EXCEPT ![h] = 0]
  BY <1>2, <1>5 DEF HeapInv
<1> HIDE DEF new
<1>9. fds' \subseteq Ids /\ (\A g \in Ids \ {h} : g \in fds' <=> g \in fds) /\ h \notin fds'
  BY <1>2, <1>5 DEF HeapInv
<1>10. Len(new.servers) = 0 /\ IsTable(new.servers)
  BY <1>6, EmptyIsTable
<1> QED BY <1>6, <1>7, <1>8, <1>9, <1>10, OneHandleHeap DEF Inv

(* The handle that a variable reaches has not been freed.                    *)
LEMMA FetchedIsLive ==
  ASSUME Inv, HeapInv, NEW v \in Vars, IsSet(v), Fetches(v)
  PROVE  \E h \in Ids : h = HandleOf(v) /\ Live(h) /\ Shaped(handles[h]) /\ HeapOf(h)
<1>1. ResourceOf(v) \in Ids
  BY OpenedAreIds DEF Inv, VarInv
<1>2. HandleOf(v) = ResourceOf(v) /\ Live(ResourceOf(v))
  BY <1>1 DEF Inv, OwnInv, Owned, Fetches, HandleOf
<1> QED BY <1>1, <1>2 DEF Inv, OwnInv, HeapInv

(* Filling the server table allocates one secret for each server added.      *)
LEMMA SetServersHeap ==
  ASSUME Inv, HeapInv, NEW h \in Ids, Live(h), NEW servers, IsTable(servers),
         SetServers(h, servers)
  PROVE  HeapInv'
<1> DEFINE new == [handles[h] EXCEPT !.servers = servers]
           n == secrets[h] + Len(servers) - Len(handles[h].servers)
<1>1. HeapOf(h) /\ Shaped(handles[h])
  BY DEF Inv, OwnInv, HeapInv
<1>2. /\ new.status = "live" /\ new.type = handles[h].type
      /\ new.servers = servers /\ new.fd = handles[h].fd
  BY <1>1, ServersShape DEF Live
<1>3. handles' = [handles EXCEPT ![h] = new] /\ secrets' = [secrets EXCEPT ![h] = n]
  BY DEF SetServers, Inv, OwnInv, HeapInv
<1>4. n = Len(servers)
  <2>1. Len(servers) \in Nat /\ Len(handles[h].servers) \in Nat
    BY <1>1, TableHasLength DEF HeapOf
  <2>2. secrets[h] = Len(handles[h].servers)
    BY <1>1 DEF HeapOf
  <2> QED BY <2>1, <2>2
<1>5. UNCHANGED fds
  BY DEF SetServers
<1> HIDE DEF new, n
<1>6. new.type \in {"auth", "acct"} /\ new.fd \in BOOLEAN
  BY <1>1, <1>2 DEF HeapOf
<1>7. h \in fds' <=> new.fd = TRUE
  BY <1>1, <1>2, <1>5 DEF HeapOf
<1>8. fds' \subseteq Ids /\ \A g \in Ids \ {h} : g \in fds' <=> g \in fds
  BY <1>5 DEF HeapInv
<1> QED BY <1>2, <1>3, <1>4, <1>6, <1>7, <1>8, OneHandleHeap DEF Inv

(* A configuration file, also one that is read only in part.                 *)
LEMMA ReadConfigHeap == ASSUME Inv, HeapInv, ReadConfig PROVE HeapInv'
<1>1. PICK v \in Vars, file \in Files, garbage \in {"CR", "other"} :
        /\ IsSet(v) /\ Fetches(v)
        /\ SetServers(HandleOf(v),
                      Config(file, handles[HandleOf(v)].type,
                             handles[HandleOf(v)].servers, garbage).servers)
  BY DEF ReadConfig
<1>2. PICK h \in Ids : h = HandleOf(v) /\ Live(h) /\ HeapOf(h)
  BY <1>1, FetchedIsLive
<1>3. file \in Seq(Symbols)
  BY InputAssumption DEF InputAssumption
<1>4. IsTable(Config(file, handles[h].type, handles[h].servers, garbage).servers)
  BY <1>2, <1>3, ConfigKeepsTable DEF HeapOf
<1> QED BY <1>1, <1>2, <1>4, SetServersHeap

(* A server added by the script.                                             *)
LEMMA AddServerHeap == ASSUME Inv, HeapInv, AddServer PROVE HeapInv'
<1>1. PICK v \in Vars, s \in Added :
        /\ IsSet(v) /\ Fetches(v) /\ HasRoom(HandleOf(v))
        /\ SetServers(HandleOf(v),
                      Append(handles[HandleOf(v)].servers,
                             Server(s[1], 0, s[2], TIMEOUT, MAXTRIES)))
  BY DEF AddServer
<1>2. PICK h \in Ids : h = HandleOf(v) /\ Live(h) /\ HeapOf(h)
  BY <1>1, FetchedIsLive
<1> DEFINE new == Server(s[1], 0, s[2], TIMEOUT, MAXTRIES)
           had == handles[h].servers
<1>3. new.host \in KnownHosts
  BY InputAssumption DEF InputAssumption, Server
<1>4. IsTable(had) /\ Len(had) < MAXSERVERS
  BY <1>1, <1>2 DEF HeapOf, HasRoom
<1> HIDE DEF new, had
<1>5. IsTable(Append(had, new))
  <2> DEFINE T == ToSet(had) \cup {new}
  <2>1. had \in Seq(T) /\ new \in T
    BY <1>4 DEF IsTable, IsSequence
  <2> HIDE DEF T
  <2>2. /\ Append(had, new) \in Seq(T)
        /\ Len(Append(had, new)) = Len(had) + 1
        /\ Len(had) \in Nat
        /\ \A i \in 1..(Len(had) + 1) :
             Append(had, new)[i] = IF i <= Len(had) THEN had[i] ELSE new
    BY <2>1
  <2>3. IsSequence(Append(had, new))
    BY <2>2, SequencesAre
  <2>4. Len(Append(had, new)) <= MAXSERVERS
    BY <1>4, <2>2, ConfigAssumption DEF ConfigAssumption
  <2>5. ASSUME NEW i \in 1..Len(Append(had, new))
        PROVE  Append(had, new)[i].host \in KnownHosts
    <3>1. CASE i <= Len(had)
      BY <1>4, <2>2, <3>1 DEF IsTable
    <3>2. CASE i > Len(had)
      BY <1>3, <2>2, <3>2
    <3> QED BY <2>2, <3>1, <3>2
  <2> QED BY <2>3, <2>4, <2>5 DEF IsTable
<1>6. SetServers(h, Append(had, new))
  BY <1>1, <1>2 DEF had, new
<1> QED BY <1>2, <1>5, <1>6, SetServersHeap

(* The first send opens the socket.                                          *)
LEMMA SendRequestHeap == ASSUME Inv, HeapInv, SendRequest PROVE HeapInv'
<1>1. PICK v \in Vars :
        /\ IsSet(v) /\ Fetches(v)
        /\ handles' = [handles EXCEPT ![HandleOf(v)].fd = TRUE]
        /\ fds' = fds \cup {HandleOf(v)}
        /\ UNCHANGED secrets
  BY DEF SendRequest
<1>2. PICK h \in Ids : h = HandleOf(v) /\ Live(h) /\ Shaped(handles[h]) /\ HeapOf(h)
  BY <1>1, FetchedIsLive
<1> DEFINE new == [handles[h] EXCEPT !.fd = TRUE]
<1>3. /\ new.status = "live" /\ new.type = handles[h].type
      /\ new.servers = handles[h].servers /\ new.fd = TRUE
  BY <1>2, SocketShape DEF Live
<1>4. handles' = [handles EXCEPT ![h] = new]
  BY <1>1, <1>2 DEF Inv, OwnInv
<1> HIDE DEF new
<1>5. secrets[h] = Len(new.servers) /\ IsTable(new.servers) /\ new.type \in {"auth", "acct"}
  BY <1>2, <1>3 DEF HeapOf
<1>6. secrets' = [secrets EXCEPT ![h] = secrets[h]]
  BY <1>1 DEF HeapInv
<1>7. /\ fds' \subseteq Ids /\ h \in fds'
      /\ \A g \in Ids \ {h} : g \in fds' <=> g \in fds
  BY <1>1, <1>2 DEF HeapInv
<1> QED BY <1>3, <1>4, <1>5, <1>6, <1>7, OneHandleHeap DEF Inv

(* The end of the request releases whatever is left.                         *)
LEMMA EndRequestHeap == ASSUME Inv, HeapInv, EndRequest PROVE HeapInv'
<1>1. PICK hs \in SUBSET Ids : hs = {h \in Ids : Live(h)}
  OBVIOUS
<1>2. hs = {resources[r].ptr : r \in {r \in Ids : resources[r].type = "rad_handle"}}
  BY <1>1 DEF Inv, OwnInv, Owned
<1>3. RadClose(hs)
  BY <1>2 DEF EndRequest, RadClose
<1> QED BY <1>1, <1>3, RadCloseHeap DEF Inv

(* The next request begins with an empty heap.                               *)
LEMMA NextRequestHeap == ASSUME Inv, HeapInv, NextRequest PROVE HeapInv'
<1>1. /\ ended /\ handles' = [h \in Ids |-> NoHandle] /\ UNCHANGED <<fds, secrets>>
  BY DEF NextRequest
<1>2. /\ NoHandle.status = "none" /\ NoHandle.type = "auth"
      /\ NoHandle.servers = << >> /\ NoHandle.fd = FALSE
  BY DEF NoHandle
<1>3. ASSUME NEW h \in Ids PROVE HeapOf(h)'
  <2>1. ~Live(h)
    BY <1>1 DEF Inv, OwnInv, Owned
  <2>2. secrets'[h] = 0 /\ h \notin fds'
    BY <1>1, <2>1 DEF HeapInv, HeapOf
  <2>3. handles'[h] = NoHandle
    BY <1>1
  <2> QED BY <1>2, <2>2, <2>3, EmptyIsTable DEF HeapOf, Live
<1> QED BY <1>1, <1>3 DEF HeapInv

(* The heap is empty initially.                                              *)
LEMMA HeapInitially == Init => HeapInv
<1> SUFFICES ASSUME Init PROVE HeapInv
  OBVIOUS
<1>1. /\ NoHandle.status = "none" /\ NoHandle.type = "auth"
      /\ NoHandle.servers = << >> /\ NoHandle.fd = FALSE
  BY DEF NoHandle
<1>2. /\ \A h \in Ids : handles[h] = NoHandle /\ secrets[h] = 0
      /\ fds = {} /\ secrets \in [Ids -> Nat]
  BY DEF Init
<1>3. \A h \in Ids : HeapOf(h)
  BY <1>1, <1>2, EmptyIsTable DEF HeapOf, Live
<1> QED BY <1>2, <1>3 DEF HeapInv

(* HeapInv is inductive on top of Inv.                                       *)
LEMMA HeapPreserved == Inv /\ HeapInv /\ [Next]_vars => HeapInv'
<1> SUFFICES ASSUME Inv, HeapInv, [Next]_vars PROVE HeapInv'
  OBVIOUS
<1>1. CASE OpenOther \/ Assign \/ UNCHANGED vars
  <2>1. UNCHANGED <<handles, fds, secrets>>
    BY <1>1 DEF OpenOther, Assign, vars, handleVars
  <2> QED BY <2>1, HeapUnchanged
<1>2. CASE Unset
  <2>1. PICK v \in Vars : IsSet(v) /\ (Release(ResourceOf(v)) \/ UNCHANGED handleVars)
    BY <1>2 DEF Unset
  <2>2. ResourceOf(v) \in Ids
    BY <2>1, OpenedAreIds DEF Inv, VarInv
  <2>3. CASE Release(ResourceOf(v))
    BY <2>2, <2>3, ReleaseHeap DEF Inv
  <2>4. CASE UNCHANGED handleVars
    BY <2>4, HeapUnchanged DEF handleVars
  <2> QED BY <2>1, <2>3, <2>4
<1>3. CASE Close
  <2>1. PICK v \in Vars : IsSet(v) /\ DeleteResource(ResourceOf(v))
    BY <1>3 DEF Close
  <2>2. ResourceOf(v) \in Ids
    BY <2>1, OpenedAreIds DEF Inv, VarInv
  <2> QED BY <2>1, <2>2, DeleteHeap DEF Inv
<1> QED BY <1>1, <1>2, <1>3, OpenHeap, ReadConfigHeap, AddServerHeap, SendRequestHeap,
           EndRequestHeap, NextRequestHeap DEF Next

(* HeapInv holds in every reachable state.                                   *)
LEMMA HeapAlways == Spec => []HeapInv
  BY HeapInitially, HeapPreserved, InvAlways, PTL DEF Spec

(* Every copy of a secret on the heap belongs to a server of a live handle   *)
(* and every socket to a live handle, whatever files the script reads and    *)
(* wherever it ends; between requests there are none.                        *)
THEOREM NothingIsEverLeft == Spec => []NothingIsLeft
<1>1. Inv /\ HeapInv => NothingIsLeft
  <2> SUFFICES ASSUME Inv, HeapInv PROVE NothingIsLeft
    OBVIOUS
  <2>1. fds = {h \in Ids : Live(h) /\ handles[h].fd}
    <3>1. \A h \in Ids : h \in fds <=> Live(h) /\ handles[h].fd
      BY DEF HeapInv, HeapOf
    <3> QED BY <3>1 DEF HeapInv
  <2>2. \A h \in Ids : secrets[h] = IF Live(h) THEN Len(handles[h].servers) ELSE 0
    BY DEF HeapInv, HeapOf
  <2>3. ASSUME ended PROVE fds = {} /\ secrets = [h \in Ids |-> 0]
    <3>1. \A h \in Ids : ~Live(h)
      BY <2>3 DEF Inv, OwnInv, Owned
    <3>2. fds = {}
      BY <2>1, <3>1
    <3>3. \A h \in Ids : secrets[h] = 0
      BY <2>2, <3>1
    <3>4. secrets = [h \in Ids |-> 0]
      BY <3>3 DEF HeapInv
    <3> QED BY <3>2, <3>4
  <2> QED BY <2>1, <2>2, <2>3 DEF NothingIsLeft
<1> QED BY <1>1, InvAlways, HeapAlways, PTL

-----------------------------------------------------------------------------
(* No resource counts more references than there are zvals that hold it,     *)
(* closed or not: the invariant behind the range of refs.                    *)

Bounded(r) ==
  /\ resources[r].refs \in Nat /\ resources[r].refs <= Cardinality(ZvalsOf(r))
  /\ resources[r].type = "gone" => resources[r].refs = 0
RefBound == \A r \in Ids : Bounded(r)

(* A resource is held by at most as many zvals as there are variables.       *)
LEMMA ZvalsAreCounted ==
  ASSUME NEW r
  PROVE  /\ IsFiniteSet(ZvalsOf(r))
         /\ Cardinality(ZvalsOf(r)) \in 0..Cardinality(Vars)
<1>1. ZvalsOf(r) \in SUBSET Zvals
  BY DEF ZvalsOf
<1>2. Cardinality(Vars) \in Nat
  BY FS_CardinalityType
<1>3. IsFiniteSet(Zvals) /\ Cardinality(Zvals) = Cardinality(Vars)
  BY <1>2, FS_Interval DEF Zvals
<1>4. IsFiniteSet(ZvalsOf(r)) /\ Cardinality(ZvalsOf(r)) <= Cardinality(Zvals)
  BY <1>1, <1>3, FS_Subset
<1>5. Cardinality(ZvalsOf(r)) \in Nat
  BY <1>4, FS_CardinalityType
<1> QED BY <1>2, <1>3, <1>4, <1>5

(* What Release does to the references of any resource.                      *)
LEMMA ReleaseRefs ==
  ASSUME OwnInv, RefBound, NEW k \in Ids, Release(k)
  PROVE  /\ \A s \in Ids \ {k} : resources'[s] = resources[s]
         /\ \/ resources'[k].refs = 0
            \/ /\ resources[k].refs > 1 /\ resources'[k].refs = resources[k].refs - 1
               /\ resources'[k].type # "gone"
<1>1. resources \in [Ids -> Resource]
  BY DEF OwnInv
<1>2. CASE resources[k].type = "gone"
  BY <1>2 DEF Release, RefBound, Bounded
<1>3. CASE resources[k].type # "gone" /\ resources[k].refs > 1
  <2>1. resources' = [resources EXCEPT ![k].refs = @ - 1]
    BY <1>3 DEF Release
  <2> QED BY <1>1, <1>3, <2>1 DEF Resource
<1>4. CASE resources[k].type # "gone" /\ ~(resources[k].refs > 1)
  <2>1. resources' = [resources EXCEPT ![k] = [refs |-> 0, type |-> "gone", ptr |-> 0]]
    BY <1>4 DEF Release
  <2>2. resources'[k] = [refs |-> 0, type |-> "gone", ptr |-> 0]
    BY <1>1, <2>1
  <2>3. resources'[k].refs = 0
    BY <2>2
  <2>4. \A s \in Ids \ {k} : resources'[s] = resources[s]
    BY <1>1, <2>1
  <2> QED BY <2>3, <2>4
<1> QED BY <1>2, <1>3, <1>4

(* A new resource has the reference of the variable it is stored in.         *)
LEMMA RegisterBound ==
  ASSUME Inv, RefBound, NEW v \in Vars, NEW type \in {"rad_handle", "stream"}, NEW ptr,
         Register(v, type, ptr)
  PROVE  RefBound'
<1>1. PICK z \in Zvals :
        /\ ~IsSet(v) /\ ~InUse(z)
        /\ opened < MaxOpens
        /\ opened' = opened + 1
        /\ resources' = [resources EXCEPT ![opened'] =
                           [refs |-> 1, type |-> type, ptr |-> ptr]]
        /\ zvalOf' = [zvalOf EXCEPT ![v] = z]
        /\ holds' = [holds EXCEPT ![z] = opened']
  BY DEF Register
<1>2. opened \in Nat /\ opened' \in Ids
  BY <1>1 DEF Inv, OwnInv, Ids
<1>3. \A y \in Zvals : InUse(y)' <=> InUse(y) \/ y = z
  BY <1>1, ZeroIsNoZval DEF Inv, VarInv, InUse, IsSet
<1>4. \A y \in Zvals : InUse(y) => holds[y] \in 1..opened
  BY ZeroIsNoZval DEF Inv, VarInv, InUse, IsSet, ResourceOf
<1>5. \A y \in Zvals : holds'[y] = IF y = z THEN opened' ELSE holds[y]
  BY <1>1 DEF Inv, VarInv
<1>6. ASSUME NEW r \in Ids PROVE Bounded(r)'
  <2>1. CASE r = opened'
    <3>1. ZvalsOf(r)' = {z}
      BY <1>1, <1>2, <1>3, <1>4, <1>5, <2>1 DEF ZvalsOf
    <3>2. resources'[r] = [refs |-> 1, type |-> type, ptr |-> ptr]
      BY <1>1, <1>2, <2>1 DEF Inv, OwnInv
    <3>3. resources'[r].refs = 1 /\ resources'[r].type = type
      BY <3>2
    <3>4. Cardinality({z}) = 1
      BY FS_Singleton
    <3> QED BY <3>1, <3>3, <3>4 DEF Bounded
  <2>2. CASE r # opened'
    <3>1. ZvalsOf(r)' = ZvalsOf(r)
      BY <1>1, <1>3, <1>5, <2>2 DEF ZvalsOf
    <3>2. resources'[r] = resources[r]
      BY <1>1, <1>2, <2>2 DEF Inv, OwnInv
    <3> QED BY <3>1, <3>2 DEF RefBound, Bounded
  <2> QED BY <2>1, <2>2
<1> QED BY <1>6 DEF RefBound

(* An assignment moves a reference with the zval it is counted for.          *)
LEMMA AssignBound == ASSUME Inv, RefBound, Assign PROVE RefBound'
<1>1. PICK v \in Vars, w \in Vars :
       /\ IsSet(v) /\ ~IsSet(w)
       /\ \/ /\ zvalOf' = [zvalOf EXCEPT ![w] = zvalOf[v]]
             /\ UNCHANGED <<holds, resources>>
          \/ \E z \in Zvals :
               /\ ~InUse(z)
               /\ zvalOf' = [zvalOf EXCEPT ![w] = z]
               /\ holds' = [holds EXCEPT ![z] = ResourceOf(v)]
               /\ resources' = IF resources[ResourceOf(v)].type = "gone" THEN resources
                               ELSE [resources EXCEPT ![ResourceOf(v)].refs = @ + 1]
  BY DEF Assign
<1>2. CASE /\ zvalOf' = [zvalOf EXCEPT ![w] = zvalOf[v]]
           /\ UNCHANGED <<holds, resources>>
  <2>1. \A y \in Zvals : InUse(y)' <=> InUse(y)
    BY <1>1, <1>2, ZeroIsNoZval DEF Inv, VarInv, InUse, IsSet
  <2>2. \A r : ZvalsOf(r)' = ZvalsOf(r)
    BY <1>2, <2>1 DEF ZvalsOf
  <2> QED BY <1>2, <2>2 DEF RefBound, Bounded
<1>3. ASSUME NEW z \in Zvals, ~InUse(z),
             zvalOf' = [zvalOf EXCEPT ![w] = z],
             holds' = [holds EXCEPT ![z] = ResourceOf(v)],
             resources' = IF resources[ResourceOf(v)].type = "gone" THEN resources
                          ELSE [resources EXCEPT ![ResourceOf(v)].refs = @ + 1]
      PROVE  RefBound'
  <2>1. PICK k \in Ids : k = ResourceOf(v)
    BY <1>1, OpenedAreIds DEF Inv, VarInv
  <2>2. \A y \in Zvals : InUse(y)' <=> InUse(y) \/ y = z
    BY <1>1, <1>3, ZeroIsNoZval DEF Inv, VarInv, InUse, IsSet
  <2>3. \A y \in Zvals : holds'[y] = IF y = z THEN k ELSE holds[y]
    BY <1>3, <2>1 DEF Inv, VarInv
  <2>4. z \notin ZvalsOf(k) /\ ZvalsOf(k)' = ZvalsOf(k) \cup {z}
    BY <1>3, <2>2, <2>3 DEF ZvalsOf
  <2>5. \A r : r # k => ZvalsOf(r)' = ZvalsOf(r)
    BY <1>3, <2>2, <2>3 DEF ZvalsOf
  <2>6. Cardinality(ZvalsOf(k) \cup {z}) = Cardinality(ZvalsOf(k)) + 1
    BY <2>4, ZvalsAreCounted, FS_AddElement
  <2>7. Cardinality(ZvalsOf(k)) \in Nat
    BY ZvalsAreCounted, FS_CardinalityType
  <2>8. /\ resources'[k].type = resources[k].type
        /\ IF resources[k].type = "gone" THEN resources'[k].refs = resources[k].refs
           ELSE resources'[k].refs = resources[k].refs + 1
    BY <1>3, <2>1 DEF Inv, OwnInv, Resource
  <2>9. \A r \in Ids \ {k} : resources'[r] = resources[r]
    BY <1>3, <2>1 DEF Inv, OwnInv
  <2>10. Bounded(k)'
    BY <2>4, <2>6, <2>7, <2>8 DEF RefBound, Bounded
  <2>11. \A r \in Ids \ {k} : Bounded(r)'
    BY <2>5, <2>9 DEF RefBound, Bounded
  <2> QED BY <2>10, <2>11 DEF RefBound
<1> QED BY <1>1, <1>2, <1>3

(* Unsetting gives up a reference where there is one.                        *)
LEMMA UnsetBound == ASSUME Inv, RefBound, Unset PROVE RefBound'
<1>1. PICK v \in Vars :
       /\ IsSet(v)
       /\ zvalOf' = [zvalOf EXCEPT ![v] = 0]
       /\ IF \E w \in Vars \ {v} : zvalOf[w] = zvalOf[v]
            THEN UNCHANGED <<holds, resources, handleVars>>
            ELSE /\ Release(ResourceOf(v))
                 /\ holds' = [holds EXCEPT ![zvalOf[v]] = 0]
  BY DEF Unset
<1>2. CASE /\ \E w \in Vars \ {v} : zvalOf[w] = zvalOf[v]
           /\ UNCHANGED <<holds, resources, handleVars>>
  <2>1. \A y \in Zvals : InUse(y)' <=> InUse(y)
    BY <1>1, <1>2, ZeroIsNoZval DEF Inv, VarInv, InUse, IsSet
  <2>2. \A r : ZvalsOf(r)' = ZvalsOf(r)
    BY <1>2, <2>1 DEF ZvalsOf
  <2> QED BY <1>2, <2>2 DEF RefBound, Bounded
<1>3. CASE /\ \A w \in Vars \ {v} : zvalOf[w] # zvalOf[v]
           /\ Release(ResourceOf(v))
           /\ holds' = [holds EXCEPT ![zvalOf[v]] = 0]
  <2>0. PICK z \in Zvals : z = zvalOf[v]
    BY <1>1 DEF Inv, VarInv, IsSet
  <2>1. PICK k \in Ids : k = ResourceOf(v)
    BY <1>1, OpenedAreIds DEF Inv, VarInv
  <2>2. \A y \in Zvals : InUse(y)' <=> InUse(y) /\ y # z
    BY <1>1, <1>3, <2>0, ZeroIsNoZval DEF Inv, VarInv, InUse, IsSet
  <2>3. \A y \in Zvals : y # z => holds'[y] = holds[y]
    BY <1>3, <2>0 DEF Inv, VarInv
  <2>4. holds[z] = k /\ z \in ZvalsOf(k)
    BY <1>1, <2>0, <2>1, HeldIsCounted DEF ResourceOf, Inv
  <2>5. /\ \A s \in Ids \ {k} : resources'[s] = resources[s]
        /\ \/ resources'[k].refs = 0
           \/ /\ resources[k].refs > 1 /\ resources'[k].refs = resources[k].refs - 1
              /\ resources'[k].type # "gone"
    BY <1>3, <2>1, ReleaseRefs DEF Inv
  <2>6. ZvalsOf(k)' = ZvalsOf(k) \ {z}
    BY <2>2, <2>3 DEF ZvalsOf
  <2>7. \A r : r # k => ZvalsOf(r)' = ZvalsOf(r)
    BY <2>2, <2>3, <2>4 DEF ZvalsOf
  <2>8. /\ Cardinality(ZvalsOf(k) \ {z}) = Cardinality(ZvalsOf(k)) - 1
        /\ Cardinality(ZvalsOf(k) \ {z}) \in Nat
    <3>1. IsFiniteSet(ZvalsOf(k))
      BY ZvalsAreCounted
    <3>2. IsFiniteSet(ZvalsOf(k) \ {z})
      BY <3>1, FS_RemoveElement
    <3> QED BY <2>4, <3>1, <3>2, FS_RemoveElement, FS_CardinalityType
  <2>9. Bounded(k)'
    <3>1. Cardinality(ZvalsOf(k)) \in Nat
      BY ZvalsAreCounted, FS_CardinalityType
    <3> QED BY <2>5, <2>6, <2>8, <3>1 DEF RefBound, Bounded
  <2>10. \A r \in Ids \ {k} : Bounded(r)'
    BY <2>5, <2>7 DEF RefBound, Bounded
  <2> QED BY <2>9, <2>10 DEF RefBound
<1> QED BY <1>1, <1>2, <1>3

(* Closing never adds references.                                            *)
LEMMA CloseBound == ASSUME Inv, RefBound, Close PROVE RefBound'
<1>1. PICK v \in Vars : IsSet(v) /\ DeleteResource(ResourceOf(v))
  BY DEF Close
<1>2. PICK k \in Ids : k = ResourceOf(v)
  BY <1>1, OpenedAreIds DEF Inv, VarInv
<1>3. \A r : ZvalsOf(r)' = ZvalsOf(r)
  BY DEF Close, ZvalsOf, InUse
<1>4. /\ \A s \in Ids \ {k} : resources'[s] = resources[s]
      /\ \/ resources'[k].refs = 0
         \/ /\ resources'[k].refs \in Nat /\ resources'[k].refs <= resources[k].refs
            /\ resources'[k].type # "gone"
  <2>1. CASE php7
    <3>1. resources' = [resources EXCEPT ![k] =
                          [refs |-> resources[k].refs, type |-> "closed", ptr |-> 0]]
      BY <1>1, <1>2, <2>1 DEF DeleteResource, ListClose, Inv, OwnInv
    <3>2. resources'[k] = [refs |-> resources[k].refs, type |-> "closed", ptr |-> 0]
      BY <1>2, <3>1 DEF Inv, OwnInv
    <3>3. resources'[k].refs = resources[k].refs /\ resources'[k].type = "closed"
      BY <3>2
    <3>4. \A s \in Ids \ {k} : resources'[s] = resources[s]
      BY <3>1 DEF Inv, OwnInv
    <3> QED BY <3>3, <3>4 DEF RefBound, Bounded
  <2>2. CASE ~php7
    BY <1>1, <1>2, <2>2, ReleaseRefs DEF DeleteResource, Inv, RefBound, Bounded
  <2> QED BY <2>1, <2>2
<1>5. Bounded(k)'
  <2>1. Cardinality(ZvalsOf(k)) \in Nat
    BY ZvalsAreCounted, FS_CardinalityType
  <2> QED BY <1>3, <1>4, <2>1 DEF RefBound, Bounded
<1>6. \A r \in Ids \ {k} : Bounded(r)'
  BY <1>3, <1>4 DEF RefBound, Bounded
<1> QED BY <1>5, <1>6 DEF RefBound

(* A number nothing was opened with has no references.                       *)
LEMMA NoResourceBound ==
  ASSUME NEW r, resources[r] = NoResource PROVE Bounded(r)
<1>1. Cardinality(ZvalsOf(r)) \in Nat
  BY ZvalsAreCounted, FS_CardinalityType
<1>2. NoResource.refs = 0 /\ NoResource.type = "none"
  BY DEF NoResource
<1> QED BY <1>1, <1>2 DEF Bounded

(* RefBound is inductive on top of Inv.                                      *)
LEMMA RefBoundPreserved == Inv /\ RefBound /\ [Next]_vars => RefBound'
<1> SUFFICES ASSUME Inv, RefBound, [Next]_vars PROVE RefBound'
  OBVIOUS
<1>1. CASE Open \/ OpenOther
  BY <1>1, RegisterBound DEF Open, OpenOther
<1>2. CASE ReadConfig \/ AddServer \/ SendRequest \/ NextRequest \/ UNCHANGED vars
  <2>1. UNCHANGED <<zvalOf, holds, resources>>
    BY <1>2 DEF ReadConfig, AddServer, SendRequest, NextRequest, SetServers, vars, engineVars
  <2>2. \A r : ZvalsOf(r)' = ZvalsOf(r)
    BY <2>1 DEF ZvalsOf, InUse
  <2> QED BY <2>1, <2>2 DEF RefBound, Bounded
<1>3. CASE EndRequest
  <2>1. \A r \in Ids : resources'[r] = NoResource
    BY <1>3 DEF EndRequest
  <2>2. ASSUME NEW r \in Ids PROVE Bounded(r)'
    <3>1. ZvalsOf(r)' = {}
      BY <1>3, ZeroIsNoZval DEF EndRequest, ZvalsOf, InUse
    <3>2. NoResource.refs = 0
      BY DEF NoResource
    <3> QED BY <2>1, <3>1, <3>2, FS_EmptySet DEF Bounded
  <2> QED BY <2>2 DEF RefBound
<1> QED BY <1>1, <1>2, <1>3, AssignBound, UnsetBound, CloseBound DEF Next

(* Type correctness: every handle keeps a table of at most MAXSERVERS        *)
(* servers whose hosts were found, whatever is in the configuration files.   *)
THEOREM ScriptTypeCorrect == Spec => []ScriptTypeOK
<1>1. Init => RefBound
  <2> SUFFICES ASSUME Init PROVE RefBound
    OBVIOUS
  <2>1. \A r \in Ids : resources[r] = NoResource
    BY DEF Init
  <2> QED BY <2>1, NoResourceBound DEF RefBound
<1>2. Inv /\ HeapInv /\ RefBound /\ php7 \in BOOLEAN /\ ended \in BOOLEAN => ScriptTypeOK
  <2> SUFFICES ASSUME Inv, HeapInv, RefBound, php7 \in BOOLEAN, ended \in BOOLEAN
               PROVE  ScriptTypeOK
    OBVIOUS
  <2>1. Cardinality(Vars) \in Nat
    BY FS_CardinalityType
  <2>2. zvalOf \in [Vars -> 0..Cardinality(Vars)] /\ holds \in [Zvals -> 0..MaxOpens]
    BY <2>1 DEF Inv, VarInv, Zvals
  <2>3. ASSUME NEW r \in Ids
        PROVE  /\ resources[r].refs \in 0..Cardinality(Vars)
               /\ resources[r].type \in Types
               /\ resources[r].ptr \in 0..MaxOpens
    <3>1. resources[r] \in Resource
      BY DEF Inv, OwnInv
    <3>2. Cardinality(ZvalsOf(r)) \in 0..Cardinality(Vars)
      BY ZvalsAreCounted
    <3>3. resources[r].refs \in Nat /\ resources[r].refs <= Cardinality(ZvalsOf(r))
      BY DEF RefBound, Bounded
    <3>4. resources[r].refs \in 0..Cardinality(Vars)
      BY <2>1, <3>2, <3>3
    <3> QED BY <3>1, <3>4 DEF Resource
  <2>4. \A h \in Ids :
          /\ handles[h].status \in {"none", "live", "freed"}
          /\ handles[h].type \in {"auth", "acct"} /\ handles[h].fd \in BOOLEAN
          /\ Len(handles[h].servers) <= MAXSERVERS
          /\ \A i \in 1..Len(handles[h].servers) : handles[h].servers[i].host \in KnownHosts
    BY DEF HeapInv, HeapOf, IsTable
  <2>5. fds \subseteq Ids /\ closed \subseteq Ids
    BY OpenedAreIds DEF Inv, ClosedInv, HeapInv
  <2>6. secrets \in [Ids -> Nat] /\ releases \in [Ids -> Nat] /\ opened \in 0..MaxOpens
    BY DEF Inv, OwnInv, HeapInv
  <2> QED BY <2>2, <2>3, <2>4, <2>5, <2>6 DEF ScriptTypeOK, Types
<1>3. Init => php7 \in BOOLEAN /\ ended \in BOOLEAN
  BY DEF Init
<1>4. php7 \in BOOLEAN /\ ended \in BOOLEAN /\ [Next]_vars => (php7 \in BOOLEAN /\ ended \in BOOLEAN)'
  BY DEF Next, Open, OpenOther, Assign, Unset, Close, ReadConfig, AddServer, SendRequest,
         SetServers, EndRequest, NextRequest, vars
<1> QED BY <1>1, <1>2, <1>3, <1>4, InvAlways, HeapAlways, RefBoundPreserved, PTL DEF Spec

-----------------------------------------------------------------------------
(* Configuration files.                                                      *)

(* A file of entries is read back, for entries, comments and mistakes of     *)
(* every form and length that fits into the line buffer.  (rad_config)       *)
THEOREM FilesAlwaysReadBack == Spec => []ConfigReadsWritten
<1>1. ConfigReadsWritten
  BY ShortFilesAreReadBack DEF ConfigReadsWritten
<1> QED BY <1>1, PTL

(* A line without its newline loses the character in place of it, and is     *)
(* refused only behind a carriage return, for every size of the buffer.      *)
THEOREM LineEndIsAlwaysCut == Spec => []LineEndIsCut
<1>1. LineEndIsCut
  BY LinesAreAlwaysCut DEF LineEndIsCut
<1> QED BY <1>1, PTL
=============================================================================
