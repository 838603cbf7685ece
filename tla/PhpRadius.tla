----------------------------- MODULE PhpRadius ------------------------------
(* The life of a rad_handle in a PHP script: radius_auth_open and            *)
(* radius_acct_open wrap it in a resource, the script copies and unsets the  *)
(* variables that hold it, closes it, or ends; the handle meanwhile collects *)
(* secrets (radius_config, radius_add_server) and a socket                   *)
(* (radius_send_request), all of which rad_close has to release.             *)
(*                                                                           *)
(* PHP 7 counts references in the resource and keeps a closed one until the  *)
(* last is gone; PHP 5 refers to it by number, and closing is giving up one  *)
(* reference (pecl-compat/src/zend_resource.h).  The script may end at any   *)
(* point: the engine then destroys every resource that is left.              *)
EXTENDS RadConfig, FiniteSets

CONSTANTS
  Vars,      \* variables of the script
  MaxOpens,  \* bound: resources opened in a request
  Files,     \* the configuration files the script reads
  Added      \* <<host, secret>> of the servers it adds, with a host that is known

ASSUME ScriptAssumption == MaxOpens \in Nat /\ IsFiniteSet(Vars)
ASSUME InputAssumption ==
  /\ \A file \in Files : file \in Seq(Symbols)
  /\ \A s \in Added : s[1] \in KnownHosts

VARIABLES
  php7,       \* built for PHP 7, not PHP 5
  zvalOf,     \* zvalOf[v]: the zval of variable v, 0 if it is not set
  holds,      \* holds[z]: the number of the resource zval z holds
  resources,  \* the resources of the request
  opened,     \* how many there are
  handles,    \* handles[h]: a rad_handle
  fds,        \* sockets the process has open, by handle
  secrets,    \* secrets[h]: copies of secrets on the heap
  releases,   \* releases[h]: how often h was given to rad_close
  closed,     \* resources radius_close has returned true for
  ended       \* the request is over

engineVars == <<zvalOf, holds, resources, opened>>
handleVars == <<handles, fds, secrets, releases>>
vars == <<php7, engineVars, handleVars, closed, ended>>

Zvals == 1..Cardinality(Vars)
Ids == 1..MaxOpens

NoResource == [refs |-> 0, type |-> "none", ptr |-> 0]
Opened(type) == [status |-> "live", type |-> type, servers |-> << >>, fd |-> FALSE]
NoHandle == [status |-> "none", type |-> "auth", servers |-> << >>, fd |-> FALSE]

-----------------------------------------------------------------------------
(* rad_close and the destructor.                                             *)

(* Mutant: the secret of the last server is kept.                            *)
HeapAfterCloseOffByOne(h) ==
  secrets[h] - (IF handles[h].servers = << >> THEN 0 ELSE Len(handles[h].servers) - 1)

HeapAfterClose(h) == secrets[h] - Len(handles[h].servers)

(* rad_close for a set of handles: at the end of a request there are many.   *)
RadClose(hs) ==
  /\ handles' = [h \in Ids |-> IF h \in hs THEN [handles[h] EXCEPT !.status = "freed"]
                               ELSE handles[h]]
  /\ fds' = fds \ {h \in hs : handles[h].fd}
  /\ secrets' = [h \in Ids |-> IF h \in hs THEN HeapAfterClose(h) ELSE secrets[h]]
  /\ releases' = [h \in Ids |-> releases[h] + (IF h \in hs THEN 1 ELSE 0)]

(* Mutant: registered for persistent resources, which these are not.         *)
DestructorOfPersistent(r) == UNCHANGED handleVars

(* _radius_close, for a resource that still has its type.                    *)
Destructor(r) ==
  IF resources[r].type = "rad_handle" THEN RadClose({resources[r].ptr})
  ELSE UNCHANGED handleVars

(* One reference less; the last one takes the resource out of the list.      *)
Release(r) ==
  IF resources[r].type = "gone" \/ resources[r].refs > 1
    THEN /\ resources' = IF resources[r].type = "gone" THEN resources
                         ELSE [resources EXCEPT ![r].refs = @ - 1]
         /\ UNCHANGED handleVars
    ELSE /\ Destructor(r)
         /\ resources' = [resources EXCEPT ![r] = [refs |-> 0, type |-> "gone", ptr |-> 0]]

(* zend_list_close of PHP 7: the destructor runs, whatever the references.   *)
ListClose(r) ==
  /\ Destructor(r)
  /\ resources' = [resources EXCEPT ![r] = [refs |-> @.refs, type |-> "closed", ptr |-> 0]]

(* Mutant: the function of PHP 5 on both.                                    *)
DeleteAsInPhp5(r) == Release(r)

(* Mutant: the handle is closed and the resource left to the engine.         *)
DeleteOnlyHandle(r) == RadClose({resources[r].ptr}) /\ UNCHANGED resources

(* compat_zend_delete_resource                                               *)
DeleteResource(r) == IF php7 THEN ListClose(r) ELSE Release(r)

-----------------------------------------------------------------------------
(* Variables of the script.                                                  *)

IsSet(v) == zvalOf[v] # 0
ResourceOf(v) == holds[zvalOf[v]]
InUse(z) == \E v \in Vars : zvalOf[v] = z

(* compat_zend_register_resource, and the assignment of what it returns.     *)
Register(v, type, ptr) ==
  \E z \in Zvals :
    /\ ~IsSet(v) /\ ~InUse(z)
    /\ opened < MaxOpens
    /\ opened' = opened + 1
    /\ resources' = [resources EXCEPT ![opened'] = [refs |-> 1, type |-> type, ptr |-> ptr]]
    /\ zvalOf' = [zvalOf EXCEPT ![v] = z]
    /\ holds' = [holds EXCEPT ![z] = opened']

(* radius_auth_open, radius_acct_open                                        *)
Open ==
  /\ ~ended
  /\ \E v \in Vars, type \in {"auth", "acct"} :
       /\ Register(v, "rad_handle", opened + 1)
       /\ handles' = [handles EXCEPT ![opened'] = Opened(type)]
  /\ UNCHANGED <<php7, fds, secrets, releases, closed, ended>>

(* A resource of another kind: opendir in tests/radius_close.phpt.           *)
OpenOther ==
  /\ ~ended
  /\ \E v \in Vars : Register(v, "stream", 0)
  /\ UNCHANGED <<php7, handleVars, closed, ended>>

(* $w = $v shares the zval (PHP 5, or a reference), or copies it.            *)
Assign ==
  /\ ~ended
  /\ \E v, w \in Vars :
       /\ IsSet(v) /\ ~IsSet(w)
       /\ \/ /\ zvalOf' = [zvalOf EXCEPT ![w] = zvalOf[v]]
             /\ UNCHANGED <<holds, resources>>
          \/ \E z \in Zvals :
               /\ ~InUse(z)
               /\ zvalOf' = [zvalOf EXCEPT ![w] = z]
               /\ holds' = [holds EXCEPT ![z] = ResourceOf(v)]
               /\ resources' = IF resources[ResourceOf(v)].type = "gone" THEN resources
                               ELSE [resources EXCEPT ![ResourceOf(v)].refs = @ + 1]
  /\ UNCHANGED <<php7, opened, handleVars, closed, ended>>

(* unset($v), or the end of its scope.                                       *)
Unset ==
  /\ ~ended
  /\ \E v \in Vars :
       /\ IsSet(v)
       /\ zvalOf' = [zvalOf EXCEPT ![v] = 0]
       /\ IF \E w \in Vars \ {v} : zvalOf[w] = zvalOf[v]
            THEN UNCHANGED <<holds, resources, handleVars>>
            ELSE /\ Release(ResourceOf(v))
                 /\ holds' = [holds EXCEPT ![zvalOf[v]] = 0]
  /\ UNCHANGED <<php7, opened, closed, ended>>

-----------------------------------------------------------------------------
(* The functions of the extension.                                           *)

(* RADIUS_FETCH_RESOURCE: the resource is in the list and has its type; any  *)
(* other one makes the function return false.                                *)
Fetches(v) == resources[ResourceOf(v)].type = "rad_handle"
HandleOf(v) == resources[ResourceOf(v)].ptr

(* radius_close                                                              *)
Close ==
  /\ ~ended
  /\ \E v \in Vars :
       /\ IsSet(v) /\ Fetches(v)
       /\ DeleteResource(ResourceOf(v))
       /\ closed' = closed \cup {ResourceOf(v)}
  /\ UNCHANGED <<php7, zvalOf, holds, opened, ended>>

(* The servers of a handle are now these; every secret is a copy.            *)
SetServers(h, servers) ==
  /\ handles' = [handles EXCEPT ![h].servers = servers]
  /\ secrets' = [secrets EXCEPT ![h] = @ + Len(servers) - Len(handles[h].servers)]
  /\ UNCHANGED <<php7, engineVars, fds, releases, closed, ended>>

(* radius_config of a file that can be opened.                               *)
ReadConfig ==
  /\ ~ended
  /\ \E v \in Vars, file \in Files, garbage \in {"CR", "other"} :
       /\ IsSet(v) /\ Fetches(v)
       /\ LET h == HandleOf(v)
          IN  SetServers(h, Config(file, handles[h].type, handles[h].servers,
                                   garbage).servers)

(* Mutant: the check of the table's size is off by one.                      *)
HasRoomOffByOne(h) == Len(handles[h].servers) <= MAXSERVERS

HasRoom(h) == Len(handles[h].servers) < MAXSERVERS

(* radius_add_server of a host that can be found.                            *)
AddServer ==
  /\ ~ended
  /\ \E v \in Vars, s \in Added :
       /\ IsSet(v) /\ Fetches(v) /\ HasRoom(HandleOf(v))
       /\ SetServers(HandleOf(v), Append(handles[HandleOf(v)].servers,
                                         Server(s[1], 0, s[2], TIMEOUT, MAXTRIES)))

(* radius_send_request, as far as the socket goes: made on the first call,   *)
(* and closed again if it cannot be bound.                                   *)
SendRequest ==
  /\ ~ended
  /\ \E v \in Vars :
       /\ IsSet(v) /\ Fetches(v) /\ ~handles[HandleOf(v)].fd
       /\ handles' = [handles EXCEPT ![HandleOf(v)].fd = TRUE]
       /\ fds' = fds \cup {HandleOf(v)}
  /\ UNCHANGED <<php7, engineVars, secrets, releases, closed, ended>>

(* The end of the request, at the end of the script or in the middle of it:  *)
(* the resources left in the list are destroyed.                             *)
EndRequest ==
  /\ ~ended
  /\ ended' = TRUE
  /\ RadClose({resources[r].ptr : r \in {r \in Ids : resources[r].type = "rad_handle"}})
  /\ resources' = [r \in Ids |-> NoResource]
  /\ zvalOf' = [v \in Vars |-> 0]
  /\ holds' = [z \in Zvals |-> 0]
  /\ closed' = {}
  /\ UNCHANGED <<php7, opened>>

(* The process serves the next request.                                      *)
NextRequest ==
  /\ ended
  /\ ended' = FALSE
  /\ opened' = 0
  /\ handles' = [h \in Ids |-> NoHandle]
  /\ releases' = [h \in Ids |-> 0]
  /\ UNCHANGED <<php7, zvalOf, holds, resources, fds, secrets, closed>>

Init ==
  /\ php7 \in BOOLEAN
  /\ zvalOf = [v \in Vars |-> 0]
  /\ holds = [z \in Zvals |-> 0]
  /\ resources = [r \in Ids |-> NoResource]
  /\ opened = 0
  /\ handles = [h \in Ids |-> NoHandle]
  /\ fds = {}
  /\ secrets = [h \in Ids |-> 0]
  /\ releases = [h \in Ids |-> 0]
  /\ closed = {}
  /\ ended = FALSE

Next == Open \/ OpenOther \/ Assign \/ Unset \/ Close \/ ReadConfig \/ AddServer
          \/ SendRequest \/ EndRequest \/ NextRequest

Spec == Init /\ [][Next]_vars

-----------------------------------------------------------------------------
(* Properties.                                                               *)

(* Every variable has its type; a handle never has more servers than its     *)
(* table, and only ones whose host was found.                                *)
ScriptTypeOK ==
  /\ php7 \in BOOLEAN /\ ended \in BOOLEAN
  /\ zvalOf \in [Vars -> 0..Cardinality(Vars)]
  /\ holds \in [Zvals -> 0..MaxOpens]
  /\ opened \in 0..MaxOpens
  /\ \A r \in Ids :
       /\ resources[r].refs \in 0..Cardinality(Vars)
       /\ resources[r].type \in {"none", "rad_handle", "stream", "closed", "gone"}
       /\ resources[r].ptr \in 0..MaxOpens
  /\ \A h \in Ids :
       /\ handles[h].status \in {"none", "live", "freed"}
       /\ handles[h].type \in {"auth", "acct"} /\ handles[h].fd \in BOOLEAN
       /\ Len(handles[h].servers) <= MAXSERVERS
       /\ \A i \in 1..Len(handles[h].servers) : handles[h].servers[i].host \in KnownHosts
  /\ fds \subseteq Ids /\ closed \subseteq Ids
  /\ secrets \in [Ids -> Nat] /\ releases \in [Ids -> Nat]

Live(h) == handles[h].status = "live"
Owners(h) ==
  {r \in Ids : resources[r].type = "rad_handle" /\ resources[r].ptr = h}

(* A handle is on the heap exactly as long as a resource owns it, and then   *)
(* one does: whatever the order of copies, unset, radius_close and the end   *)
(* of the script, no function can reach a handle that has been freed, and    *)
(* none is lost.  A variable that holds a resource nobody closed can use it. *)
(* (radius_close, _radius_close, RADIUS_FETCH_RESOURCE)                      *)
HandlesAreOwned ==
  /\ \A h \in Ids : Cardinality(Owners(h)) = IF Live(h) THEN 1 ELSE 0
  /\ \A v \in Vars : IsSet(v) /\ ResourceOf(v) \notin closed =>
       resources[ResourceOf(v)].type \in {"rad_handle", "stream"}

(* No handle is given to rad_close twice, by radius_close and the destructor *)
(* of its resource, or by closing two variables that hold it.                *)
(* (compat_zend_delete_resource, _radius_close)                              *)
ReleasedOnce ==
  \A h \in Ids : releases[h] = IF handles[h].status = "freed" THEN 1 ELSE 0

(* Every copy of a secret on the heap belongs to a server of a live handle,  *)
(* every socket to a live handle; when the request is over there are none.   *)
(* (rad_close, rad_config, rad_add_server)                                   *)
NothingIsLeft ==
  /\ fds = {h \in Ids : Live(h) /\ handles[h].fd}
  /\ \A h \in Ids : secrets[h] = IF Live(h) THEN Len(handles[h].servers) ELSE 0
  /\ ended => fds = {} /\ secrets = [h \in Ids |-> 0]

(* With PHP 7, once radius_close has returned true, no variable that holds   *)
(* the resource reaches the handle again, however many there are.  With      *)
(* PHP 5 a copy still does: its zval keeps the handle open.                  *)
(* (compat_zend_delete_resource)                                             *)
ClosedIsClosed ==
  php7 => \A v \in Vars : IsSet(v) /\ ResourceOf(v) \in closed => ~Fetches(v)

(* A file of entries is read back: the handle keeps the servers it had, gets *)
(* those of its own kind in order, and all of them if the call succeeds.     *)
(* Comments and blank lines change nothing.  A mistake makes the call fail,  *)
(* whatever kind of handle reads it, with the servers in front of it added   *)
(* and none behind it; so does a table that is full.  (rad_config, split)    *)
(* It is a fact about rad_config alone, looked at where a request begins.    *)
ConfigReadsWritten == opened = 0 /\ ~ended => FilesReadBack

(* What comes of a line without its newline, at the end of the file or where *)
(* the buffer is full: the character in place of the newline is lost, and    *)
(* what follows is a line of its own.  The messages "line too long" and      *)
(* "missing newline" are for a line with a carriage return before that       *)
(* character, and for no other.  (rad_config's test of buf[len - 1])         *)
LineEndIsCut == opened = 0 /\ ~ended => LinesAreCut
=============================================================================
