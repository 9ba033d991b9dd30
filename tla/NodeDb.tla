--------------------------------- MODULE NodeDb ---------------------------------
(***************************************************************************)
(* The credential database of one user in the external flash               *)
(* (main_mcu/src/NODEMGMT/nodemgmt.c), as logic_user_store_credential and  *)
(* logic_database.c use it.                                                *)
(*                                                                         *)
(* A service is a parent node, one slot of the flash; a login is a child   *)
(* node, two slots in a row.  The services of a user form a doubly linked  *)
(* list sorted by name that starts in the user profile; the logins of a    *)
(* service form another one that starts in its parent node.  An operation  *)
(* is a sequence of block writes, and the power can go between any two.    *)
(***************************************************************************)
EXTENDS Integers, SequencesExt

CONSTANTS
  NSlots,      \* node slots of the flash, in the order nodemgmt_find_free_nodes scans
  Services,    \* names of services, numbers that sort as the names do
  Logins,      \* names of logins, likewise
  MaxCuts,     \* bound on the power cuts in the middle of an operation
  MaxDeletes   \* bound on the deletions of the user

ASSUME NSlotsAssumption == NSlots \in Nat \ {0}
ASSUME NamesAssumption ==
  /\ Services \cup Logins \subseteq Nat \ {0} /\ IsFiniteSet(Services \cup Logins)
  /\ Services # {} /\ Logins # {}
ASSUME BoundsAssumption == MaxCuts \in Nat /\ MaxDeletes \in Nat

Nil == 0       \* NODE_ADDR_NULL
Profile == 0   \* the user profile, which no address points to: its "child" is
               \* the start address of the list of services
Slots == 1..NSlots
Addresses == Slots \cup {Nil}

VARIABLES
  flash,       \* the blocks of the flash: user profile and node slots
  freeParent,  \* handle.nextParentFreeNode (RAM)
  freeChild,   \* handle.nextChildFreeNode (RAM)
  session,     \* a user is logged in
  request,     \* the service and login of the operation under way
  parentAddr,  \* the parent node its login goes under
  phase,       \* which part of it is being written
  todo,        \* the block writes that part has left
  acked,       \* history: credentials whose storing was reported a success
  cuts,        \* history: power cuts in the middle of an operation
  deletes      \* history: deletions of the user

vars == <<flash, freeParent, freeChild, session, request, parentAddr,
          phase, todo, acked, cuts, deletes>>

Kinds == {"profile", "free", "parent", "child", "second"}
Nodes == [kind : Kinds, prev : Addresses, next : Addresses, child : Addresses,
          name : Services \cup Logins \cup {0}]
Writes == [at : {Profile} \cup Slots, node : Nodes]

TypeOK ==
  /\ flash \in [{Profile} \cup Slots -> Nodes]
  /\ freeParent \in Addresses
  /\ freeChild \in Addresses
  /\ session \in BOOLEAN
  /\ request \in Services \X Logins
  /\ parentAddr \in Addresses
  /\ phase \in {"idle", "service", "login", "credential", "erase"}
  /\ todo \in Seq(Writes)
  /\ acked \in SUBSET (Services \X Logins)
  /\ cuts \in 0..MaxCuts
  /\ deletes \in 0..MaxDeletes

Blank(kind) == [kind |-> kind, prev |-> Nil, next |-> Nil, child |-> Nil, name |-> 0]
AnyRequest == CHOOSE r \in Services \X Logins : TRUE

Init ==
  /\ flash = [s \in {Profile} \cup Slots |-> Blank(IF s = Profile THEN "profile" ELSE "free")]
  /\ freeParent = Nil
  /\ freeChild = Nil
  /\ session = FALSE
  /\ request = AnyRequest
  /\ parentAddr = Nil
  /\ phase = "idle"
  /\ todo = <<>>
  /\ acked = {}
  /\ cuts = 0
  /\ deletes = 0

-----------------------------------------------------------------------------
(* Reading the lists *)

\* Enough steps to reach the end of a list whose names differ: as many as there
\* are names.
Steps == 0..Cardinality(Services \cup Logins)

\* The addresses a loop over the list of owner goes through, Nil after the last.
Walk(owner) ==
  LET nth[k \in Steps] ==
        IF k = 0 THEN flash[owner].child
        ELSE LET s == nth[k - 1] IN IF s = Nil THEN Nil ELSE flash[s].next
  IN nth

Listed(owner) == LET w == Walk(owner) IN {w[k] : k \in Steps} \ {Nil}

\* Where a loop that looks for name in a sorted list stops.
StopAt(owner, name) ==
  LET w == Walk(owner)
  IN Min({k \in Steps : w[k] = Nil \/ flash[w[k]].name >= name})

\* logic_database_search_service and logic_database_search_login_in_service:
\* the address of a node, or Nil.
Search(owner, name) ==
  LET at == Walk(owner)[StopAt(owner, name)]
  IN IF at # Nil /\ flash[at].name = name THEN at ELSE Nil

\* What the host and the menus can see of the database.
Credentials ==
  UNION {{<<flash[p].name, flash[c].name>> : c \in Listed(p)} : p \in Listed(Profile)}

-----------------------------------------------------------------------------
(* nodemgmt_scan_node_usage: the first free slot for a parent node from the   *)
(* last one known, and the next two free slots in a row for a child node      *)

IsFree(s) == s \in Slots /\ flash[s].kind = "free"
ScanStart == IF freeParent = Nil THEN 1 ELSE freeParent
FreeParents == {s \in ScanStart..NSlots : IsFree(s)}

FreeChildren == {s \in Slots : s > Min(FreeParents) /\ IsFree(s) /\ IsFree(s + 1)}
ScanFails == FreeParents = {} \/ FreeChildren = {}

\* Mutant: the addresses just used are handed out again.
ScanNodeUsageOnce ==
  /\ freeParent' = IF freeParent # Nil THEN freeParent
                   ELSE IF ScanFails THEN Nil ELSE Min(FreeParents)
  /\ freeChild' = IF freeParent # Nil THEN freeChild
                  ELSE IF ScanFails THEN Nil ELSE Min(FreeChildren)

ScanNodeUsage ==
  /\ freeParent' = IF ScanFails THEN Nil ELSE Min(FreeParents)
  /\ freeChild' = IF ScanFails THEN Nil ELSE Min(FreeChildren)

-----------------------------------------------------------------------------
(* nodemgmt_create_generic_node: the block writes that put a node in the list *)
(* of owner                                                                   *)

FreeSlot(kind) == IF kind = "child" THEN freeChild ELSE freeParent

\* It fails when no slot is free or the name is in the list already.
CanCreate(owner, kind, name) ==
  FreeSlot(kind) # Nil /\ Search(owner, name) = Nil

After(owner, name) == Walk(owner)[StopAt(owner, name)]

\* The node that is going to link to the new one: the back link of the node
\* after it, or the last of the list.
Before(owner, name) ==
  LET stop == StopAt(owner, name)
  IN IF After(owner, name) # Nil THEN flash[After(owner, name)].prev
     ELSE IF stop = 0 THEN Nil ELSE Walk(owner)[stop - 1]

Write(at, node) == <<[at |-> at, node |-> node]>>
When(condition, writes) == IF condition THEN writes ELSE <<>>

\* Mutant: the rest of the list is forgotten.
NodeWritesLoseRest(owner, kind, name) ==
  LET node == [kind |-> kind, prev |-> Before(owner, name), next |-> Nil,
               child |-> Nil, name |-> name]
  IN Write(FreeSlot(kind), node)
     \o When(kind = "child", Write(FreeSlot(kind) + 1, Blank("second")))

\* The new node, and the second half of a child.
NodeWrites(owner, kind, name) ==
  LET node == [kind |-> kind, prev |-> Before(owner, name), next |-> After(owner, name),
               child |-> Nil, name |-> name]
  IN Write(FreeSlot(kind), node)
     \o When(kind = "child", Write(FreeSlot(kind) + 1, Blank("second")))

\* Mutant: the back link of the node after the new one stays as it was.
NeighbourWritesNoBackLink(owner, kind, name) ==
  When(Before(owner, name) # Nil,
       Write(Before(owner, name), [flash[Before(owner, name)] EXCEPT !.next = FreeSlot(kind)]))

\* The links to it, the back link first.
NeighbourWrites(owner, kind, name) ==
  LET after == After(owner, name)
      before == Before(owner, name)
  IN When(after # Nil, Write(after, [flash[after] EXCEPT !.prev = FreeSlot(kind)]))
     \o When(before # Nil, Write(before, [flash[before] EXCEPT !.next = FreeSlot(kind)]))

\* Mutant: the head of the list is only written when the list was empty.
HeadWritesEmptyOnly(owner, kind, name) ==
  When(flash[owner].child = Nil, Write(owner, [flash[owner] EXCEPT !.child = FreeSlot(kind)]))

\* The head of the list, in the profile or in the parent node, if it changes.
HeadWrites(owner, kind, name) ==
  When(StopAt(owner, name) = 0, Write(owner, [flash[owner] EXCEPT !.child = FreeSlot(kind)]))

\* Mutant: the links are written before the node they point to.
CreateWritesLinksFirst(owner, kind, name) ==
  NeighbourWrites(owner, kind, name) \o HeadWrites(owner, kind, name)
  \o NodeWrites(owner, kind, name)

CreateWrites(owner, kind, name) ==
  NodeWrites(owner, kind, name) \o NeighbourWrites(owner, kind, name)
  \o HeadWrites(owner, kind, name)

-----------------------------------------------------------------------------
(* nodemgmt_delete_current_user_from_flash: the block writes *)

Erase(s) == Write(s, Blank("free"))
EraseChildren(p) ==
  LET w == Walk(p)
      n == Min({k \in Steps : w[k] = Nil})
  IN FlattenSeq([i \in 1..n |-> Erase(w[i - 1]) \o Erase(w[i - 1] + 1)])

\* Both nodes are read into one buffer, and the loop over the logins leaves the
\* last of them in it: the link to the next service is taken from that login.
NextToErase(p) ==
  LET w == Walk(p)
      n == Min({k \in Steps : w[k] = Nil})
  IN IF n = 0 THEN flash[p].next ELSE flash[w[n - 1]].next

EraseWrites ==
  LET parent[k \in Steps] ==
        IF k = 0 THEN flash[Profile].child
        ELSE LET p == parent[k - 1] IN IF p = Nil THEN Nil ELSE NextToErase(p)
      n == Min({k \in Steps : parent[k] = Nil})
  IN Write(Profile, Blank("profile"))
     \o FlattenSeq([i \in 1..n |-> EraseChildren(parent[i - 1]) \o Erase(parent[i - 1])])

-----------------------------------------------------------------------------
(* Operations *)

\* nodemgmt_init_context.  The free slots of an earlier session are still in RAM.
Login ==
  /\ ~session
  /\ session' = TRUE
  /\ ScanNodeUsage
  /\ UNCHANGED <<flash, request, parentAddr, phase, todo, acked, cuts, deletes>>

Logout ==
  /\ session
  /\ phase = "idle"
  /\ session' = FALSE
  /\ UNCHANGED <<flash, freeParent, freeChild, request, parentAddr, phase, todo, acked, cuts, deletes>>

Begin(newPhase, writes) ==
  /\ phase' = newPhase
  /\ todo' = writes
  /\ UNCHANGED acked

Report(success) ==
  /\ phase' = "idle"
  /\ todo' = <<>>
  /\ acked' = IF success THEN acked \cup {request'} ELSE acked

\* nodemgmt_create_child_node for the login of the request.
AddCredential(p, login) ==
  IF CanCreate(p, "child", login)
    THEN Begin("credential", CreateWrites(p, "child", login))
    ELSE Report(FALSE)

\* logic_user_store_credential, approved by the user.  A login that exists gets
\* its new password in place.
StoreCredential(service, login) ==
  /\ session
  /\ phase = "idle"
  /\ request' = <<service, login>>
  /\ LET p == Search(Profile, service)
     IN IF p = Nil
          THEN IF CanCreate(Profile, "parent", service)
                 THEN Begin("service", CreateWrites(Profile, "parent", service))
                 ELSE Report(FALSE)
          ELSE IF Search(p, login) # Nil THEN Report(TRUE) ELSE AddCredential(p, login)
  /\ UNCHANGED <<flash, freeParent, freeChild, session, parentAddr, cuts, deletes>>

\* One block write.  dbflash programs a page from a buffer of the flash chip.
WriteBlock ==
  /\ todo # <<>>
  /\ flash' = [flash EXCEPT ![Head(todo).at] = Head(todo).node]
  /\ todo' = Tail(todo)
  /\ acked' = IF phase = "erase" THEN {} ELSE acked
  /\ UNCHANGED <<freeParent, freeChild, session, request, parentAddr, phase, cuts, deletes>>

\* The service is in place: rescan (in the code just before the head of the list
\* is written, which leaves the free slots alone) ...
ServiceWritten ==
  /\ phase = "service"
  /\ todo = <<>>
  /\ phase' = "login"
  /\ parentAddr' = freeParent
  /\ ScanNodeUsage
  /\ UNCHANGED <<flash, session, request, todo, acked, cuts, deletes>>

\* ... and go on with the login, under the address the service was written to.
StoreLogin ==
  /\ phase = "login"
  /\ request' = request
  /\ AddCredential(parentAddr, request[2])
  /\ UNCHANGED <<flash, freeParent, freeChild, session, parentAddr, cuts, deletes>>

CredentialWritten ==
  /\ phase = "credential"
  /\ todo = <<>>
  /\ request' = request
  /\ Report(TRUE)
  /\ ScanNodeUsage
  /\ UNCHANGED <<flash, session, parentAddr, cuts, deletes>>

\* The user is erased from the menu: profile first, then the nodes.
DeleteUser ==
  /\ session
  /\ phase = "idle"
  /\ deletes < MaxDeletes
  /\ deletes' = deletes + 1
  /\ phase' = "erase"
  /\ todo' = EraseWrites
  /\ UNCHANGED <<flash, freeParent, freeChild, session, request, parentAddr, acked, cuts>>

\* The device locks; whoever logs in next starts from a blank profile.
UserDeleted ==
  /\ phase = "erase"
  /\ todo = <<>>
  /\ phase' = "idle"
  /\ session' = FALSE
  /\ UNCHANGED <<flash, freeParent, freeChild, request, parentAddr, todo, acked, cuts, deletes>>

PowerCut ==
  /\ phase # "idle" => cuts < MaxCuts
  /\ cuts' = IF phase = "idle" THEN cuts ELSE cuts + 1
  /\ freeParent' = Nil
  /\ freeChild' = Nil
  /\ session' = FALSE
  /\ request' = AnyRequest
  /\ parentAddr' = Nil
  /\ phase' = "idle"
  /\ todo' = <<>>
  /\ UNCHANGED <<flash, acked, deletes>>

Next ==
  \/ Login
  \/ Logout
  \/ \E service \in Services, login \in Logins : StoreCredential(service, login)
  \/ WriteBlock
  \/ ServiceWritten
  \/ StoreLogin
  \/ CredentialWritten
  \/ DeleteUser
  \/ UserDeleted
  \/ PowerCut

Spec == Init /\ [][Next]_vars

-----------------------------------------------------------------------------
(* Properties *)

SortedList(owner, kind) ==
  \A s \in Listed(owner) :
    /\ flash[s].kind = kind
    /\ flash[s].next # Nil => flash[s].name < flash[flash[s].next].name

\* At every instant, between any two block writes and after any power cut, what
\* the loops of logic_database.c walk through from the user profile is a list of
\* parent nodes in strictly rising order, and from each of them a list of whole
\* child nodes in strictly rising order: no search meets an erased slot, loops
\* for ever or stops too early.
ListsSorted ==
  /\ SortedList(Profile, "parent")
  /\ \A p \in Listed(Profile) :
       SortedList(p, "child") /\ \A c \in Listed(p) : flash[c + 1].kind = "second"

BackLinked(owner) ==
  \A s \in Listed(owner) :
    /\ s = flash[owner].child => flash[s].prev = Nil
    /\ flash[s].next # Nil => flash[flash[s].next].prev = s

\* nodemgmt_create_generic_node "handles necessary doubly linked list management":
\* between two operations, as long as no power cut hit one, every back link is the
\* inverse of a forward link.  The next insertion relies on it.
BackLinks ==
  phase = "idle" /\ cuts = 0 =>
    BackLinked(Profile) /\ \A p \in Listed(Profile) : BackLinked(p)

\* Whenever a node can be created, the addresses kept in RAM by the last scan are
\* still free in the flash and do not overlap, so no node is overwritten: across
\* sessions, full flash, and the deletion of a user.
FreeSlotsFree ==
  session /\ phase \in {"idle", "login"} /\ freeParent # Nil =>
    /\ IsFree(freeParent) /\ IsFree(freeChild) /\ IsFree(freeChild + 1)
    /\ freeParent \notin {freeChild, freeChild + 1}

\* No step but the deletion of the user takes a credential away from the lists:
\* storing one never loses another, wherever the power is cut.
NothingLost ==
  [][phase # "erase" => Credentials \subseteq Credentials']_vars

\* Until a power cut in the middle of an operation, the database implements the set it
\* stands for: a credential appears at one instant, success is reported after it, and
\* nothing but the deletion of the user changes what can be found otherwise.  (After one,
\* NothingLost holds and AckedIsStored does not.)
Store == INSTANCE CredentialStore WITH creds <- Credentials
ImplementsStore == Store!Init /\ [][cuts' = 0 => Store!Next]_<<Credentials, acked>>

\* A credential whose storing was reported a success ("\return success status") is
\* in the lists, at once and after any power cut between operations.
AckedIsStored == acked \subseteq Credentials

Used == UNION {{p} \cup UNION {{c, c + 1} : c \in Listed(p)} : p \in Listed(Profile)}

\* Without power cuts, every slot that is not free belongs to a node that can be
\* reached: failures for lack of space do not use up the flash.
NoLeak ==
  phase = "idle" /\ cuts = 0 /\ deletes = 0 => \A s \in Slots : IsFree(s) \/ s \in Used

\* "Delete user data from flash ... browse through all the credentials to delete
\* them" (nodemgmt.c).
DeletedUserLeavesNothing ==
  phase = "erase" /\ todo = <<>> /\ cuts = 0 /\ deletes = 1 => \A s \in Slots : IsFree(s)
=============================================================================
