---------------------------- MODULE ContactGroups ----------------------------
(***************************************************************************)
(* Contacts and groups of one account (every query names the account).     *)
(* A group lists its contacts and a contact lists its groups, in documents *)
(* of two collections that ContactsService and GroupsService write one     *)
(* after the other, with requests of the same account running between.     *)
(*                                                                         *)
(* A step is the code between two awaits of a request.  The database keeps *)
(* one contact per formatted number (contact.schema.ts: the unique index); *)
(* names of contacts, tags and notes are left out, and so is the list of   *)
(* phones, which nothing reads back.                                       *)
(***************************************************************************)
EXTENDS Naturals, Sequences, FiniteSets

CONSTANTS
    Numbers,      \* phone numbers
    Unformatted,  \* those formatPhoneNumber changes: stored with a "+" in front
    Contacts,     \* ids of contacts
    Groups,       \* ids of groups
    Names,        \* names of groups
    Lists,        \* the lists of numbers a request may hold
    Calls,        \* room for concurrent requests
    MaxFaults     \* bound: writes that fail

None   == "none"
Unborn == "unborn"
Gone   == "gone"

ASSUME ContactGroupsAssumption ==
    /\ {None, Unborn, Gone} \cap (Numbers \cup Contacts \cup Groups \cup Names) = {}
    /\ Unformatted \subseteq Numbers
    /\ Lists \subseteq Seq(Numbers) \ {<<>>}
    /\ MaxFaults \in Nat

VARIABLES
    number,   \* the number of a contact, or Unborn or Gone
    linked,   \* the groups a contact lists
    name,     \* the name of a group, or Unborn or Gone
    members,  \* the contacts a group lists
    calls,    \* requests in progress
    torn,     \* history: the pairs of contact and group that one side has and the other
              \* was not given, by a write that failed or by a request for the contact alone
    faults

contactDocs == <<number, linked>>
groupDocs   == <<name, members>>
vars        == <<contactDocs, groupDocs, calls, torn, faults>>

-----------------------------------------------------------------------------

Contact(c) == number[c] \in Numbers
Group(g)   == name[g] \in Names
Elems(s)   == {s[i] : i \in DOMAIN s}

\* The contacts findOne may answer for a formatted number.
WithNumber(n) == {c \in Contacts : number[c] = n}
Taken(n, c)   == WithNumber(n) \ {c} # {}

Pairs(cs, g) == {<<c, g>> : c \in cs}

\* The lists of groups a request may give a contact it writes: a request for the contact
\* itself may hold a list (CreateContactDto, UpdateContactDto), which nothing checks; one
\* for a group leaves the contact's own.
GivenGroups(r, c) ==
    IF r.op \in {"contact", "import", "edit"} THEN SUBSET {g \in Groups : name[g] # Unborn}
    ELSE {linked[c]}

\* The contact lists these groups from now on, and no group hears of it.
Regroup(c, gs) ==
    /\ linked' = [linked EXCEPT ![c] = gs]
    /\ torn' = torn \cup {<<c, g>> : g \in (gs \ linked[c]) \cup (linked[c] \ gs)}

\* A request: the group and the members it has read, the numbers still to do, the contact
\* at hand and the contacts to add.
Call(op, pc, g, t, read, todo, c, adds) ==
    [op |-> op, pc |-> pc, group |-> g, name |-> t, read |-> read, todo |-> todo,
     contact |-> c, adds |-> adds]
NoCall == Call("none", "idle", None, None, <<>>, <<>>, None, <<>>)

Begin(k, call) == calls[k] = NoCall /\ calls' = [calls EXCEPT ![k] = call]
End(k)         == calls' = [calls EXCEPT ![k] = NoCall]
Goto(k, pc, c) ==
    calls' = [calls EXCEPT ![k] =
                Call(@.op, pc, @.group, @.name, @.read, @.todo, c, @.adds)]

\* Where a request goes when its list is done.
Last(k, adds) ==
    IF calls[k].op = "create" /\ calls[k].group # None /\ adds = <<>> THEN "idle"
    ELSE IF calls[k].op = "update" /\ adds # <<>> THEN "link" ELSE "save"

\* The contacts to add, with c unless the group had it when it was read.
ToAdd(r, c) == IF c = None \/ c \in Elems(r.read) THEN r.adds ELSE Append(r.adds, c)

\* The number at hand is done, with contact c, or None if there is no contact for it.
Done(k, c) ==
    LET r    == calls[k]
        adds == ToAdd(r, c)
        pc   == IF Len(r.todo) > 1 THEN "find" ELSE Last(k, adds)
    IN IF r.op \in {"contact", "edit"} \/ (r.op = "import" /\ Len(r.todo) = 1) \/ pc = "idle"
       THEN End(k)
       ELSE calls' = [calls EXCEPT ![k] =
                        Call(r.op, pc, r.group, r.name, r.read, Tail(r.todo), None,
                             IF r.op = "import" THEN <<>> ELSE adds)]

\* An exception ends the request, or the item of an import.
Fail(k) == IF calls[k].op = "import" THEN Done(k, None) ELSE End(k)

-----------------------------------------------------------------------------
(* Requests *)

\* GroupsService.create: a group of that name is extended, else a new one is made.
CreateGroup(k, t, list) ==
    /\ \/ \E g \in Groups :
            name[g] = t /\ Begin(k, Call("create", "find", g, t, members[g], list, None, <<>>))
       \/ (\A g \in Groups : name[g] # t)
            /\ Begin(k, Call("create", "find", None, t, <<>>, list, None, <<>>))
    /\ UNCHANGED <<contactDocs, groupDocs, torn, faults>>

\* GroupsService.updateGroup, for a group that is there; None or its own name changes none.
UpdateGroup(k, g, t, list) ==
    /\ Group(g) /\ t # name[g]
    /\ Begin(k, Call("update", "find", g, t, members[g], list, None, <<>>))
    /\ UNCHANGED <<contactDocs, groupDocs, torn, faults>>

\* updateGroup without numbers, for a name or, with None or its own, for the time alone.
RenameGroup(k, g, t) ==
    /\ Group(g) /\ t # name[g]
    /\ Begin(k, Call("update", "save", g, t, members[g], <<>>, None, <<>>))
    /\ UNCHANGED <<contactDocs, groupDocs, torn, faults>>

\* ContactsService.create; bulkImport; updateContact with a number.
CreateContact(k, n) ==
    /\ Begin(k, Call("contact", "lookup", None, None, <<>>, <<n>>, None, <<>>))
    /\ UNCHANGED <<contactDocs, groupDocs, torn, faults>>

BulkImport(k, list) ==
    /\ Begin(k, Call("import", "find", None, None, <<>>, list, None, <<>>))
    /\ UNCHANGED <<contactDocs, groupDocs, torn, faults>>

EditContact(k, c, n) ==
    /\ number[c] # Unborn
    /\ Begin(k, Call("edit", "check", None, None, <<>>, <<n>>, c, <<>>))
    /\ UNCHANGED <<contactDocs, groupDocs, torn, faults>>

-----------------------------------------------------------------------------
(* One number of a list *)

\* updateGroup updates a contact whose name or number is not what was sent: a number that
\* is stored with a "+" always differs, another contact may, by its name.
MayNeedUpdate(r)  == r.op = "update"
MustNeedUpdate(r) == r.op = "update" /\ Head(r.todo) \in Unformatted

\* findByPhoneNumber.  When updateGroup finds none and the group has contacts, it goes on
\* with the first of them.
FindMember(k) ==
    LET r == calls[k]
        n == Head(r.todo)
    IN
    /\ r.pc = "find"
    /\ \/ \E c \in WithNumber(n) :
            \/ MayNeedUpdate(r) /\ Goto(k, "check", c)
            \/ ~MustNeedUpdate(r) /\ Done(k, c)
       \/ /\ WithNumber(n) = {}
          /\ Goto(k, IF r.op = "update" /\ r.read # <<>> THEN "first"
                     ELSE IF r.op = "import" THEN "insert" ELSE "lookup", None)
    /\ UNCHANGED <<contactDocs, groupDocs, torn, faults>>

\* findContactById throws for a contact that was deleted.
FindContactById(k, c) == IF Contact(c) THEN Goto(k, "check", c) ELSE Fail(k)

\* existingGroup.contacts.find with an async predicate takes the first contact.
TakeFirst(k) ==
    /\ calls[k].pc = "first"
    /\ FindContactById(k, Head(calls[k].read))
    /\ UNCHANGED <<contactDocs, groupDocs, torn, faults>>

\* updateContact: the contact exists and no other has the number.
CheckNumber(k) ==
    LET r == calls[k] IN
    /\ r.pc = "check"
    /\ IF Contact(r.contact) /\ ~Taken(Head(r.todo), r.contact)
       THEN Goto(k, "write", r.contact)
       ELSE Fail(k)
    /\ UNCHANGED <<contactDocs, groupDocs, torn, faults>>

\* Mutant: a number that another contact has is written as well.
WriteNumberUnchecked(k) ==
    LET r == calls[k] IN
    /\ r.pc = "write"
    /\ number' = [number EXCEPT ![r.contact] = Head(r.todo)] /\ Done(k, r.contact)
    /\ \E gs \in GivenGroups(r, r.contact) : Regroup(r.contact, gs)
    /\ UNCHANGED <<groupDocs, faults>>

\* findByIdAndUpdate answers null for a contact deleted since, and the index may refuse;
\* it writes the whole request, with its list of groups.
WriteNumber(k) ==
    LET r == calls[k] IN
    /\ r.pc = "write"
    /\ IF ~Contact(r.contact) THEN Done(k, None) /\ UNCHANGED <<contactDocs, torn>>
       ELSE IF Taken(Head(r.todo), r.contact) THEN Fail(k) /\ UNCHANGED <<contactDocs, torn>>
       ELSE /\ number' = [number EXCEPT ![r.contact] = Head(r.todo)]
            /\ \E gs \in GivenGroups(r, r.contact) : Regroup(r.contact, gs)
            /\ Done(k, r.contact)
    /\ UNCHANGED <<groupDocs, faults>>

\* ContactsService.create looks the number up as it was sent.
LookUp(k) ==
    LET n == Head(calls[k].todo) IN
    /\ calls[k].pc = "lookup"
    /\ \/ n \notin Unformatted /\ \E c \in WithNumber(n) : Done(k, c)
       \/ (n \in Unformatted \/ WithNumber(n) = {}) /\ Goto(k, "insert", None)
    /\ UNCHANGED <<contactDocs, groupDocs, torn, faults>>

\* The insertion, which the index refuses for a number that is there; with the groups of
\* the request, or none.
InsertContact(k) ==
    LET n == Head(calls[k].todo) IN
    /\ calls[k].pc = "insert"
    /\ \/ WithNumber(n) # {} /\ Fail(k) /\ UNCHANGED <<contactDocs, torn>>
       \/ /\ WithNumber(n) = {}
          /\ \E c \in Contacts :
               /\ number[c] = Unborn
               /\ number' = [number EXCEPT ![c] = n]
               /\ \E gs \in GivenGroups(calls[k], c) : Regroup(c, gs)
               /\ Done(k, c)
    /\ UNCHANGED <<groupDocs, faults>>

-----------------------------------------------------------------------------
(* The two writes of a membership *)

\* Mutant: save writes the list that was read.
AddMembersOfRead(k, g) ==
    members' = [members EXCEPT ![g] = calls[k].read \o calls[k].adds]

\* save sends the pushes made to the list that was read, not the list ($push).
AddMembers(k, g) ==
    members' = [members EXCEPT ![g] = @ \o calls[k].adds]

\* save rejects: the group is gone or the database is.
SaveFails(k) ==
    LET r == calls[k] IN
    \/ r.group # None /\ ~Group(r.group) /\ UNCHANGED faults
    \/ faults < MaxFaults /\ faults' = faults + 1

\* create saves the new or extended group first.
SaveCreated(k) ==
    LET r == calls[k] IN
    /\ r.op = "create" /\ r.pc = "save"
    /\ \/ /\ r.group = None
          /\ \E g \in Groups :
               /\ name[g] = Unborn
               /\ name' = [name EXCEPT ![g] = r.name] /\ AddMembers(k, g)
               /\ calls' = [calls EXCEPT ![k] =
                              Call("create", "link", g, r.name, <<>>, <<>>, None, r.adds)]
       \/ /\ r.group # None /\ Group(r.group)
          /\ AddMembers(k, r.group) /\ UNCHANGED name
          /\ Goto(k, "link", None)
    /\ UNCHANGED <<contactDocs, torn, faults>>

\* A failed save of a group that exists is logged, and the contacts are given the group.
SaveCreatedFails(k) ==
    LET r == calls[k] IN
    /\ r.op = "create" /\ r.pc = "save"
    /\ SaveFails(k)
    /\ IF r.group = None THEN End(k) /\ UNCHANGED torn
       ELSE Goto(k, "link", None) /\ torn' = torn \cup Pairs(Elems(r.adds), r.group)
    /\ UNCHANGED <<contactDocs, groupDocs>>

\* updateGroup saves it last, with its new name.
SaveUpdated(k) ==
    LET r == calls[k] IN
    /\ r.op = "update" /\ r.pc = "save" /\ Group(r.group)
    /\ AddMembers(k, r.group)
    /\ name' = [name EXCEPT ![r.group] = IF r.name = None THEN @ ELSE r.name]
    /\ End(k)
    /\ UNCHANGED <<contactDocs, torn, faults>>

SaveUpdatedFails(k) ==
    LET r == calls[k] IN
    /\ r.op = "update" /\ r.pc = "save"
    /\ SaveFails(k)
    /\ torn' = torn \cup Pairs(Elems(r.adds), r.group)
    /\ End(k)
    /\ UNCHANGED <<contactDocs, groupDocs>>

\* Mutant: only the contact added last is given the group.
LinkLast(k) ==
    LET r == calls[k] IN
    /\ r.pc = "link"
    /\ linked' = [linked EXCEPT ![r.adds[Len(r.adds)]] = @ \cup {r.group}]
    /\ IF r.op = "create" THEN End(k) ELSE Goto(k, "save", None)
    /\ UNCHANGED <<number, groupDocs, torn, faults>>

\* addGroupToContacts, for the contacts that are there.
Link(k) ==
    LET r == calls[k] IN
    /\ r.pc = "link"
    /\ linked' = [c \in Contacts |->
                    IF c \in Elems(r.adds) /\ Contact(c) THEN linked[c] \cup {r.group}
                    ELSE linked[c]]
    /\ IF r.op = "create" THEN End(k) ELSE Goto(k, "save", None)
    /\ UNCHANGED <<number, groupDocs, torn, faults>>

LinkFails(k) ==
    LET r == calls[k] IN
    /\ r.pc = "link"
    /\ faults < MaxFaults /\ faults' = faults + 1
    /\ torn' = torn \cup Pairs(Elems(r.adds), r.group)
    /\ End(k)
    /\ UNCHANGED <<contactDocs, groupDocs>>

-----------------------------------------------------------------------------
(* Requests of one write *)

\* The contact stays in its groups' lists, and the group in its contacts'.
DeleteContact(c) ==
    /\ Contact(c)
    /\ number' = [number EXCEPT ![c] = Gone]
    /\ UNCHANGED <<linked, groupDocs, calls, torn, faults>>

DeleteGroup(g) ==
    /\ Group(g)
    /\ name' = [name EXCEPT ![g] = Gone]
    /\ UNCHANGED <<contactDocs, members, calls, torn, faults>>

\* The endpoints of addGroupToContacts and removeGroupFromContacts change the contact only.
AddToGroup(c, g) ==
    /\ Contact(c) /\ Group(g)
    /\ linked' = [linked EXCEPT ![c] = @ \cup {g}] /\ torn' = torn \cup {<<c, g>>}
    /\ UNCHANGED <<number, groupDocs, calls, faults>>

RemoveFromGroup(c, g) ==
    /\ Contact(c)
    /\ linked' = [linked EXCEPT ![c] = @ \ {g}] /\ torn' = torn \cup {<<c, g>>}
    /\ UNCHANGED <<number, groupDocs, calls, faults>>

\* updateContact without a number: findByIdAndUpdate of what the request holds.
EditGroups(c, gs) ==
    /\ Contact(c) /\ Regroup(c, gs)
    /\ UNCHANGED <<number, groupDocs, calls, faults>>

-----------------------------------------------------------------------------
(* Specification *)

Init ==
    /\ number = [c \in Contacts |-> Unborn] /\ linked = [c \in Contacts |-> {}]
    /\ name = [g \in Groups |-> Unborn] /\ members = [g \in Groups |-> <<>>]
    /\ calls = [k \in Calls |-> NoCall]
    /\ torn = {} /\ faults = 0

Proceed(k) ==
    \/ FindMember(k) \/ TakeFirst(k) \/ CheckNumber(k) \/ WriteNumber(k)
    \/ LookUp(k) \/ InsertContact(k)
    \/ SaveCreated(k) \/ SaveCreatedFails(k) \/ SaveUpdated(k) \/ SaveUpdatedFails(k)
    \/ Link(k) \/ LinkFails(k)

Request(k) ==
    \/ \E t \in Names, list \in Lists : CreateGroup(k, t, list)
    \/ \E g \in Groups, t \in Names \cup {None}, list \in Lists : UpdateGroup(k, g, t, list)
    \/ \E g \in Groups, t \in Names \cup {None} : RenameGroup(k, g, t)
    \/ \E n \in Numbers : CreateContact(k, n) \/ \E c \in Contacts : EditContact(k, c, n)
    \/ \E list \in Lists : BulkImport(k, list)

Next ==
    \/ \E k \in Calls : Proceed(k) \/ Request(k)
    \/ \E c \in Contacts :
         \/ DeleteContact(c) \/ \E g \in Groups : AddToGroup(c, g) \/ RemoveFromGroup(c, g)
         \/ \E gs \in SUBSET {g \in Groups : name[g] # Unborn} : EditGroups(c, gs)
    \/ \E g \in Groups : DeleteGroup(g)

Spec == Init /\ [][Next]_vars

-----------------------------------------------------------------------------
(* Properties *)

CallSet ==
    [op : {"none", "create", "update", "contact", "edit", "import"},
     pc : {"idle", "find", "first", "check", "write", "lookup", "insert", "save", "link"},
     group : Groups \cup {None}, name : Names \cup {None}, read : Seq(Contacts),
     todo : Seq(Numbers), contact : Contacts \cup {None}, adds : Seq(Contacts)]

\* Types; the unique index holds (contact.schema.ts).
TypeOK ==
    /\ number \in [Contacts -> Numbers \cup {Unborn, Gone}]
    /\ linked \in [Contacts -> SUBSET Groups]
    /\ name \in [Groups -> Names \cup {Unborn, Gone}]
    /\ members \in [Groups -> Seq(Contacts)]
    /\ calls \in [Calls -> CallSet]
    /\ torn \subseteq Contacts \X Groups /\ faults \in Nat
    /\ \A c, d \in Contacts : Contact(c) /\ number[c] = number[d] => c = d

\* A request is between its two writes of the membership of c in g.
Joining(c, g) ==
    \E k \in Calls :
        /\ calls[k].group = g /\ c \in Elems(calls[k].adds)
        /\ calls[k].pc = "link" \/ (calls[k].op = "update" /\ calls[k].pc = "save")

\* A group lists a contact exactly when the contact lists the group, while both exist:
\* the two writes agree however requests for the same group and the same numbers overlap
\* (groups.service.ts:47, 176), but for pairs of which one write failed, or that a request
\* for the contact changed on the contact's side alone.
MembershipAgrees ==
    \A c \in Contacts, g \in Groups :
        Contact(c) /\ Group(g) /\ ~Joining(c, g) /\ <<c, g>> \notin torn
            => (c \in Elems(members[g]) <=> g \in linked[c])

\* No request removes another's members from a group: concurrent requests that have read
\* the same list of members, each adding its own and saving, lose none
\* (groups.service.ts:47, 188).
NoMemberLost ==
    [][\A g \in Groups : Elems(members[g]) \subseteq Elems(members'[g])]_vars
=============================================================================
