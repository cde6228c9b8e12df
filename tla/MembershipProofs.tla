-------------------------- MODULE MembershipProofs --------------------------
(***************************************************************************)
(* Proofs about two memberships, each of its own component: the contacts   *)
(* of a group (ContactGroups), and, in the second half, the sockets of a   *)
(* user (SocketRegistry).  Nothing of one is used for the other.           *)
(***************************************************************************)
EXTENDS ContactGroups, SocketRegistry, TLAPS

Pcs == {"idle", "find", "first", "check", "write", "lookup", "insert", "save", "link"}
Ops == {"none", "create", "update", "contact", "edit", "import"}

\* What a request has in hand at each await.
Equipped(r) ==
    /\ r.pc \in {"find", "first", "check", "write", "lookup", "insert"} => r.todo # <<>>
    /\ r.pc \in {"check", "write"} => r.contact \in Contacts
    /\ r.pc = "first" => r.read # <<>>
    /\ r.pc \in {"link", "save"} => r.op \in {"create", "update"}
    /\ r.op = "update" \/ r.pc = "link" => r.group \in Groups
    /\ r.op = "create" => r.name \in Names
    /\ r.op = "none" => r.pc = "idle"

AllEquipped == \A k \in Calls : Equipped(calls[k])

\* The contacts a request has come across.
Known(r) == Elems(r.read) \cup Elems(r.adds) \cup {r.contact}

\* A document that has not been inserted is in no list and in no request's hands.
UnbornUnknown ==
    /\ \A c \in Contacts : number[c] = Unborn =>
         /\ linked[c] = {}
         /\ \A g \in Groups : c \notin Elems(members[g])
         /\ \A k \in Calls : c \notin Known(calls[k])
    /\ \A g \in Groups : name[g] = Unborn =>
         /\ Elems(members[g]) = {}
         /\ \A c \in Contacts : g \notin linked[c]
         /\ \A k \in Calls : calls[k].group # g

\* A request that is about to make the second write of a membership has made the first:
\* the group's when it creates, the contacts' when it updates.
FirstWritten ==
    \A k \in Calls : \A c \in Elems(calls[k].adds) :
        LET g == calls[k].group IN
        /\ calls[k].pc = "link" /\ calls[k].op = "create" =>
              c \in Elems(members[g]) \/ <<c, g>> \in torn
        /\ calls[k].pc = "save" /\ calls[k].op = "update" =>
              ~Contact(c) \/ g \in linked[c] \/ <<c, g>> \in torn

RequestsInv == TypeOK /\ AllEquipped /\ UnbornUnknown
AgreeInv    == RequestsInv /\ FirstWritten /\ MembershipAgrees

-----------------------------------------------------------------------------
(* Lists *)

LEMMA Markers ==
    /\ None # Unborn /\ None # Gone /\ Unborn # Gone
    /\ None \notin Contacts /\ None \notin Groups /\ None \notin Names
    /\ Unborn \notin Numbers /\ Unborn \notin Names /\ Gone \notin Numbers /\ Gone \notin Names
  BY ContactGroupsAssumption DEF None, Unborn, Gone

LEMMA ElemsOf == ASSUME NEW S, NEW s \in Seq(S) PROVE Elems(s) \subseteq S
  BY DEF Elems

LEMMA ElemsEmpty == Elems(<<>>) = {}
  BY DEF Elems

LEMMA ElemsAppend ==
    ASSUME NEW S, NEW s \in Seq(S), NEW x \in S
    PROVE  Append(s, x) \in Seq(S) /\ Elems(Append(s, x)) = Elems(s) \cup {x}
<1>1. /\ Append(s, x) \in Seq(S) /\ Len(Append(s, x)) = Len(s) + 1
      /\ \A i \in 1 .. Len(s) : Append(s, x)[i] = s[i]
      /\ Append(s, x)[Len(s) + 1] = x
  OBVIOUS
<1>2. DOMAIN Append(s, x) = 1 .. Len(s) + 1 /\ DOMAIN s = 1 .. Len(s) /\ Len(s) \in Nat
  BY <1>1
<1>3. 1 .. Len(s) + 1 = (1 .. Len(s)) \cup {Len(s) + 1}
  BY <1>2
<1> QED
  BY <1>1, <1>2, <1>3 DEF Elems

LEMMA HeadAndTail ==
    ASSUME NEW S, NEW s \in Seq(S), s # <<>>
    PROVE  /\ Head(s) \in S /\ Head(s) \in Elems(s) /\ Tail(s) \in Seq(S)
           /\ Len(s) > 1 => Tail(s) # <<>>
           /\ Len(s) = 1 \/ Len(s) > 1
<1>1. Len(s) \in Nat /\ Len(s) # 0 /\ DOMAIN s = 1 .. Len(s)
  OBVIOUS
<1>2. Len(s) >= 1
  BY <1>1
<1>3. Head(s) = s[1] /\ 1 \in DOMAIN s
  BY <1>1, <1>2
<1>4. Tail(s) \in Seq(S) /\ Len(Tail(s)) = Len(s) - 1
  OBVIOUS
<1>5. Len(s) > 1 => Len(Tail(s)) # Len(<<>>)
  BY <1>1, <1>4
<1>6. Len(s) > 1 => Tail(s) # <<>>
  BY <1>5
<1>7. s[1] \in S
  BY <1>3
<1> QED
  BY <1>1, <1>2, <1>3, <1>4, <1>6, <1>7 DEF Elems

LEMMA ElemsConcat ==
    ASSUME NEW S, NEW s \in Seq(S), NEW t \in Seq(S)
    PROVE  s \o t \in Seq(S) /\ Elems(s \o t) = Elems(s) \cup Elems(t)
<1> DEFINE u == s \o t
<1>1. /\ u \in Seq(S) /\ Len(u) = Len(s) + Len(t)
      /\ \A i \in 1 .. Len(s) : u[i] = s[i]
      /\ \A i \in 1 .. Len(t) : u[Len(s) + i] = t[i]
  OBVIOUS
<1>2. DOMAIN u = 1 .. Len(u) /\ DOMAIN s = 1 .. Len(s) /\ DOMAIN t = 1 .. Len(t)
  BY <1>1
<1>3. Len(s) \in Nat /\ Len(t) \in Nat
  OBVIOUS
<1> HIDE DEF u
<1>4. Elems(s) \subseteq Elems(u)
  BY <1>1, <1>2, <1>3 DEF Elems
<1>5. ASSUME NEW i \in 1 .. Len(t) PROVE t[i] \in Elems(u)
  <2>1. Len(s) + i \in DOMAIN u /\ u[Len(s) + i] = t[i]
    BY <1>1, <1>2, <1>3
  <2> QED
    BY <2>1 DEF Elems
<1>6. ASSUME NEW i \in DOMAIN u PROVE u[i] \in Elems(s) \cup Elems(t)
  <2>1. CASE i <= Len(s)
    BY <1>1, <1>2, <1>3, <2>1 DEF Elems
  <2>2. CASE i > Len(s)
    <3>1. i - Len(s) \in 1 .. Len(t) /\ Len(s) + (i - Len(s)) = i
      BY <1>1, <1>2, <1>3, <2>2
    <3>2. u[i] = t[i - Len(s)]
      BY <1>1, <3>1
    <3> QED
      BY <1>2, <3>1, <3>2 DEF Elems
  <2> QED
    BY <1>1, <1>2, <1>3, <2>1, <2>2
<1>7. Elems(t) \subseteq Elems(u)
  BY <1>2, <1>5 DEF Elems
<1>8. Elems(u) \subseteq Elems(s) \cup Elems(t)
  BY <1>6 DEF Elems
<1> QED
  BY <1>1, <1>4, <1>7, <1>8 DEF u

-----------------------------------------------------------------------------
(* What a step before the writes of a membership does to its request *)

\* Inserted documents stay known as such.
StillBorn == \A c \in Contacts : number[c] # Unborn => number'[c] # Unborn

\* The numbers of contacts may change, but no contact comes back from the dead.
NumbersKept ==
    /\ number' \in [Contacts -> Numbers \cup {Unborn, Gone}]
    /\ \A c, d \in Contacts : number'[c] \in Numbers /\ number'[c] = number'[d] => c = d
    /\ StillBorn
    /\ \A c \in Contacts : number'[c] \in Numbers => Contact(c) \/ number[c] = Unborn

\* A request goes on, ends or begins; it is not between the writes of a membership, and
\* between them it is only if it updates a group.
Prepares(k) ==
    LET r == calls'[k] IN
    /\ calls[k].pc \notin {"link", "save"}
    /\ calls' = [calls EXCEPT ![k] = r]
    /\ r \in CallSet /\ Equipped(r)
    /\ r.group # None => name[r.group] # Unborn
    /\ \A c \in Contacts : c \in Known(r) => number'[c] # Unborn
    /\ r.pc = "link" => r.op = "update"
    /\ r.pc = "save" /\ r.op = "update" => r.adds = <<>>

LEMMA CallTyped ==
    ASSUME NEW op \in Ops, NEW pc \in Pcs, NEW g \in Groups \cup {None},
           NEW t \in Names \cup {None}, NEW read \in Seq(Contacts), NEW todo \in Seq(Numbers),
           NEW c \in Contacts \cup {None}, NEW adds \in Seq(Contacts)
    PROVE  Call(op, pc, g, t, read, todo, c, adds) \in CallSet
  BY DEF Call, CallSet, Ops, Pcs

LEMMA NoCallTyped == NoCall \in CallSet /\ Equipped(NoCall)
<1>1. <<>> \in Seq(Contacts) /\ <<>> \in Seq(Numbers)
  OBVIOUS
<1> QED
  BY <1>1, CallTyped DEF NoCall, Call, Equipped, Ops, Pcs

LEMMA FieldsTyped ==
    ASSUME TypeOK, NEW k \in Calls
    PROVE  /\ calls[k] \in CallSet
           /\ calls[k].op \in Ops /\ calls[k].pc \in Pcs
           /\ calls[k].group \in Groups \cup {None} /\ calls[k].name \in Names \cup {None}
           /\ calls[k].read \in Seq(Contacts) /\ calls[k].todo \in Seq(Numbers)
           /\ calls[k].contact \in Contacts \cup {None} /\ calls[k].adds \in Seq(Contacts)
<1>1. calls[k] \in CallSet
  BY DEF TypeOK
<1> QED
  BY <1>1 DEF CallSet, Ops, Pcs

\* Exactly one request changes.
LEMMA OneCall ==
    ASSUME TypeOK, NEW k \in Calls, NEW r, calls' = [calls EXCEPT ![k] = r]
    PROVE  /\ calls'[k] = r /\ calls' = [calls EXCEPT ![k] = calls'[k]]
           /\ \A l \in Calls \ {k} : calls'[l] = calls[l]
  BY DEF TypeOK

LEMMA EndPrepares ==
    ASSUME TypeOK, NEW k \in Calls, calls[k].pc \notin {"link", "save"}, End(k)
    PROVE  Prepares(k)
<1>1. calls'[k] = NoCall /\ calls' = [calls EXCEPT ![k] = calls'[k]]
  BY OneCall DEF End
<1>2. /\ NoCall.group = None /\ Known(NoCall) = {None}
      /\ NoCall.pc = "idle"
  BY ElemsEmpty DEF NoCall, Call, Known
<1> QED
  BY <1>1, <1>2, NoCallTyped, ContactGroupsAssumption DEF Prepares

LEMMA GotoPrepares ==
    ASSUME RequestsInv, StillBorn, NEW k \in Calls, calls[k].pc \notin {"idle", "link", "save"},
           NEW pc \in {"first", "check", "write", "lookup", "insert"},
           NEW c \in Contacts \cup {None}, Goto(k, pc, c),
           c # None => number'[c] # Unborn, calls[k].todo # <<>>,
           pc = "first" => calls[k].read # <<>>,
           pc \in {"check", "write"} => c \in Contacts
    PROVE  Prepares(k)
<1> DEFINE r == calls[k]
           s == Call(r.op, pc, r.group, r.name, r.read, r.todo, c, r.adds)
<1>1. TypeOK /\ Equipped(r)
  BY DEF RequestsInv, AllEquipped
<1>2. calls'[k] = s /\ calls' = [calls EXCEPT ![k] = calls'[k]]
  BY <1>1, OneCall DEF Goto
<1>3. s \in CallSet
  BY <1>1, FieldsTyped, CallTyped DEF Pcs
<1>4. Equipped(s)
  BY <1>1 DEF Equipped, Call
<1>5. s.group # None => name[s.group] # Unborn
  BY <1>1, FieldsTyped DEF RequestsInv, UnbornUnknown, Call
<1>6. ASSUME NEW x \in Contacts, x \in Known(s)
      PROVE  number'[x] # Unborn
  <2>1. x \in Known(r) \/ x = c
    BY <1>6 DEF Known, Call
  <2>2. x \in Known(r) => number[x] # Unborn
    BY DEF RequestsInv, UnbornUnknown
  <2> QED
    BY <2>1, <2>2, ContactGroupsAssumption DEF StillBorn
<1>7. s.pc = pc
  BY DEF Call
<1> HIDE DEF s
<1> QED
  BY <1>2, <1>3, <1>4, <1>5, <1>6, <1>7 DEF Prepares

\* Requests that are done with a number have no more to do with it than its contact.
LEMMA DonePrepares ==
    ASSUME RequestsInv, StillBorn, NEW k \in Calls, calls[k].pc \notin {"idle", "link", "save"},
           NEW c \in Contacts \cup {None}, Done(k, c),
           c # None => number'[c] # Unborn, calls[k].todo # <<>>
    PROVE  Prepares(k)
<1> DEFINE r    == calls[k]
           adds == ToAdd(r, c)
           pc   == IF Len(r.todo) > 1 THEN "find" ELSE Last(k, adds)
           news == IF r.op = "import" THEN <<>> ELSE adds
           s    == Call(r.op, pc, r.group, r.name, r.read, Tail(r.todo), None, news)
<1>1. TypeOK /\ Equipped(r)
  BY DEF RequestsInv, AllEquipped
<1>2. CASE End(k)
  BY <1>1, <1>2, EndPrepares
<1>3. CASE ~End(k)
  <2>1. /\ r.op \notin {"contact", "edit"} /\ pc # "idle"
        /\ r.op = "import" => Len(r.todo) # 1
        /\ calls' = [calls EXCEPT ![k] = s]
    BY <1>3 DEF Done
  <2>2. calls'[k] = s /\ calls' = [calls EXCEPT ![k] = calls'[k]]
    <3> HIDE DEF s, r
    <3> QED
      BY <1>1, <2>1, OneCall
  <2>3. adds \in Seq(Contacts) /\ Elems(adds) \subseteq Elems(r.adds) \cup {c}
    BY <1>1, FieldsTyped, ElemsAppend DEF ToAdd
  <2>4. news \in Seq(Contacts) /\ Elems(news) \subseteq Elems(r.adds) \cup {c}
    BY <2>3, ElemsEmpty
  <2>5. r.todo \in Seq(Numbers) /\ r.todo # <<>>
    BY <1>1, FieldsTyped
  <2>6. /\ Tail(r.todo) \in Seq(Numbers) /\ (Len(r.todo) > 1 => Tail(r.todo) # <<>>)
        /\ Len(r.todo) = 1 \/ Len(r.todo) > 1
    <3> HIDE DEF r
    <3> QED
      BY <2>5, HeadAndTail
  <2>7. /\ pc \in {"find", "link", "save"}
        /\ pc = "link" => r.op = "update"
        /\ pc = "save" => r.op \in {"create", "update"}
        /\ pc = "save" /\ r.op = "update" => news = <<>>
        /\ pc = "find" => Tail(r.todo) # <<>>
    <3>1. r.op \in {"create", "update", "import"}
      BY <1>1, <2>1, FieldsTyped DEF Equipped, Ops
    <3>2. CASE Len(r.todo) > 1
      BY <2>6, <3>2
    <3>3. CASE ~(Len(r.todo) > 1)
      BY <2>1, <2>6, <3>1, <3>3 DEF Last
    <3> QED
      BY <3>2, <3>3
  <2> HIDE DEF pc, news, adds
  <2>8. s \in CallSet
    BY <1>1, <2>4, <2>6, <2>7, FieldsTyped, CallTyped DEF Pcs
  <2>9. Equipped(s) /\ s.pc = pc /\ s.op = r.op /\ s.adds = news
    BY <1>1, <2>7 DEF Equipped, Call
  <2>10. s.group # None => name[s.group] # Unborn
    BY <1>1, FieldsTyped DEF RequestsInv, UnbornUnknown, Call
  <2>11. ASSUME NEW x \in Contacts, x \in Known(s)
         PROVE  number'[x] # Unborn
    <3>1. x \in Known(r) \/ x = c
      BY <2>4, <2>11, ContactGroupsAssumption DEF Known, Call
    <3>2. x \in Known(r) => number[x] # Unborn
      BY DEF RequestsInv, UnbornUnknown
    <3> QED
      BY <3>1, <3>2, ContactGroupsAssumption DEF StillBorn
  <2> HIDE DEF s
  <2> QED
    BY <2>2, <2>7, <2>8, <2>9, <2>10, <2>11 DEF Prepares
<1> QED
  BY <1>2, <1>3

LEMMA FailPrepares ==
    ASSUME RequestsInv, StillBorn, NEW k \in Calls, calls[k].pc \notin {"idle", "link", "save"},
           Fail(k), calls[k].todo # <<>>
    PROVE  Prepares(k)
<1>1. CASE End(k)
  BY <1>1, EndPrepares DEF RequestsInv
<1>2. CASE Done(k, None)
  BY <1>2, DonePrepares
<1> QED
  BY <1>1, <1>2 DEF Fail

LEMMA BeginPrepares ==
    ASSUME TypeOK, NEW k \in Calls, NEW s \in CallSet, Equipped(s), Begin(k, s),
           s.group # None => name[s.group] # Unborn,
           \A c \in Contacts : c \in Known(s) => number'[c] # Unborn,
           s.pc # "link", s.pc = "save" => s.adds = <<>>
    PROVE  Prepares(k)
<1>1. calls'[k] = s /\ calls' = [calls EXCEPT ![k] = calls'[k]]
  BY OneCall DEF Begin
<1>2. calls[k].pc = "idle"
  BY DEF Begin, NoCall, Call
<1> QED
  BY <1>1, <1>2 DEF Prepares

-----------------------------------------------------------------------------
(* Such a step keeps the invariant *)

LEMMA SameNumbers == ASSUME TypeOK, UNCHANGED number PROVE NumbersKept
  BY DEF NumbersKept, StillBorn, TypeOK, Contact

\* Only contacts' lists change, of contacts and groups that are inserted, and the pairs
\* that change are torn from then on.
OneSided ==
    /\ linked' \in [Contacts -> SUBSET Groups]
    /\ torn' \subseteq Contacts \X Groups /\ torn \subseteq torn'
    /\ \A c \in Contacts, g \in Groups :
         <<c, g>> \notin torn' => (g \in linked'[c] <=> g \in linked[c])
    /\ \A c \in Contacts : number'[c] = Unborn => linked'[c] = linked[c]
    /\ \A c \in Contacts, g \in Groups : g \in linked'[c] => name[g] # Unborn
    /\ UNCHANGED <<groupDocs, faults>>

LEMMA SameSides ==
    ASSUME RequestsInv, UNCHANGED <<linked, groupDocs, torn, faults>>
    PROVE  OneSided
  BY DEF OneSided, RequestsInv, TypeOK, UnbornUnknown

LEMMA RegroupOneSided ==
    ASSUME RequestsInv, NEW c \in Contacts, NEW gs \in SUBSET {g \in Groups : name[g] # Unborn},
           Regroup(c, gs), number'[c] # Unborn, UNCHANGED <<groupDocs, faults>>
    PROVE  OneSided
<1>1. /\ linked \in [Contacts -> SUBSET Groups] /\ torn \subseteq Contacts \X Groups
      /\ \A x \in Contacts, g \in Groups : g \in linked[x] => name[g] # Unborn
  BY DEF RequestsInv, TypeOK, UnbornUnknown
<1>2. \A x \in Contacts : linked'[x] = IF x = c THEN gs ELSE linked[x]
  BY <1>1 DEF Regroup
<1>3. linked' \in [Contacts -> SUBSET Groups]
  BY <1>1 DEF Regroup
<1>4. torn' = torn \cup {<<c, g>> : g \in (gs \ linked[c]) \cup (linked[c] \ gs)}
  BY DEF Regroup
<1>5. torn \subseteq torn' /\ torn' \subseteq Contacts \X Groups
  <2>1. (gs \ linked[c]) \cup (linked[c] \ gs) \subseteq Groups
    BY <1>1
  <2> QED
    BY <1>1, <1>4, <2>1
<1>6. ASSUME NEW x \in Contacts, NEW g \in Groups, <<x, g>> \notin torn'
      PROVE  g \in linked'[x] <=> g \in linked[x]
  BY <1>2, <1>4, <1>6
<1> QED
  BY <1>1, <1>2, <1>3, <1>5, <1>6 DEF OneSided

LEMMA GivenOneSided ==
    ASSUME RequestsInv, NEW c \in Contacts, NEW r, NEW gs \in GivenGroups(r, c),
           Regroup(c, gs), number'[c] # Unborn, UNCHANGED <<groupDocs, faults>>
    PROVE  OneSided
<1>1. linked[c] \in SUBSET {g \in Groups : name[g] # Unborn}
  BY DEF RequestsInv, TypeOK, UnbornUnknown
<1>2. gs \in SUBSET {g \in Groups : name[g] # Unborn}
  BY <1>1 DEF GivenGroups
<1> QED
  BY <1>2, RegroupOneSided

LEMMA PreparationKeepsRequests ==
    ASSUME RequestsInv, NEW k \in Calls, Prepares(k), NumbersKept,
           OneSided
    PROVE  RequestsInv'
<1> DEFINE r == calls'[k]
<1>1. /\ calls' = [calls EXCEPT ![k] = r] /\ r \in CallSet /\ Equipped(r)
      /\ r.group # None => name[r.group] # Unborn
      /\ \A c \in Contacts : c \in Known(r) => number'[c] # Unborn
  BY DEF Prepares
<1>2. \A l \in Calls \ {k} : calls'[l] = calls[l]
  BY <1>1, OneCall DEF RequestsInv
<1>3. TypeOK'
  BY <1>1 DEF RequestsInv, TypeOK, NumbersKept, OneSided, groupDocs, Contact, Group
<1>4. AllEquipped'
  <2> SUFFICES ASSUME NEW l \in Calls PROVE Equipped(calls'[l])
    BY DEF AllEquipped, Equipped
  <2> QED
    BY <1>1, <1>2 DEF RequestsInv, AllEquipped
<1>5. ASSUME NEW c \in Contacts, number'[c] = Unborn
      PROVE  /\ linked'[c] = {}
             /\ \A g \in Groups : c \notin Elems(members'[g])
             /\ \A l \in Calls : c \notin Known(calls'[l])
  <2>1. number[c] = Unborn
    BY <1>5 DEF NumbersKept, StillBorn
  <2>2. \A l \in Calls : c \notin Known(calls[l])
    BY <2>1 DEF RequestsInv, UnbornUnknown
  <2>3. \A l \in Calls : c \notin Known(calls'[l])
    BY <1>1, <1>2, <1>5, <2>2
  <2> QED
    BY <1>5, <2>1, <2>3 DEF RequestsInv, UnbornUnknown, OneSided, groupDocs
<1>6. ASSUME NEW g \in Groups, name'[g] = Unborn
      PROVE  /\ Elems(members'[g]) = {}
             /\ \A c \in Contacts : g \notin linked'[c]
             /\ \A l \in Calls : calls'[l].group # g
  <2>1. name[g] = Unborn /\ g # None
    BY <1>6, ContactGroupsAssumption DEF OneSided, groupDocs
  <2>2. \A l \in Calls : calls[l].group # g
    BY <2>1 DEF RequestsInv, UnbornUnknown
  <2>3. \A l \in Calls : calls'[l].group # g
    BY <1>1, <1>2, <2>1, <2>2
  <2> QED
    BY <2>1, <2>3 DEF RequestsInv, UnbornUnknown, OneSided, groupDocs
<1>7. UnbornUnknown'
  BY <1>5, <1>6 DEF UnbornUnknown, Known, Elems
<1> QED
  BY <1>3, <1>4, <1>7 DEF RequestsInv

LEMMA PreparationKeepsAgreement ==
    ASSUME AgreeInv, NEW k \in Calls, Prepares(k), NumbersKept,
           OneSided
    PROVE  AgreeInv'
<1> DEFINE r == calls'[k]
<1>1. /\ calls' = [calls EXCEPT ![k] = r]
      /\ r.pc = "link" => r.op = "update"
      /\ r.pc = "save" /\ r.op = "update" => r.adds = <<>>
      /\ calls[k].pc \notin {"link", "save"}
  BY DEF Prepares
<1>2. RequestsInv /\ RequestsInv' /\ TypeOK
  BY PreparationKeepsRequests DEF AgreeInv, RequestsInv
<1>3. \A l \in Calls \ {k} : calls'[l] = calls[l]
  BY <1>1, <1>2, OneCall
<1>4. ASSUME NEW l \in Calls, NEW c \in Elems(calls'[l].adds)
      PROVE  LET g == calls'[l].group IN
             /\ calls'[l].pc = "link" /\ calls'[l].op = "create" =>
                   c \in Elems(members'[g]) \/ <<c, g>> \in torn'
             /\ calls'[l].pc = "save" /\ calls'[l].op = "update" =>
                   ~(number'[c] \in Numbers) \/ g \in linked'[c] \/ <<c, g>> \in torn'
  <2>1. CASE l = k
    BY <1>1, <1>4, <2>1, ElemsEmpty
  <2>2. CASE l # k
    <3>1. calls'[l] = calls[l]
      BY <1>3, <2>2
    <3>2. c \in Contacts /\ c \in Known(calls[l])
      BY <1>2, <1>4, <3>1, FieldsTyped, ElemsOf DEF Known
    <3>3. number[c] # Unborn
      BY <1>2, <3>2 DEF RequestsInv, UnbornUnknown
    <3>4. number'[c] \in Numbers => Contact(c)
      BY <3>2, <3>3 DEF NumbersKept
    <3>5. calls[l].op = "update" => calls[l].group \in Groups
      BY <1>2 DEF RequestsInv, AllEquipped, Equipped
    <3>6. /\ calls[l].pc = "link" /\ calls[l].op = "create" =>
               c \in Elems(members[calls[l].group]) \/ <<c, calls[l].group>> \in torn
          /\ calls[l].pc = "save" /\ calls[l].op = "update" =>
               ~Contact(c) \/ calls[l].group \in linked[c] \/ <<c, calls[l].group>> \in torn
      BY <1>4, <3>1 DEF AgreeInv, FirstWritten
    <3> QED
      BY <3>1, <3>2, <3>4, <3>5, <3>6 DEF OneSided, groupDocs
  <2> QED
    BY <2>1, <2>2
<1>5. FirstWritten'
  BY <1>4 DEF FirstWritten, Contact, Elems
<1>6. ASSUME NEW c \in Contacts, NEW g \in Groups,
             number'[c] \in Numbers, name'[g] \in Names, ~Joining(c, g)',
             <<c, g>> \notin torn'
      PROVE  c \in Elems(members'[g]) <=> g \in linked'[c]
  <2>1. ~Joining(c, g)
    BY <1>1, <1>3, <1>6 DEF Joining, Elems
  <2>2. /\ Group(g) /\ <<c, g>> \notin torn /\ members' = members
        /\ g \in linked'[c] <=> g \in linked[c]
    BY <1>6 DEF Group, OneSided, groupDocs
  <2>3. CASE Contact(c)
    BY <2>1, <2>2, <2>3 DEF AgreeInv, MembershipAgrees
  <2>4. CASE number[c] = Unborn
    BY <1>2, <2>2, <2>4 DEF RequestsInv, UnbornUnknown
  <2> QED
    BY <1>6, <2>3, <2>4 DEF NumbersKept
<1>7. MembershipAgrees'
  BY <1>6 DEF MembershipAgrees, Contact, Group, Elems
<1> QED
  BY <1>2, <1>5, <1>7 DEF AgreeInv

-----------------------------------------------------------------------------
(* The steps before the writes of a membership are such steps *)

\* What a step has to be for the two lemmas above.
Preparing(k) ==
    Prepares(k) /\ NumbersKept /\ OneSided

LEMMA RequestPrepares ==
    ASSUME RequestsInv, NEW k \in Calls, Request(k)
    PROVE  Preparing(k)
<1>1. ASSUME UNCHANGED <<contactDocs, groupDocs, torn, faults>>, Prepares(k)
      PROVE  Preparing(k)
  BY <1>1, SameNumbers, SameSides DEF Preparing, contactDocs, RequestsInv
<1>2. <<>> \in Seq(Contacts) /\ Elems(<<>>) = {}
  BY ElemsEmpty
<1>3. \A g \in Groups : members[g] \in Seq(Contacts)
  BY DEF RequestsInv, TypeOK
<1>4. ASSUME NEW g \in Groups, NEW c \in Contacts, c \in Elems(members[g])
      PROVE  number[c] # Unborn
  BY <1>4 DEF RequestsInv, UnbornUnknown
<1>5. ASSUME NEW t \in Names, NEW list \in Lists, CreateGroup(k, t, list)
      PROVE  Preparing(k)
  <2>1. list \in Seq(Numbers) /\ list # <<>>
    BY ContactGroupsAssumption
  <2>2. ASSUME NEW g \in Groups, name[g] = t,
               Begin(k, Call("create", "find", g, t, members[g], list, None, <<>>))
        PROVE  Prepares(k)
    <3> DEFINE s == Call("create", "find", g, t, members[g], list, None, <<>>)
    <3>1. s \in CallSet
      BY <1>2, <1>3, <2>1, CallTyped DEF Ops, Pcs
    <3>2. Equipped(s) /\ s.pc = "find" /\ s.group = g
      BY <2>1 DEF Equipped, Call
    <3>3. name[g] # Unborn
      BY <2>2, ContactGroupsAssumption
    <3>4. \A c \in Contacts : c \in Known(s) => number'[c] # Unborn
      BY <1>2, <1>4, <1>5, ContactGroupsAssumption DEF Known, Call, CreateGroup, contactDocs
    <3> HIDE DEF s
    <3> QED
      BY <2>2, <3>1, <3>2, <3>3, <3>4, BeginPrepares DEF RequestsInv, s
  <2>3. ASSUME Begin(k, Call("create", "find", None, t, <<>>, list, None, <<>>))
        PROVE  Prepares(k)
    <3> DEFINE s == Call("create", "find", None, t, <<>>, list, None, <<>>)
    <3>1. s \in CallSet
      BY <1>2, <2>1, CallTyped DEF Ops, Pcs
    <3>2. Equipped(s) /\ s.pc = "find" /\ s.group = None
      BY <2>1 DEF Equipped, Call
    <3>3. \A c \in Contacts : c \notin Known(s)
      BY <1>2, ContactGroupsAssumption DEF Known, Call
    <3> HIDE DEF s
    <3> QED
      BY <2>3, <3>1, <3>2, <3>3, BeginPrepares DEF RequestsInv, s
  <2> QED
    BY <1>1, <1>5, <2>2, <2>3 DEF CreateGroup
<1>6. ASSUME NEW g \in Groups, NEW t \in Names \cup {None}, NEW list \in Lists,
             UpdateGroup(k, g, t, list)
      PROVE  Preparing(k)
  <2> DEFINE s == Call("update", "find", g, t, members[g], list, None, <<>>)
  <2>1. list \in Seq(Numbers) /\ list # <<>>
    BY ContactGroupsAssumption
  <2>2. s \in CallSet
    BY <1>2, <1>3, <2>1, CallTyped DEF Ops, Pcs
  <2>3. Equipped(s) /\ s.pc = "find" /\ s.group = g
    BY <2>1 DEF Equipped, Call
  <2>4. name[g] # Unborn
    BY <1>6, ContactGroupsAssumption DEF UpdateGroup, Group
  <2>5. \A c \in Contacts : c \in Known(s) => number'[c] # Unborn
    BY <1>2, <1>4, <1>6, ContactGroupsAssumption DEF Known, Call, UpdateGroup, contactDocs
  <2>6. Begin(k, s)
    BY <1>6 DEF UpdateGroup
  <2> HIDE DEF s
  <2>7. Prepares(k)
    BY <2>2, <2>3, <2>4, <2>5, <2>6, BeginPrepares DEF RequestsInv
  <2> QED
    BY <1>1, <1>6, <2>7 DEF UpdateGroup
<1>7. ASSUME NEW op \in {"contact", "import"}, NEW pc \in {"lookup", "find"},
             NEW list \in Seq(Numbers), list # <<>>,
             Begin(k, Call(op, pc, None, None, <<>>, list, None, <<>>)),
             UNCHANGED <<contactDocs, groupDocs, torn, faults>>
      PROVE  Preparing(k)
  <2> DEFINE s == Call(op, pc, None, None, <<>>, list, None, <<>>)
  <2>1. s \in CallSet
    BY <1>2, <1>7, CallTyped DEF Ops, Pcs
  <2>2. Equipped(s) /\ s.pc = pc /\ s.group = None
    BY <1>7 DEF Equipped, Call
  <2>3. \A c \in Contacts : c \notin Known(s)
    BY <1>2, ContactGroupsAssumption DEF Known, Call
  <2> HIDE DEF s
  <2>4. Prepares(k)
    BY <1>7, <2>1, <2>2, <2>3, BeginPrepares DEF RequestsInv, s
  <2> QED
    BY <1>1, <1>7, <2>4
<1>8. ASSUME NEW n \in Numbers, CreateContact(k, n)
      PROVE  Preparing(k)
  <2>1. <<n>> \in Seq(Numbers) /\ <<n>> # <<>>
    OBVIOUS
  <2> QED
    BY <1>7, <1>8, <2>1 DEF CreateContact
<1>9. ASSUME NEW list \in Lists, BulkImport(k, list)
      PROVE  Preparing(k)
  BY <1>7, <1>9, ContactGroupsAssumption DEF BulkImport
<1>10. ASSUME NEW c \in Contacts, NEW n \in Numbers, EditContact(k, c, n)
       PROVE  Preparing(k)
  <2> DEFINE s == Call("edit", "check", None, None, <<>>, <<n>>, c, <<>>)
  <2>1. <<n>> \in Seq(Numbers) /\ <<n>> # <<>>
    OBVIOUS
  <2>2. s \in CallSet
    BY <1>2, <2>1, CallTyped DEF Ops, Pcs
  <2>3. Equipped(s) /\ s.pc = "check" /\ s.group = None
    BY <2>1 DEF Equipped, Call
  <2>4. Known(s) = {c} /\ number'[c] # Unborn /\ Begin(k, s)
    BY <1>2, <1>10 DEF Known, Call, EditContact, contactDocs
  <2> HIDE DEF s
  <2>5. Prepares(k)
    BY <2>2, <2>3, <2>4, BeginPrepares DEF RequestsInv
  <2> QED
    BY <1>1, <1>10, <2>5 DEF EditContact
<1>11. ASSUME NEW g \in Groups, NEW t \in Names \cup {None}, RenameGroup(k, g, t)
      PROVE  Preparing(k)
  <2> DEFINE s == Call("update", "save", g, t, members[g], <<>>, None, <<>>)
  <2>1. <<>> \in Seq(Numbers)
    OBVIOUS
  <2>2. s \in CallSet
    BY <1>2, <1>3, <2>1, CallTyped DEF Ops, Pcs
  <2>3. Equipped(s) /\ s.pc = "save" /\ s.group = g /\ s.adds = <<>>
    BY DEF Equipped, Call
  <2>4. name[g] # Unborn
    BY <1>11, ContactGroupsAssumption DEF RenameGroup, Group
  <2>5. \A c \in Contacts : c \in Known(s) => number'[c] # Unborn
    BY <1>2, <1>4, <1>11, ContactGroupsAssumption DEF Known, Call, RenameGroup, contactDocs
  <2>6. Begin(k, s)
    BY <1>11 DEF RenameGroup
  <2> HIDE DEF s
  <2>7. Prepares(k)
    BY <2>2, <2>3, <2>4, <2>5, <2>6, BeginPrepares DEF RequestsInv
  <2> QED
    BY <1>1, <1>11, <2>7 DEF RenameGroup
<1> QED
  BY <1>5, <1>6, <1>8, <1>9, <1>10, <1>11 DEF Request

LEMMA NumberStepPrepares ==
    ASSUME RequestsInv, NEW k \in Calls,
           \/ FindMember(k) \/ TakeFirst(k) \/ CheckNumber(k)
           \/ WriteNumber(k) \/ LookUp(k) \/ InsertContact(k)
    PROVE  Preparing(k)
<1> DEFINE r == calls[k]
           n == Head(r.todo)
<1>1. TypeOK /\ Equipped(r)
  BY DEF RequestsInv, AllEquipped
<1>2. /\ r.pc \in {"find", "first", "check", "write", "lookup", "insert"}
      /\ r.pc \notin {"idle", "link", "save"} /\ r.todo # <<>>
  BY <1>1 DEF FindMember, TakeFirst, CheckNumber, WriteNumber, LookUp, InsertContact, Equipped
<1>3. n \in Numbers
  BY <1>1, <1>2, FieldsTyped, HeadAndTail
<1>4. ASSUME UNCHANGED <<contactDocs, groupDocs, torn, faults>>,
             NumbersKept => Prepares(k)
      PROVE  Preparing(k)
  BY <1>1, <1>4, SameNumbers, SameSides DEF Preparing, contactDocs
<1>5. ASSUME NEW c \in WithNumber(n)
      PROVE  c \in Contacts /\ number[c] # Unborn
  BY <1>3, <1>5, ContactGroupsAssumption DEF WithNumber
<1> HIDE DEF r, n
<1>6. CASE FindMember(k)
  <2>1. UNCHANGED <<contactDocs, groupDocs, torn, faults>>
    BY <1>6 DEF FindMember
  <2>2. ASSUME NumbersKept PROVE Prepares(k)
    <3>1. StillBorn
      BY <2>2 DEF NumbersKept
    <3>2. ASSUME NEW c \in WithNumber(n), Goto(k, "check", c)
          PROVE  Prepares(k)
      BY <1>2, <1>5, <3>1, <3>2, GotoPrepares DEF r, StillBorn
    <3>3. ASSUME NEW c \in WithNumber(n), Done(k, c)
          PROVE  Prepares(k)
      BY <1>2, <1>5, <3>1, <3>3, DonePrepares DEF r, StillBorn
    <3>4. ASSUME NEW pc \in {"first", "insert", "lookup"}, Goto(k, pc, None),
                 pc = "first" => r.read # <<>>
          PROVE  Prepares(k)
      BY <1>2, <3>1, <3>4, GotoPrepares DEF r
    <3> QED
      BY <1>6, <3>2, <3>3, <3>4 DEF FindMember, r, n
  <2> QED
    BY <1>4, <2>1, <2>2
<1>7. CASE TakeFirst(k)
  <2> DEFINE c == Head(r.read)
  <2>1. r.read \in Seq(Contacts) /\ r.read # <<>>
    BY <1>1, <1>7, FieldsTyped DEF TakeFirst, Equipped, r
  <2>2. c \in Contacts /\ c \in Elems(r.read)
    BY <2>1, HeadAndTail
  <2>3. number[c] # Unborn
    BY <2>2 DEF RequestsInv, UnbornUnknown, Known, r
  <2>4. UNCHANGED <<contactDocs, groupDocs, torn, faults>>
    BY <1>7 DEF TakeFirst
  <2>5. FindContactById(k, c)
    BY <1>7 DEF TakeFirst, r
  <2> HIDE DEF c
  <2>6. ASSUME NumbersKept PROVE Prepares(k)
    <3>1. StillBorn
      BY <2>6 DEF NumbersKept
    <3>2. CASE Goto(k, "check", c)
      BY <1>2, <2>2, <2>3, <3>1, <3>2, GotoPrepares DEF r, StillBorn
    <3>3. CASE Fail(k)
      BY <1>2, <3>1, <3>3, FailPrepares DEF r
    <3> QED
      BY <2>5, <3>2, <3>3 DEF FindContactById
  <2> QED
    BY <1>4, <2>4, <2>6
<1>8. CASE CheckNumber(k)
  <2>1. UNCHANGED <<contactDocs, groupDocs, torn, faults>>
    BY <1>8 DEF CheckNumber
  <2>2. r.contact \in Contacts /\ number[r.contact] # Unborn
    BY <1>1, <1>8 DEF CheckNumber, Equipped, RequestsInv, UnbornUnknown, Known, r
  <2>3. ASSUME NumbersKept PROVE Prepares(k)
    <3>1. StillBorn
      BY <2>3 DEF NumbersKept
    <3>2. CASE Goto(k, "write", r.contact)
      BY <1>2, <2>2, <3>1, <3>2, GotoPrepares DEF r, StillBorn
    <3>3. CASE Fail(k)
      BY <1>2, <3>1, <3>3, FailPrepares DEF r
    <3> QED
      BY <1>8, <3>2, <3>3 DEF CheckNumber, r
  <2> QED
    BY <1>4, <2>1, <2>3
<1>9. CASE WriteNumber(k)
  <2>1. r.contact \in Contacts
    BY <1>1, <1>9 DEF WriteNumber, Equipped, r
  <2>2. CASE (Done(k, None) \/ Fail(k)) /\ UNCHANGED <<contactDocs, groupDocs, torn, faults>>
    <3>1. NumbersKept /\ StillBorn
      BY <1>1, <2>2, SameNumbers DEF NumbersKept, contactDocs
    <3>2. CASE Done(k, None)
      BY <1>2, <1>4, <2>2, <3>1, <3>2, DonePrepares DEF r
    <3>3. CASE Fail(k)
      BY <1>2, <1>4, <2>2, <3>1, <3>3, FailPrepares DEF r
    <3> QED
      BY <2>2, <3>2, <3>3
  <2>3. ASSUME Contact(r.contact), ~Taken(n, r.contact),
               number' = [number EXCEPT ![r.contact] = n], Done(k, r.contact),
               UNCHANGED <<groupDocs, faults>>,
               NEW gs \in GivenGroups(r, r.contact), Regroup(r.contact, gs)
        PROVE  Preparing(k)
    <3>1. NumbersKept
      BY <1>1, <1>3, <2>1, <2>3, ContactGroupsAssumption
         DEF NumbersKept, StillBorn, Contact, Taken, WithNumber, TypeOK
    <3>2. number'[r.contact] # Unborn
      BY <1>1, <1>3, <2>1, <2>3, ContactGroupsAssumption DEF TypeOK
    <3>3. OneSided
      BY <2>1, <2>3, <3>2, GivenOneSided
    <3> QED
      BY <1>2, <2>1, <2>3, <3>1, <3>2, <3>3, DonePrepares DEF r, Preparing, NumbersKept
  <2> QED
    BY <1>9, <2>2, <2>3 DEF WriteNumber, r, n, contactDocs
<1>10. CASE LookUp(k)
  <2>1. UNCHANGED <<contactDocs, groupDocs, torn, faults>>
    BY <1>10 DEF LookUp
  <2>2. ASSUME NumbersKept PROVE Prepares(k)
    <3>1. StillBorn
      BY <2>2 DEF NumbersKept
    <3>2. ASSUME NEW c \in WithNumber(n), Done(k, c)
          PROVE  Prepares(k)
      BY <1>2, <1>5, <3>1, <3>2, DonePrepares DEF r, StillBorn
    <3>3. CASE Goto(k, "insert", None)
      BY <1>2, <3>1, <3>3, GotoPrepares DEF r
    <3> QED
      BY <1>10, <3>2, <3>3 DEF LookUp, r, n
  <2> QED
    BY <1>4, <2>1, <2>2
<1>11. CASE InsertContact(k)
  <2>1. CASE Fail(k) /\ UNCHANGED <<contactDocs, groupDocs, torn, faults>>
    <3>1. NumbersKept /\ StillBorn
      BY <1>1, <2>1, SameNumbers DEF NumbersKept, contactDocs
    <3> QED
      BY <1>2, <1>4, <2>1, <3>1, FailPrepares DEF r
  <2>2. ASSUME WithNumber(n) = {}, NEW c \in Contacts, number[c] = Unborn,
               number' = [number EXCEPT ![c] = n], UNCHANGED <<groupDocs, faults>>,
               NEW gs \in GivenGroups(r, c), Regroup(c, gs), Done(k, c)
        PROVE  Preparing(k)
    <3>1. NumbersKept
      BY <1>1, <1>3, <2>2, ContactGroupsAssumption
         DEF NumbersKept, StillBorn, Contact, WithNumber, TypeOK
    <3>2. number'[c] # Unborn
      BY <1>1, <1>3, <2>2, ContactGroupsAssumption DEF TypeOK
    <3>3. OneSided
      BY <2>2, <3>2, GivenOneSided
    <3> QED
      BY <1>2, <2>2, <3>1, <3>2, <3>3, DonePrepares DEF r, Preparing, NumbersKept
  <2> QED
    BY <1>11, <2>1, <2>2 DEF InsertContact, r, n, contactDocs
<1> QED
  BY <1>6, <1>7, <1>8, <1>9, <1>10, <1>11

-----------------------------------------------------------------------------
(* The writes of a membership *)

\* Documents keep their types and those not inserted their emptiness, and lists only grow.
ListsGrow ==
    /\ UNCHANGED number
    /\ linked' \in [Contacts -> SUBSET Groups] /\ members' \in [Groups -> Seq(Contacts)]
    /\ name' \in [Groups -> Names \cup {Unborn, Gone}]
    /\ torn' \subseteq Contacts \X Groups /\ faults' \in Nat
    /\ torn \subseteq torn'
    /\ \A c \in Contacts : linked[c] \subseteq linked'[c]
    /\ \A g \in Groups : Elems(members[g]) \subseteq Elems(members'[g])
    /\ \A c \in Contacts : number[c] = Unborn =>
         linked'[c] = {} /\ \A g \in Groups : c \notin Elems(members'[g])
    /\ \A g \in Groups : name'[g] = Unborn =>
         /\ name[g] = Unborn /\ Elems(members'[g]) = {}
         /\ \A c \in Contacts : g \notin linked'[c]

\* Request k goes on with r, for contacts it knew and a group that is inserted.
GoesOn(k, r) ==
    /\ calls' = [calls EXCEPT ![k] = r]
    /\ r \in CallSet /\ Equipped(r)
    /\ r.group # None => name'[r.group] # Unborn
    /\ \A c \in Contacts : c \in Known(r) => number[c] # Unborn

LEMMA WriteKeepsRequests ==
    ASSUME RequestsInv, NEW k \in Calls, NEW r, ListsGrow, GoesOn(k, r)
    PROVE  RequestsInv'
<1>1. calls'[k] = r /\ \A l \in Calls \ {k} : calls'[l] = calls[l]
  BY OneCall DEF GoesOn, RequestsInv
<1>2. TypeOK'
  BY DEF GoesOn, RequestsInv, TypeOK, ListsGrow, Contact
<1>3. AllEquipped'
  <2> SUFFICES ASSUME NEW l \in Calls PROVE Equipped(calls'[l])
    BY DEF AllEquipped, Equipped
  <2> QED
    BY <1>1 DEF GoesOn, RequestsInv, AllEquipped
<1>4. ASSUME NEW c \in Contacts, number'[c] = Unborn
      PROVE  /\ linked'[c] = {}
             /\ \A g \in Groups : c \notin Elems(members'[g])
             /\ \A l \in Calls : c \notin Known(calls'[l])
  <2>1. number[c] = Unborn
    BY <1>4 DEF ListsGrow
  <2>2. \A l \in Calls : c \notin Known(calls[l])
    BY <2>1 DEF RequestsInv, UnbornUnknown
  <2>3. \A l \in Calls : c \notin Known(calls'[l])
    BY <1>1, <2>1, <2>2 DEF GoesOn
  <2> QED
    BY <2>1, <2>3 DEF ListsGrow
<1>5. ASSUME NEW g \in Groups, name'[g] = Unborn
      PROVE  /\ Elems(members'[g]) = {}
             /\ \A c \in Contacts : g \notin linked'[c]
             /\ \A l \in Calls : calls'[l].group # g
  <2>1. name[g] = Unborn /\ g # None
    BY <1>5, ContactGroupsAssumption DEF ListsGrow
  <2>2. \A l \in Calls : calls[l].group # g
    BY <2>1 DEF RequestsInv, UnbornUnknown
  <2>3. \A l \in Calls : calls'[l].group # g
    BY <1>1, <1>5, <2>1, <2>2 DEF GoesOn
  <2> QED
    BY <1>5, <2>3 DEF ListsGrow
<1>6. UnbornUnknown'
  BY <1>4, <1>5 DEF UnbornUnknown, Known, Elems
<1> QED
  BY <1>2, <1>3, <1>6 DEF RequestsInv

\* What the step leaves of a pair: both sides have it, it is excepted, or nothing of it
\* has changed.
PairKept(c, g) ==
    \/ c \in Elems(members'[g]) /\ g \in linked'[c]
    \/ <<c, g>> \in torn' \/ Joining(c, g)' \/ ~Contact(c)
    \/ /\ Group(g) \/ name[g] = Unborn
       /\ c \in Elems(members'[g]) <=> c \in Elems(members[g])
       /\ g \in linked'[c] <=> g \in linked[c]
       /\ Joining(c, g) => Joining(c, g)'

\* What FirstWritten says of one contact of request r, after the step.
SideWritten(r, c) ==
    /\ r.pc = "link" /\ r.op = "create" =>
         c \in Elems(members'[r.group]) \/ <<c, r.group>> \in torn'
    /\ r.pc = "save" /\ r.op = "update" =>
         ~Contact(c) \/ r.group \in linked'[c] \/ <<c, r.group>> \in torn'

LEMMA WriteKeepsAgreement ==
    ASSUME AgreeInv, NEW k \in Calls, NEW r, ListsGrow, GoesOn(k, r),
           \A c \in Elems(r.adds) : SideWritten(r, c),
           \A c \in Contacts, g \in Groups : name'[g] \in Names => PairKept(c, g)
    PROVE  AgreeInv'
<1>1. RequestsInv /\ RequestsInv'
  BY WriteKeepsRequests DEF AgreeInv
<1>2. calls'[k] = r /\ \A l \in Calls \ {k} : calls'[l] = calls[l]
  BY <1>1, OneCall DEF GoesOn, RequestsInv
<1>3. ASSUME NEW l \in Calls, NEW c \in Elems(calls'[l].adds)
      PROVE  SideWritten(calls'[l], c)
  <2>1. CASE l = k
    BY <1>2, <1>3, <2>1
  <2>2. CASE l # k
    <3> DEFINE s == calls[l]
    <3>1. calls'[l] = s /\ TypeOK /\ AllEquipped
      BY <1>1, <1>2, <2>2 DEF RequestsInv
    <3>2. c \in Contacts
      BY <1>3, <3>1, FieldsTyped, ElemsOf
    <3>3. s.pc = "link" \/ s.op = "update" => s.group \in Groups
      BY <3>1 DEF AllEquipped, Equipped
    <3>4. /\ s.pc = "link" /\ s.op = "create" =>
               c \in Elems(members[s.group]) \/ <<c, s.group>> \in torn
          /\ s.pc = "save" /\ s.op = "update" =>
               ~Contact(c) \/ s.group \in linked[c] \/ <<c, s.group>> \in torn
      BY <1>3, <3>1 DEF AgreeInv, FirstWritten
    <3> HIDE DEF s
    <3> QED
      BY <3>1, <3>2, <3>3, <3>4 DEF SideWritten, ListsGrow
  <2> QED
    BY <2>1, <2>2
<1>4. FirstWritten'
  BY <1>3 DEF FirstWritten, SideWritten, ListsGrow, Contact, Elems
<1>5. ASSUME NEW c \in Contacts, NEW g \in Groups, Contact(c),
             name'[g] \in Names, ~Joining(c, g)', <<c, g>> \notin torn'
      PROVE  c \in Elems(members'[g]) <=> g \in linked'[c]
  <2>1. PairKept(c, g) /\ <<c, g>> \notin torn
    BY <1>5 DEF ListsGrow
  <2>2. CASE c \in Elems(members'[g]) /\ g \in linked'[c]
    BY <2>2
  <2>3. CASE ~(c \in Elems(members'[g]) /\ g \in linked'[c])
    <3>1. /\ Group(g) \/ name[g] = Unborn
          /\ c \in Elems(members'[g]) <=> c \in Elems(members[g])
          /\ g \in linked'[c] <=> g \in linked[c]
          /\ ~Joining(c, g)
      BY <1>5, <2>1, <2>3 DEF PairKept
    <3>2. CASE Group(g)
      BY <1>5, <2>1, <3>1, <3>2 DEF AgreeInv, MembershipAgrees
    <3>3. CASE name[g] = Unborn
      BY <1>1, <3>1, <3>3 DEF RequestsInv, UnbornUnknown
    <3> QED
      BY <3>1, <3>2, <3>3
  <2> QED
    BY <2>2, <2>3
<1>6. MembershipAgrees'
  BY <1>5 DEF MembershipAgrees, Contact, Group, Elems, ListsGrow
<1> QED
  BY <1>1, <1>4, <1>6 DEF AgreeInv

\* What is known of a request that is about to write.
LEMMA WriterKnows ==
    ASSUME RequestsInv, NEW k \in Calls, calls[k].pc \in {"save", "link"}
    PROVE  /\ calls[k] \in CallSet /\ calls[k].op \in {"create", "update"}
           /\ calls[k].group \in Groups \cup {None}
           /\ calls[k].op = "update" \/ calls[k].pc = "link" => calls[k].group \in Groups
           /\ calls[k].op = "create" => calls[k].name \in Names
           /\ calls[k].name \in Names \cup {None}
           /\ calls[k].adds \in Seq(Contacts) /\ Elems(calls[k].adds) \subseteq Contacts
           /\ calls[k].group # None => name[calls[k].group] # Unborn
           /\ \A c \in Contacts : c \in Known(calls[k]) => number[c] # Unborn
           /\ \A c \in Elems(calls[k].adds) : number[c] # Unborn
<1>1. Equipped(calls[k]) /\ TypeOK
  BY DEF RequestsInv, AllEquipped
<1>2. Elems(calls[k].adds) \subseteq Contacts
  BY <1>1, FieldsTyped, ElemsOf
<1>3. \A c \in Contacts : c \in Known(calls[k]) => number[c] # Unborn
  BY DEF RequestsInv, UnbornUnknown
<1>4. calls[k].group # None => name[calls[k].group] # Unborn
  BY <1>1, FieldsTyped DEF RequestsInv, UnbornUnknown
<1> QED
  BY <1>1, <1>2, <1>3, <1>4, FieldsTyped DEF Equipped, Known

\* A request that ends, and one that goes on to its other write.
LEMMA EndGoesOn ==
    ASSUME RequestsInv, NEW k \in Calls, End(k)
    PROVE  /\ GoesOn(k, NoCall) /\ calls'[k] = NoCall
           /\ \A c \in Elems(NoCall.adds) : SideWritten(NoCall, c)
<1>1. /\ NoCall.group = None /\ Known(NoCall) = {None} /\ Elems(NoCall.adds) = {}
  BY ElemsEmpty DEF NoCall, Call, Known
<1>2. calls'[k] = NoCall
  BY OneCall DEF End, RequestsInv
<1> QED
  BY <1>1, <1>2, NoCallTyped, ContactGroupsAssumption DEF GoesOn, End

LEMMA OtherWriteGoesOn ==
    ASSUME RequestsInv, NEW k \in Calls, calls[k].pc \in {"save", "link"},
           NEW pc \in {"save", "link"}, Goto(k, pc, None), calls[k].group \in Groups,
           name'[calls[k].group] # Unborn
    PROVE  \E r \in CallSet :
             /\ GoesOn(k, r) /\ calls'[k] = r
             /\ r.op = calls[k].op /\ r.pc = pc /\ r.group = calls[k].group
             /\ r.adds = calls[k].adds
<1> DEFINE r == calls[k]
           s == Call(r.op, pc, r.group, r.name, r.read, r.todo, None, r.adds)
<1>1. TypeOK /\ Equipped(r)
  BY DEF RequestsInv, AllEquipped
<1>2. calls'[k] = s /\ calls' = [calls EXCEPT ![k] = s]
  <2>1. calls' = [calls EXCEPT ![k] = s]
    BY DEF Goto
  <2> HIDE DEF s
  <2> QED
    BY <1>1, <2>1, OneCall
<1>3. s \in CallSet
  BY <1>1, FieldsTyped, CallTyped DEF Pcs
<1>4. Equipped(s)
  BY <1>1 DEF Equipped, Call
<1>5. ASSUME NEW x \in Contacts, x \in Known(s)
      PROVE  number[x] # Unborn
  BY <1>5, WriterKnows, ContactGroupsAssumption DEF Known, Call
<1>6. s.op = r.op /\ s.pc = pc /\ s.group = r.group /\ s.adds = r.adds
  BY DEF Call
<1> HIDE DEF s
<1> QED
  BY <1>2, <1>3, <1>4, <1>5, <1>6 DEF GoesOn

LEMMA AddMembersAdds ==
    ASSUME RequestsInv, NEW k \in Calls, NEW g \in Groups, AddMembers(k, g)
    PROVE  /\ members' \in [Groups -> Seq(Contacts)]
           /\ Elems(members'[g]) = Elems(members[g]) \cup Elems(calls[k].adds)
           /\ \A h \in Groups \ {g} : members'[h] = members[h]
<1>1. members \in [Groups -> Seq(Contacts)] /\ calls[k].adds \in Seq(Contacts)
  BY FieldsTyped DEF RequestsInv, TypeOK
<1> DEFINE s == members[g] \o calls[k].adds
<1>2. s \in Seq(Contacts) /\ Elems(s) = Elems(members[g]) \cup Elems(calls[k].adds)
  BY <1>1, ElemsConcat
<1>3. members' = [members EXCEPT ![g] = s]
  BY DEF AddMembers
<1> HIDE DEF s
<1> QED
  BY <1>1, <1>2, <1>3

LEMMA SaveCreatedKeeps ==
    ASSUME AgreeInv, NEW k \in Calls, SaveCreated(k)
    PROVE  AgreeInv'
<1> DEFINE r == calls[k]
<1>1. RequestsInv /\ TypeOK /\ r.pc = "save" /\ r.op = "create"
      /\ UNCHANGED <<number, linked, torn, faults>>
  BY DEF AgreeInv, RequestsInv, SaveCreated, contactDocs
<1>2. r.adds \in Seq(Contacts) /\ r.name \in Names /\ Elems(r.adds) \subseteq Contacts
      /\ \A c \in Elems(r.adds) : number[c] # Unborn
  BY <1>1, WriterKnows
\* Whatever the group, the request goes on to link what it has added.
<1>3. ASSUME NEW g \in Groups, NEW s, AddMembers(k, g), GoesOn(k, s), calls'[k] = s,
             s.op = "create", s.pc = "link", s.group = g, s.adds = r.adds,
             name' \in [Groups -> Names \cup {Unborn, Gone}],
             name'[g] \in Names, name[g] = Unborn \/ Group(g),
             \A h \in Groups \ {g} : name'[h] = name[h]
      PROVE  AgreeInv'
  <2>1. /\ members' \in [Groups -> Seq(Contacts)]
        /\ Elems(members'[g]) = Elems(members[g]) \cup Elems(r.adds)
        /\ \A h \in Groups \ {g} : members'[h] = members[h]
    BY <1>1, <1>3, AddMembersAdds
  <2> HIDE DEF r
  <2>2. ListsGrow
    <3>1. ASSUME NEW c \in Contacts, number[c] = Unborn
          PROVE  linked'[c] = {} /\ \A h \in Groups : c \notin Elems(members'[h])
      BY <1>1, <1>2, <2>1, <3>1 DEF RequestsInv, UnbornUnknown
    <3>2. ASSUME NEW h \in Groups, name'[h] = Unborn
          PROVE  /\ name[h] = Unborn /\ Elems(members'[h]) = {}
                 /\ \A c \in Contacts : h \notin linked'[c]
      BY <1>1, <1>3, <2>1, <3>2, ContactGroupsAssumption DEF RequestsInv, UnbornUnknown
    <3> QED
      BY <1>1, <1>3, <2>1, <3>1, <3>2 DEF ListsGrow, TypeOK
  <2>3. \A c \in Elems(s.adds) : SideWritten(s, c)
    BY <1>3, <2>1 DEF SideWritten
  <2>4. \A l \in Calls \ {k} : calls'[l] = calls[l]
    BY <1>1, <1>3, OneCall DEF GoesOn
  <2>5. ASSUME NEW c \in Contacts, NEW h \in Groups, name'[h] \in Names
        PROVE  PairKept(c, h)
    <3>1. Joining(c, h) => Joining(c, h)'
      BY <1>1, <1>3, <2>4 DEF Joining, Elems, r
    <3>2. CASE h = g /\ c \in Elems(r.adds)
      <4>1. Joining(c, h)'
        BY <1>3, <3>2 DEF Joining, Elems
      <4> QED
        BY <4>1 DEF PairKept
    <3>3. CASE ~(h = g /\ c \in Elems(r.adds))
      <4>1. c \in Elems(members'[h]) <=> c \in Elems(members[h])
        BY <2>1, <3>3
      <4>2. Group(h) \/ name[h] = Unborn
        BY <1>3, <2>5 DEF Group
      <4> QED
        BY <1>1, <3>1, <4>1, <4>2 DEF PairKept
    <3> QED
      BY <3>2, <3>3
  <2> QED
    BY <1>3, <2>2, <2>3, <2>5, WriteKeepsAgreement
<1>4. ASSUME NEW g \in Groups, name[g] = Unborn, name' = [name EXCEPT ![g] = r.name],
             AddMembers(k, g),
             calls' = [calls EXCEPT ![k] =
                         Call("create", "link", g, r.name, <<>>, <<>>, None, r.adds)]
      PROVE  AgreeInv'
  <2> DEFINE s == Call("create", "link", g, r.name, <<>>, <<>>, None, r.adds)
  <2>1. <<>> \in Seq(Contacts) /\ <<>> \in Seq(Numbers) /\ Elems(<<>>) = {}
    BY ElemsEmpty
  <2>2. s \in CallSet
    BY <1>2, <2>1, CallTyped DEF Ops, Pcs
  <2>3. Equipped(s) /\ s.op = "create" /\ s.pc = "link" /\ s.group = g /\ s.adds = r.adds
    BY <1>2 DEF Equipped, Call
  <2>4. \A c \in Contacts : c \in Known(s) => number[c] # Unborn
    BY <1>2, <2>1, ContactGroupsAssumption DEF Known, Call
  <2>5. name'[g] \in Names /\ name'[g] # Unborn
        /\ name' \in [Groups -> Names \cup {Unborn, Gone}]
        /\ \A h \in Groups \ {g} : name'[h] = name[h]
    BY <1>1, <1>2, <1>4, ContactGroupsAssumption DEF TypeOK
  <2>6. calls' = [calls EXCEPT ![k] = s]
    BY <1>4
  <2> HIDE DEF s
  <2>7. GoesOn(k, s) /\ calls'[k] = s
    BY <1>1, <2>2, <2>3, <2>4, <2>5, <2>6, OneCall DEF GoesOn
  <2> QED
    BY <1>3, <1>4, <2>3, <2>5, <2>7
<1>5. ASSUME r.group # None, Group(r.group), AddMembers(k, r.group), UNCHANGED name,
             Goto(k, "link", None)
      PROVE  AgreeInv'
  <2>1. r.group \in Groups /\ name'[r.group] \in Names /\ name'[r.group] # Unborn
    BY <1>1, <1>5, WriterKnows, ContactGroupsAssumption DEF Group
  <2>2. PICK s \in CallSet :
             /\ GoesOn(k, s) /\ calls'[k] = s
             /\ s.op = r.op /\ s.pc = "link" /\ s.group = r.group /\ s.adds = r.adds
    BY <1>1, <1>5, <2>1, OtherWriteGoesOn
  <2>3. name \in [Groups -> Names \cup {Unborn, Gone}]
    BY <1>1 DEF TypeOK
  <2> HIDE DEF r
  <2> QED
    BY <1>1, <1>3, <1>5, <2>1, <2>2, <2>3
<1> QED
  BY <1>4, <1>5 DEF SaveCreated

\* A write that failed leaves its pairs torn.
LEMMA TornKeeps ==
    ASSUME AgreeInv, NEW k \in Calls, calls[k].pc \in {"save", "link"}, NEW s, GoesOn(k, s),
           \A c \in Elems(s.adds) : SideWritten(s, c),
           UNCHANGED <<contactDocs, groupDocs>>, faults' \in Nat,
           calls[k].group \in Groups,
           torn' = torn \cup Pairs(Elems(calls[k].adds), calls[k].group)
    PROVE  AgreeInv'
<1> DEFINE r == calls[k]
<1>1. RequestsInv /\ TypeOK
  BY DEF AgreeInv, RequestsInv
<1>2. Elems(r.adds) \subseteq Contacts
  BY <1>1, WriterKnows
<1>3. \A l \in Calls \ {k} : calls'[l] = calls[l]
  BY <1>1, OneCall DEF GoesOn
<1> HIDE DEF r
<1>4. torn' = torn \cup Pairs(Elems(r.adds), r.group) /\ r.group \in Groups
  BY DEF r
<1>5. ListsGrow
  <2>1. torn' \subseteq Contacts \X Groups
    BY <1>1, <1>2, <1>4 DEF Pairs, TypeOK
  <2> QED
    BY <1>1, <1>4, <2>1
       DEF ListsGrow, TypeOK, contactDocs, groupDocs, RequestsInv, UnbornUnknown
<1>6. ASSUME NEW c \in Contacts, NEW g \in Groups, name'[g] \in Names
      PROVE  PairKept(c, g)
  <2>1. CASE c \in Elems(r.adds) /\ g = r.group
    BY <1>4, <2>1 DEF PairKept, Pairs
  <2>2. CASE ~(c \in Elems(r.adds) /\ g = r.group)
    <3>1. Joining(c, g) => Joining(c, g)'
      BY <1>3, <2>2 DEF Joining, Elems, r
    <3> QED
      BY <1>6, <3>1 DEF PairKept, contactDocs, groupDocs, Group
  <2> QED
    BY <2>1, <2>2
<1> QED
  BY <1>5, <1>6, WriteKeepsAgreement

LEMMA SaveCreatedFailsKeeps ==
    ASSUME AgreeInv, NEW k \in Calls, SaveCreatedFails(k)
    PROVE  AgreeInv'
<1> DEFINE r == calls[k]
<1>1. RequestsInv /\ TypeOK /\ r.pc = "save" /\ r.op = "create"
      /\ UNCHANGED <<contactDocs, groupDocs>>
  BY DEF AgreeInv, RequestsInv, SaveCreatedFails
<1>2. faults' \in Nat
  BY <1>1 DEF SaveCreatedFails, SaveFails, TypeOK
<1>3. CASE r.group = None
  <2>1. End(k) /\ UNCHANGED torn
    BY <1>3 DEF SaveCreatedFails
  <2>2. /\ GoesOn(k, NoCall) /\ calls'[k] = NoCall
        /\ \A c \in Elems(NoCall.adds) : SideWritten(NoCall, c)
    BY <1>1, <2>1, EndGoesOn
  <2>3. \A l \in Calls \ {k} : calls'[l] = calls[l]
    BY <1>1, <2>2, OneCall DEF GoesOn
  <2>4. ListsGrow
    BY <1>1, <1>2, <2>1
       DEF ListsGrow, TypeOK, contactDocs, groupDocs, RequestsInv, UnbornUnknown
  <2>5. ASSUME NEW c \in Contacts, NEW g \in Groups, name'[g] \in Names
        PROVE  PairKept(c, g)
    <3>1. Joining(c, g) => Joining(c, g)'
      BY <1>1, <2>3 DEF Joining, Elems
    <3> QED
      BY <1>1, <2>5, <3>1 DEF PairKept, contactDocs, groupDocs, Group
  <2> QED
    BY <2>2, <2>4, <2>5, WriteKeepsAgreement
<1>4. CASE r.group # None
  <2>1. Goto(k, "link", None) /\ torn' = torn \cup Pairs(Elems(r.adds), r.group)
    BY <1>4 DEF SaveCreatedFails
  <2>2. r.group \in Groups /\ name'[r.group] # Unborn
    BY <1>1, <1>4, WriterKnows DEF groupDocs
  <2>3. PICK s \in CallSet :
             /\ GoesOn(k, s) /\ calls'[k] = s
             /\ s.op = r.op /\ s.pc = "link" /\ s.group = r.group /\ s.adds = r.adds
    BY <1>1, <2>1, <2>2, OtherWriteGoesOn
  <2>4. \A c \in Elems(s.adds) : SideWritten(s, c)
    BY <1>1, <2>1, <2>3 DEF SideWritten, Pairs
  <2> QED
    BY <1>1, <1>2, <2>1, <2>2, <2>3, <2>4, TornKeeps
<1> QED
  BY <1>3, <1>4

LEMMA UpdateOrLinkFailsKeeps ==
    ASSUME AgreeInv, NEW k \in Calls, SaveUpdatedFails(k) \/ LinkFails(k)
    PROVE  AgreeInv'
<1> DEFINE r == calls[k]
<1>1. /\ RequestsInv /\ TypeOK /\ r.pc \in {"save", "link"}
      /\ r.op = "update" \/ r.pc = "link"
      /\ UNCHANGED <<contactDocs, groupDocs>> /\ End(k)
      /\ torn' = torn \cup Pairs(Elems(r.adds), r.group)
  BY DEF AgreeInv, RequestsInv, SaveUpdatedFails, LinkFails
<1>2. faults' \in Nat
  BY <1>1 DEF SaveUpdatedFails, LinkFails, SaveFails, TypeOK
<1>3. r.group \in Groups
  BY <1>1, WriterKnows
<1>4. GoesOn(k, NoCall) /\ \A c \in Elems(NoCall.adds) : SideWritten(NoCall, c)
  BY <1>1, EndGoesOn
<1> QED
  BY <1>1, <1>2, <1>3, <1>4, TornKeeps

LEMMA SaveUpdatedKeeps ==
    ASSUME AgreeInv, NEW k \in Calls, SaveUpdated(k)
    PROVE  AgreeInv'
<1> DEFINE r == calls[k]
           g == calls[k].group
<1>1. /\ RequestsInv /\ TypeOK /\ r.pc = "save" /\ r.op = "update" /\ Group(g)
      /\ AddMembers(k, g) /\ End(k)
      /\ name' = [name EXCEPT ![g] = IF r.name = None THEN @ ELSE r.name]
      /\ UNCHANGED <<number, linked, torn, faults>>
  BY DEF AgreeInv, RequestsInv, SaveUpdated, contactDocs
<1>2. g \in Groups /\ r.name \in Names \cup {None} /\ Elems(r.adds) \subseteq Contacts
      /\ \A c \in Elems(r.adds) : number[c] # Unborn
  BY <1>1, WriterKnows
<1>3. /\ members' \in [Groups -> Seq(Contacts)]
      /\ Elems(members'[g]) = Elems(members[g]) \cup Elems(r.adds)
      /\ \A h \in Groups \ {g} : members'[h] = members[h]
  BY <1>1, <1>2, AddMembersAdds
<1>4. GoesOn(k, NoCall) /\ \A c \in Elems(NoCall.adds) : SideWritten(NoCall, c)
  BY <1>1, EndGoesOn
<1>5. \A l \in Calls \ {k} : calls'[l] = calls[l]
  BY <1>1, <1>4, OneCall DEF GoesOn
<1>6. \A c \in Elems(r.adds) : ~Contact(c) \/ g \in linked[c] \/ <<c, g>> \in torn
  BY <1>1 DEF AgreeInv, FirstWritten
<1>7. /\ name' \in [Groups -> Names \cup {Unborn, Gone}] /\ name'[g] \in Names
      /\ \A h \in Groups \ {g} : name'[h] = name[h]
  <2> DEFINE t == IF r.name = None THEN name[g] ELSE r.name
  <2>1. t \in Names
    BY <1>1, <1>2 DEF Group
  <2>2. name' = [name EXCEPT ![g] = t] /\ name \in [Groups -> Names \cup {Unborn, Gone}]
    BY <1>1 DEF TypeOK
  <2> HIDE DEF t, g
  <2> QED
    BY <1>2, <2>1, <2>2
<1>8. \A c \in Contacts, h \in Groups :
        Joining(c, h) /\ ~(c \in Elems(r.adds) /\ h = g) => Joining(c, h)'
  BY <1>5 DEF Joining, Elems
<1> HIDE DEF r, g
<1>9. ListsGrow
  <2>1. ASSUME NEW c \in Contacts, number[c] = Unborn
        PROVE  linked'[c] = {} /\ \A h \in Groups : c \notin Elems(members'[h])
    BY <1>1, <1>2, <1>3, <2>1 DEF RequestsInv, UnbornUnknown
  <2>2. ASSUME NEW h \in Groups, name'[h] = Unborn
        PROVE  /\ name[h] = Unborn /\ Elems(members'[h]) = {}
               /\ \A c \in Contacts : h \notin linked'[c]
    BY <1>1, <1>3, <1>7, <2>2, ContactGroupsAssumption DEF RequestsInv, UnbornUnknown
  <2> QED
    BY <1>1, <1>3, <1>7, <2>1, <2>2 DEF ListsGrow, TypeOK
<1>10. ASSUME NEW c \in Contacts, NEW h \in Groups, name'[h] \in Names
       PROVE  PairKept(c, h)
  <2>1. CASE c \in Elems(r.adds) /\ h = g
    BY <1>1, <1>3, <1>6, <2>1 DEF PairKept
  <2>2. CASE ~(c \in Elems(r.adds) /\ h = g)
    <3>1. c \in Elems(members'[h]) <=> c \in Elems(members[h])
      BY <1>3, <2>2
    <3>2. Group(h) \/ name[h] = Unborn
      BY <1>1, <1>7, <1>10 DEF Group
    <3> QED
      BY <1>1, <1>8, <2>2, <3>1, <3>2 DEF PairKept
  <2> QED
    BY <2>1, <2>2
<1> QED
  BY <1>4, <1>9, <1>10, WriteKeepsAgreement

LEMMA LinkKeeps ==
    ASSUME AgreeInv, NEW k \in Calls, Link(k)
    PROVE  AgreeInv'
<1> DEFINE r == calls[k]
           g == calls[k].group
<1>1. /\ RequestsInv /\ TypeOK /\ r.pc = "link"
      /\ linked' = [c \in Contacts |->
                      IF c \in Elems(r.adds) /\ Contact(c) THEN linked[c] \cup {g}
                      ELSE linked[c]]
      /\ UNCHANGED <<number, groupDocs, torn, faults>>
  BY DEF AgreeInv, RequestsInv, Link
<1>2. /\ g \in Groups /\ r.op \in {"create", "update"} /\ Elems(r.adds) \subseteq Contacts
      /\ g # None /\ name[g] # Unborn /\ name'[g] # Unborn
  BY <1>1, WriterKnows, ContactGroupsAssumption DEF groupDocs
<1>3. IF r.op = "create" THEN End(k) ELSE Goto(k, "save", None)
  BY DEF Link
<1>4. ListsGrow
  <2> HIDE DEF r, g
  <2>1. linked' \in [Contacts -> SUBSET Groups]
    BY <1>1, <1>2 DEF TypeOK
  <2>2. ASSUME NEW c \in Contacts
        PROVE  /\ linked[c] \subseteq linked'[c]
               /\ number[c] = Unborn => linked'[c] = {}
               /\ \A h \in Groups : h # g => (h \in linked'[c] <=> h \in linked[c])
    BY <1>1, ContactGroupsAssumption DEF RequestsInv, UnbornUnknown, Contact
  <2>3. ASSUME NEW h \in Groups, name'[h] = Unborn
        PROVE  /\ name[h] = Unborn /\ Elems(members'[h]) = {}
               /\ \A c \in Contacts : h \notin linked'[c]
    BY <1>1, <1>2, <2>2, <2>3 DEF RequestsInv, UnbornUnknown, groupDocs
  <2>4. ASSUME NEW c \in Contacts, number[c] = Unborn
        PROVE  \A h \in Groups : c \notin Elems(members'[h])
    BY <1>1, <2>4 DEF RequestsInv, UnbornUnknown, groupDocs
  <2> QED
    BY <1>1, <2>1, <2>2, <2>3, <2>4 DEF ListsGrow, TypeOK, groupDocs
<1>5. ASSUME NEW c \in Contacts, NEW h \in Groups, name'[h] \in Names,
             ~(c \in Elems(r.adds) /\ h = g), Joining(c, h) => Joining(c, h)'
      PROVE  PairKept(c, h)
  <2> HIDE DEF r, g
  <2>1. h \in linked'[c] <=> h \in linked[c]
    BY <1>1, <1>5
  <2> QED
    BY <1>1, <1>5, <2>1 DEF PairKept, groupDocs, Group
<1>6. CASE r.op = "create"
  <2>1. GoesOn(k, NoCall) /\ \A c \in Elems(NoCall.adds) : SideWritten(NoCall, c)
    BY <1>1, <1>3, <1>6, EndGoesOn
  <2>2. \A l \in Calls \ {k} : calls'[l] = calls[l]
    BY <1>1, <2>1, OneCall DEF GoesOn
  <2>3. ASSUME NEW c \in Contacts, NEW h \in Groups, name'[h] \in Names
        PROVE  PairKept(c, h)
    <3>1. CASE c \in Elems(r.adds) /\ h = g
      <4>1. c \in Elems(members[g]) \/ <<c, g>> \in torn
        BY <1>1, <1>6, <3>1 DEF AgreeInv, FirstWritten
      <4>2. Contact(c) => g \in linked'[c]
        BY <1>1, <3>1
      <4> QED
        BY <1>1, <3>1, <4>1, <4>2 DEF PairKept, groupDocs
    <3>2. CASE ~(c \in Elems(r.adds) /\ h = g)
      <4>1. Joining(c, h) => Joining(c, h)'
        BY <2>2, <3>2 DEF Joining, Elems
      <4> QED
        BY <1>5, <2>3, <3>2, <4>1
    <3> QED
      BY <3>1, <3>2
  <2> QED
    BY <1>4, <2>1, <2>3, WriteKeepsAgreement
<1>7. CASE r.op # "create"
  <2>1. PICK s \in CallSet :
             /\ GoesOn(k, s) /\ calls'[k] = s
             /\ s.op = r.op /\ s.pc = "save" /\ s.group = g /\ s.adds = r.adds
    BY <1>1, <1>2, <1>3, <1>7, OtherWriteGoesOn
  <2>2. \A l \in Calls \ {k} : calls'[l] = calls[l]
    BY <1>1, <2>1, OneCall DEF GoesOn
  <2>3. \A c \in Elems(s.adds) : SideWritten(s, c)
    BY <1>1, <1>2, <2>1 DEF SideWritten
  <2>4. ASSUME NEW c \in Contacts, NEW h \in Groups, name'[h] \in Names
        PROVE  PairKept(c, h)
    <3>1. CASE c \in Elems(r.adds) /\ h = g
      <4>1. Joining(c, h)'
        BY <1>2, <1>7, <2>1, <3>1 DEF Joining, Elems
      <4> QED
        BY <4>1 DEF PairKept
    <3>2. CASE ~(c \in Elems(r.adds) /\ h = g)
      <4>1. Joining(c, h) => Joining(c, h)'
        BY <2>2, <3>2 DEF Joining, Elems
      <4> QED
        BY <1>5, <2>4, <3>2, <4>1
    <3> QED
      BY <3>1, <3>2
  <2> QED
    BY <1>4, <2>1, <2>3, <2>4, WriteKeepsAgreement
<1> QED
  BY <1>6, <1>7

-----------------------------------------------------------------------------
(* The requests of one write, and the theorems *)

LEMMA DeleteContactKeeps ==
    ASSUME AgreeInv, NEW c \in Contacts, DeleteContact(c)
    PROVE  AgreeInv'
<1>1. /\ Contact(c) /\ number' = [number EXCEPT ![c] = Gone]
      /\ UNCHANGED <<linked, name, members, calls, torn, faults>> /\ RequestsInv /\ TypeOK
  BY DEF AgreeInv, RequestsInv, DeleteContact, groupDocs
<1>2. /\ \A x \in Contacts : Contact(x)' => Contact(x) /\ number'[x] = number[x]
      /\ \A x \in Contacts : number'[x] = Unborn => number[x] = Unborn
      /\ number' \in [Contacts -> Numbers \cup {Unborn, Gone}]
  <2>1. number \in [Contacts -> Numbers \cup {Unborn, Gone}]
    BY <1>1 DEF TypeOK
  <2> QED
    BY <1>1, <2>1, Markers DEF Contact
<1>3. TypeOK'
  <2>1. \A x, y \in Contacts : Contact(x)' /\ number'[x] = number'[y] => x = y
    <3> SUFFICES ASSUME NEW x \in Contacts, NEW y \in Contacts,
                        Contact(x)', number'[x] = number'[y]
                 PROVE  x = y
      OBVIOUS
    <3>1. Contact(x) /\ number'[x] = number[x] /\ number'[y] \in Numbers
      BY <1>2 DEF Contact
    <3>2. number'[y] = number[y]
      BY <1>2, <3>1 DEF Contact
    <3> QED
      BY <1>1, <3>1, <3>2 DEF TypeOK
  <2> QED
    BY <1>1, <1>2, <2>1 DEF TypeOK
<1>4. AllEquipped'
  BY <1>1 DEF RequestsInv, AllEquipped, Equipped
<1>5. UnbornUnknown'
  BY <1>1, <1>2 DEF RequestsInv, UnbornUnknown, Known, Elems
<1>6. \A k \in Calls : Elems(calls[k].adds) \subseteq Contacts
  BY <1>1, FieldsTyped, ElemsOf
<1>7. FirstWritten'
  BY <1>1, <1>2, <1>6 DEF AgreeInv, FirstWritten, Elems
<1>8. MembershipAgrees'
  BY <1>1, <1>2 DEF AgreeInv, MembershipAgrees, Joining, Elems, Group
<1> QED
  BY <1>3, <1>4, <1>5, <1>7, <1>8 DEF AgreeInv, RequestsInv

LEMMA DeleteGroupKeeps ==
    ASSUME AgreeInv, NEW g \in Groups, DeleteGroup(g)
    PROVE  AgreeInv'
<1>1. /\ Group(g) /\ name' = [name EXCEPT ![g] = Gone]
      /\ UNCHANGED <<number, linked, members, calls, torn, faults>> /\ RequestsInv /\ TypeOK
  BY DEF AgreeInv, RequestsInv, DeleteGroup, contactDocs
<1>2. /\ \A h \in Groups : name'[h] \in Names => Group(h)
      /\ \A h \in Groups : name'[h] = Unborn => name[h] = Unborn
      /\ name' \in [Groups -> Names \cup {Unborn, Gone}]
  <2>1. name \in [Groups -> Names \cup {Unborn, Gone}]
    BY <1>1 DEF TypeOK
  <2> QED
    BY <1>1, <2>1, Markers DEF Group
<1>3. TypeOK' /\ AllEquipped'
  BY <1>1, <1>2 DEF TypeOK, RequestsInv, AllEquipped, Equipped, Contact
<1>4. UnbornUnknown'
  <2>1. ASSUME NEW c \in Contacts, number[c] = Unborn
        PROVE  /\ linked[c] = {}
               /\ \A h \in Groups : c \notin Elems(members[h])
               /\ \A k \in Calls : c \notin Known(calls[k])
    BY <1>1, <2>1 DEF RequestsInv, UnbornUnknown
  <2>2. ASSUME NEW h \in Groups, name'[h] = Unborn
        PROVE  /\ Elems(members[h]) = {}
               /\ \A c \in Contacts : h \notin linked[c]
               /\ \A k \in Calls : calls[k].group # h
    BY <1>1, <1>2, <2>2 DEF RequestsInv, UnbornUnknown
  <2> QED
    BY <1>1, <2>1, <2>2 DEF UnbornUnknown, Known, Elems
<1>5. FirstWritten'
  BY <1>1 DEF AgreeInv, FirstWritten, Elems, Contact
<1>6. MembershipAgrees'
  BY <1>1, <1>2 DEF AgreeInv, MembershipAgrees, Joining, Elems, Contact, Group
<1> QED
  BY <1>3, <1>4, <1>5, <1>6 DEF AgreeInv, RequestsInv

\* A request of one write that changes the contact's side alone.
LEMMA OneSideKeeps ==
    ASSUME AgreeInv, OneSided, UNCHANGED <<number, calls>>
    PROVE  AgreeInv'
<1>1. /\ UNCHANGED <<number, name, members, calls, faults>> /\ RequestsInv /\ TypeOK
  BY DEF AgreeInv, RequestsInv, OneSided, groupDocs
<1>2. /\ linked' \in [Contacts -> SUBSET Groups]
      /\ torn' \subseteq Contacts \X Groups /\ torn \subseteq torn'
      /\ \A x \in Contacts, h \in Groups :
           <<x, h>> \notin torn' => (h \in linked'[x] <=> h \in linked[x])
      /\ \A x \in Contacts : number[x] = Unborn => linked'[x] = linked[x]
      /\ \A x \in Contacts, h \in Groups : h \in linked'[x] => name[h] # Unborn
  BY <1>1 DEF OneSided
<1>3. TypeOK' /\ AllEquipped'
  BY <1>1, <1>2 DEF TypeOK, RequestsInv, AllEquipped, Equipped, Contact
<1>4. UnbornUnknown'
  BY <1>1, <1>2 DEF RequestsInv, UnbornUnknown, Known, Elems
<1>5. ASSUME NEW k \in Calls, NEW x \in Elems(calls[k].adds)
      PROVE  LET h == calls[k].group IN
             /\ calls[k].pc = "link" /\ calls[k].op = "create" =>
                   x \in Elems(members[h]) \/ <<x, h>> \in torn'
             /\ calls[k].pc = "save" /\ calls[k].op = "update" =>
                   ~Contact(x) \/ h \in linked'[x] \/ <<x, h>> \in torn'
  <2>1. x \in Contacts
    BY <1>1, <1>5, FieldsTyped, ElemsOf
  <2>2. calls[k].op = "update" => calls[k].group \in Groups
    BY <1>1 DEF RequestsInv, AllEquipped, Equipped
  <2> QED
    BY <1>1, <1>2, <1>5, <2>1, <2>2 DEF AgreeInv, FirstWritten
<1>6. FirstWritten'
  BY <1>1, <1>5 DEF FirstWritten, Elems, Contact
<1>7. MembershipAgrees'
  BY <1>1, <1>2 DEF AgreeInv, MembershipAgrees, Joining, Elems, Contact, Group
<1> QED
  BY <1>3, <1>4, <1>6, <1>7 DEF AgreeInv, RequestsInv

LEMMA ByHandOneSided ==
    ASSUME RequestsInv, NEW c \in Contacts,
           \/ \E g \in Groups : AddToGroup(c, g) \/ RemoveFromGroup(c, g)
           \/ \E gs \in SUBSET {g \in Groups : name[g] # Unborn} : EditGroups(c, gs)
    PROVE  OneSided /\ UNCHANGED <<number, members, calls>>
<1>1. linked \in [Contacts -> SUBSET Groups] /\ torn \subseteq Contacts \X Groups
  BY DEF RequestsInv, TypeOK
<1>2. \A x \in Contacts, h \in Groups : h \in linked[x] => name[h] # Unborn
  BY DEF RequestsInv, UnbornUnknown
<1>3. ASSUME Contact(c) PROVE number[c] # Unborn
  BY <1>3, Markers DEF Contact
<1>4. ASSUME NEW g \in Groups, NEW gs \in SUBSET Groups, Contact(c),
             linked' = [linked EXCEPT ![c] = gs], torn' = torn \cup {<<c, g>>},
             (gs = linked[c] \cup {g} /\ Group(g)) \/ gs = linked[c] \ {g},
             UNCHANGED <<number, groupDocs, calls, faults>>
      PROVE  OneSided
  <2>1. \A x \in Contacts : linked'[x] = IF x = c THEN gs ELSE linked[x]
    BY <1>1, <1>4
  <2>2. linked' \in [Contacts -> SUBSET Groups]
    BY <1>1, <1>4
  <2>3. Group(g) => name[g] # Unborn
    BY Markers DEF Group
  <2>4. \A x \in Contacts, h \in Groups :
          <<x, h>> \notin torn' => (h \in linked'[x] <=> h \in linked[x])
    BY <1>4, <2>1
  <2>5. \A x \in Contacts, h \in Groups : h \in linked'[x] => name[h] # Unborn
    BY <1>2, <1>4, <2>1, <2>3
  <2> QED
    BY <1>1, <1>3, <1>4, <2>1, <2>2, <2>4, <2>5 DEF OneSided
<1>5. ASSUME NEW g \in Groups, AddToGroup(c, g) \/ RemoveFromGroup(c, g)
      PROVE  OneSided
  <2>1. linked[c] \cup {g} \in SUBSET Groups /\ linked[c] \ {g} \in SUBSET Groups
    BY <1>1
  <2> QED
    BY <1>4, <1>5, <2>1 DEF AddToGroup, RemoveFromGroup
<1>6. ASSUME NEW gs \in SUBSET {g \in Groups : name[g] # Unborn}, EditGroups(c, gs)
      PROVE  OneSided
  <2>1. number'[c] # Unborn
    BY <1>3, <1>6 DEF EditGroups
  <2> QED
    BY <1>6, <2>1, RegroupOneSided DEF EditGroups
<1>7. UNCHANGED <<number, members, calls>>
  BY DEF AddToGroup, RemoveFromGroup, EditGroups, groupDocs
<1> QED
  BY <1>5, <1>6, <1>7

LEMMA InitAgrees == Init => AgreeInv
<1> SUFFICES ASSUME Init PROVE AgreeInv
  OBVIOUS
<1>1. <<>> \in Seq(Contacts)
  OBVIOUS
<1>2. TypeOK
  BY <1>1, NoCallTyped, ContactGroupsAssumption DEF Init, TypeOK, Contact
<1>3. \A k \in Calls : calls[k] = NoCall
  BY DEF Init
<1>4. Known(NoCall) = {None} /\ NoCall.group = None /\ Elems(NoCall.adds) = {}
  BY ElemsEmpty DEF Known, NoCall, Call
<1>5. AllEquipped /\ FirstWritten
  BY <1>3, <1>4, NoCallTyped DEF AllEquipped, FirstWritten
<1>6. UnbornUnknown
  BY <1>3, <1>4, ElemsEmpty, ContactGroupsAssumption DEF Init, UnbornUnknown
<1>7. MembershipAgrees
  BY ContactGroupsAssumption DEF Init, MembershipAgrees, Contact
<1> QED
  BY <1>2, <1>5, <1>6, <1>7 DEF AgreeInv, RequestsInv

LEMMA NextAgrees == AgreeInv /\ [Next]_vars => AgreeInv'
<1> SUFFICES ASSUME AgreeInv, [Next]_vars PROVE AgreeInv'
  OBVIOUS
<1>1. ASSUME NEW k \in Calls, Preparing(k)
      PROVE  AgreeInv'
  BY <1>1, PreparationKeepsAgreement DEF Preparing
<1>2. ASSUME NEW k \in Calls, Proceed(k) \/ Request(k)
      PROVE  AgreeInv'
  <2>1. RequestsInv
    BY DEF AgreeInv
  <2>2. CASE \/ FindMember(k) \/ TakeFirst(k) \/ CheckNumber(k)
             \/ WriteNumber(k) \/ LookUp(k) \/ InsertContact(k) \/ Request(k)
    BY <1>1, <2>1, <2>2, NumberStepPrepares, RequestPrepares
  <2>3. CASE \/ SaveCreated(k) \/ SaveCreatedFails(k) \/ SaveUpdated(k)
             \/ SaveUpdatedFails(k) \/ Link(k) \/ LinkFails(k)
    BY <2>3, SaveCreatedKeeps, SaveCreatedFailsKeeps, SaveUpdatedKeeps,
       UpdateOrLinkFailsKeeps, LinkKeeps
  <2> QED
    BY <1>2, <2>2, <2>3 DEF Proceed
<1>3. ASSUME NEW c \in Contacts,
             \/ DeleteContact(c) \/ \E g \in Groups : AddToGroup(c, g) \/ RemoveFromGroup(c, g)
             \/ \E gs \in SUBSET {g \in Groups : name[g] # Unborn} : EditGroups(c, gs)
      PROVE  AgreeInv'
  <2>1. RequestsInv
    BY DEF AgreeInv
  <2> QED
    BY <1>3, <2>1, DeleteContactKeeps, ByHandOneSided, OneSideKeeps
<1>4. ASSUME NEW g \in Groups, DeleteGroup(g)
      PROVE  AgreeInv'
  BY <1>4, DeleteGroupKeeps
<1>5. CASE UNCHANGED vars
  <2>1. RequestsInv'
    <3> USE <1>5 DEF vars, contactDocs, groupDocs, AgreeInv, RequestsInv
    <3>1. TypeOK'
      BY DEF TypeOK, Contact
    <3>2. AllEquipped'
      BY DEF AllEquipped, Equipped
    <3>3. UnbornUnknown'
      BY DEF UnbornUnknown, Known, Elems
    <3> QED
      BY <3>1, <3>2, <3>3
  <2>2. FirstWritten'
    BY <1>5 DEF vars, contactDocs, groupDocs, AgreeInv, FirstWritten, Elems, Contact
  <2>3. MembershipAgrees'
    BY <1>5 DEF vars, contactDocs, groupDocs, AgreeInv, MembershipAgrees, Joining, Elems,
                Contact, Group
  <2> QED
    BY <2>1, <2>2, <2>3 DEF AgreeInv
<1> QED
  BY <1>2, <1>3, <1>4, <1>5 DEF Next

LEMMA AlwaysAgrees == Spec => []AgreeInv
  BY InitAgrees, NextAgrees, PTL DEF Spec

\* The types hold in every reachable state, and no two contacts have one number
\* (contact.schema.ts: the unique index).
THEOREM TypeCorrect == Spec => []TypeOK
<1>1. AgreeInv => TypeOK
  BY DEF AgreeInv, RequestsInv
<1> QED
  BY <1>1, AlwaysAgrees, PTL

\* Any number of requests over the same groups and numbers leave the two sides of every
\* membership in agreement, but for pairs of which a write failed, or that a request for
\* the contact changed on the contact's side alone (groups.service.ts:47, 176).
THEOREM SidesAgree == Spec => []MembershipAgrees
<1>1. AgreeInv => MembershipAgrees
  BY DEF AgreeInv
<1> QED
  BY <1>1, AlwaysAgrees, PTL

\* No request takes a member from a group, however many have read its members before
\* (groups.service.ts:47, 188).
THEOREM MembersStay == Spec => NoMemberLost
<1> DEFINE Kept == \A g \in Groups : Elems(members[g]) \subseteq Elems(members'[g])
<1>1. ASSUME AgreeInv, [Next]_vars PROVE Kept
  <2>1. RequestsInv
    BY <1>1 DEF AgreeInv
  <2>2. ASSUME NEW k \in Calls, NEW g \in Groups, AddMembers(k, g)
        PROVE  Kept
    BY <2>1, <2>2, AddMembersAdds
  <2>3. CASE UNCHANGED members
    BY <2>3
  <2>4. ASSUME NEW k \in Calls, Proceed(k) \/ Request(k)
        PROVE  Kept
    <3>1. ASSUME Preparing(k) PROVE UNCHANGED members
      BY <3>1 DEF Preparing, OneSided, groupDocs
    <3>2. CASE \/ FindMember(k) \/ TakeFirst(k) \/ CheckNumber(k)
               \/ WriteNumber(k) \/ LookUp(k) \/ InsertContact(k) \/ Request(k)
      BY <2>1, <2>3, <3>1, <3>2, NumberStepPrepares, RequestPrepares
    <3>3. CASE SaveCreatedFails(k) \/ SaveUpdatedFails(k) \/ Link(k) \/ LinkFails(k)
      BY <2>3, <3>3 DEF SaveCreatedFails, SaveUpdatedFails, Link, LinkFails, groupDocs
    <3>4. CASE SaveCreated(k) \/ SaveUpdated(k)
      <4>1. \E g \in Groups : AddMembers(k, g)
        BY <2>1, <3>4, WriterKnows DEF SaveCreated, SaveUpdated
      <4> QED
        BY <2>2, <4>1
    <3> QED
      BY <2>4, <3>2, <3>3, <3>4 DEF Proceed
  <2>5. ASSUME NEW c \in Contacts,
               \/ DeleteContact(c) \/ \E g \in Groups : AddToGroup(c, g) \/ RemoveFromGroup(c, g)
               \/ \E gs \in SUBSET {g \in Groups : name[g] # Unborn} : EditGroups(c, gs)
        PROVE  Kept
    <3>1. UNCHANGED members
      BY <2>1, <2>5, ByHandOneSided DEF DeleteContact, groupDocs
    <3> QED
      BY <2>3, <3>1
  <2>6. ASSUME NEW g \in Groups, DeleteGroup(g)
        PROVE  Kept
    BY <2>3, <2>6 DEF DeleteGroup
  <2>7. CASE UNCHANGED vars
    BY <2>3, <2>7 DEF vars, groupDocs
  <2> HIDE DEF Kept
  <2> QED
    BY <1>1, <2>4, <2>5, <2>6, <2>7 DEF Next
<1>2. AgreeInv /\ [Next]_vars
        => [\A g \in Groups : Elems(members[g]) \subseteq Elems(members'[g])]_vars
  BY <1>1
<1> QED
  BY <1>2, AlwaysAgrees, PTL DEF Spec, NoMemberLost

-----------------------------------------------------------------------------
(* The sockets of a user *)

\* A live socket with a user is in the user's set.
Listed ==
    \A s \in Sockets : Live(s) /\ userId[s] # Nobody => s \in userSockets[userId[s]]

\* What holds of a socket on which no requests of different users overlapped: it is listed
\* under the user it has only, the requests that await a token on it are of one user, and
\* the socket has that user or none.
OwnUser(s) == \A u \in Users : s \in userSockets[u] => userId[s] = u
OneClaim(s) ==
    \A k, l \in Checks :
        checks[k].socket = s /\ checks[l].socket = s => checks[k].user = checks[l].user
Unclaimed(s) ==
    \A k \in Checks : checks[k].socket = s => userId[s] \in {Nobody, checks[k].user}

\* A socket that has not connected yet.
Fresh ==
    \A s \in Sockets : phase[s] = "new" =>
        userId[s] = Nobody /\ \A k \in Checks : checks[k].socket # s

ListedInv == missed = {} /\ Listed /\ Fresh
HearsInv  == Fresh /\ \A s \in Sockets \ raced : OwnUser(s) /\ OneClaim(s) /\ Unclaimed(s)

-----------------------------------------------------------------------------
(* Types *)

\* A new user for a socket.
LEMMA SetType ==
    ASSUME GatewayTypeOK, NEW s \in Sockets, NEW u \in Users, SetSocketAuthentication(s, u)
    PROVE  /\ userId' \in [Sockets -> Users \cup {Nobody}] /\ socketAuth' = userId'
           /\ userSockets' \in [Users -> SUBSET Sockets]
  BY DEF GatewayTypeOK, SetSocketAuthentication

LEMMA CallsType ==
    ASSUME GatewayTypeOK, NEW k \in Checks, NEW c \in [socket : Sockets, user : Users] \cup {NoCheck},
           checks' = [checks EXCEPT ![k] = c]
    PROVE  checks' \in [Checks -> [socket : Sockets, user : Users] \cup {NoCheck}]
  BY DEF GatewayTypeOK

LEMMA AwaitType ==
    ASSUME GatewayTypeOK, NEW k \in Checks, NEW s \in Sockets, NEW u \in Users, AwaitToken(k, s, u)
    PROVE  GatewayTypeOK'
<1>1. Check(s, u) \in [socket : Sockets, user : Users]
  BY DEF Check
<1>2. checks' \in [Checks -> [socket : Sockets, user : Users] \cup {NoCheck}]
  BY <1>1, CallsType DEF AwaitToken
<1> QED
  BY <1>2 DEF GatewayTypeOK, AwaitToken, maps

LEMMA NextSocketTypes ==
    ASSUME GatewayTypeOK, [GatewayNext]_gatewayVars
    PROVE  GatewayTypeOK'
<1>1. ASSUME NEW s \in Sockets, Connect(s)
      PROVE  GatewayTypeOK'
  <2>1. phase' \in [Sockets -> {"new", "live", "dead"}]
    BY <1>1 DEF Connect, GatewayTypeOK
  <2>2. CASE \E u \in Users : SetSocketAuthentication(s, u)
    BY <1>1, <2>1, <2>2, SetType DEF Connect, GatewayTypeOK, history
  <2>3. CASE UNCHANGED <<userId, maps>>
    BY <1>1, <2>1, <2>3 DEF Connect, GatewayTypeOK, maps, history
  <2> QED
    BY <1>1, <2>2, <2>3 DEF Connect, AuthenticateSocket
<1>2. ASSUME NEW s \in Sockets, Disconnect(s)
      PROVE  GatewayTypeOK'
  BY <1>2 DEF Disconnect, GatewayTypeOK, maps, history
<1>3. ASSUME NEW k \in Checks, Validated(k)
      PROVE  GatewayTypeOK'
  <2>1. checks[k].socket \in Sockets /\ checks[k].user \in Users
    BY <1>3 DEF Validated, GatewayTypeOK
  <2>2. checks' \in [Checks -> [socket : Sockets, user : Users] \cup {NoCheck}]
    BY <1>3, CallsType DEF Validated
  <2> QED
    BY <1>3, <2>1, <2>2, SetType DEF Validated, GatewayTypeOK, history
<1>4. ASSUME NEW k \in Checks, NotValidated(k)
      PROVE  GatewayTypeOK'
  <2>1. checks' \in [Checks -> [socket : Sockets, user : Users] \cup {NoCheck}]
    BY <1>4, CallsType DEF NotValidated
  <2> QED
    BY <1>4, <2>1 DEF NotValidated, GatewayTypeOK, maps, history
<1>5. ASSUME NEW k \in Checks, NEW s \in Sockets, NEW u \in Users, AwaitToken(k, s, u)
      PROVE  GatewayTypeOK'
  BY <1>5, AwaitType
<1>6. CASE BroadcastToAll
  <2>1. missed' \subseteq Sockets
    BY <1>6 DEF BroadcastToAll, GatewayTypeOK
  <2> QED
    BY <1>6, <2>1 DEF BroadcastToAll, GatewayTypeOK, maps
<1>7. ASSUME NEW u \in Users, BroadcastToUser(u) \/ AskUserConnected(u)
      PROVE  GatewayTypeOK'
  <2>1. userSockets' \in [Users -> SUBSET Sockets]
    BY <1>7 DEF BroadcastToUser, AskUserConnected, DropOrphaned, GatewayTypeOK
  <2>2. missed' \subseteq Sockets
    BY <1>7 DEF BroadcastToUser, AskUserConnected, GatewayTypeOK, history
  <2> QED
    BY <1>7, <2>1, <2>2 DEF BroadcastToUser, AskUserConnected, GatewayTypeOK, history
<1>8. CASE UNCHANGED gatewayVars
  BY <1>8 DEF gatewayVars, GatewayTypeOK, maps, history
<1> QED
  BY <1>1, <1>2, <1>3, <1>4, <1>5, <1>6, <1>7, <1>8 DEF GatewayNext

\* The maps of the gateway always have their types, and socketAuth and client.userId agree.
THEOREM SocketTypes == GatewaySpec => []GatewayTypeOK
<1>1. GatewayInit => GatewayTypeOK
  BY DEF GatewayInit, GatewayTypeOK
<1> QED
  BY <1>1, NextSocketTypes, PTL DEF GatewaySpec

-----------------------------------------------------------------------------
(* Reaching a user *)

\* Only a connection makes a socket known.
LEMMA NextFresh ==
    ASSUME GatewayTypeOK, Fresh, [GatewayNext]_gatewayVars
    PROVE  Fresh'
<1> USE DEF Fresh
<1>1. ASSUME NEW s \in Sockets, Connect(s)
      PROVE  Fresh'
  <2>1. \A r \in Sockets : phase'[r] = "new" => r # s /\ phase[r] = "new" /\ userId'[r] = userId[r]
    BY <1>1 DEF Connect, AuthenticateSocket, SetSocketAuthentication, GatewayTypeOK
  <2> QED
    BY <1>1, <2>1 DEF Connect
<1>2. ASSUME NEW s \in Sockets, Disconnect(s)
      PROVE  Fresh'
  BY <1>2 DEF Disconnect, GatewayTypeOK
<1>3. ASSUME NEW k \in Checks, Validated(k) \/ NotValidated(k)
      PROVE  Fresh'
  <2>1. checks[k].socket \in Sockets /\ phase[checks[k].socket] # "new"
    BY <1>3 DEF Validated, NotValidated, GatewayTypeOK
  <2>2. \A l \in Checks : checks'[l] = IF l = k THEN NoCheck ELSE checks[l]
    BY <1>3 DEF Validated, NotValidated, GatewayTypeOK
  <2>3. \A s \in Sockets \ {checks[k].socket} : userId'[s] = userId[s]
    BY <1>3 DEF Validated, NotValidated, SetSocketAuthentication, GatewayTypeOK
  <2>4. phase' = phase
    BY <1>3 DEF Validated, NotValidated
  <2> QED
    BY <2>1, <2>2, <2>3, <2>4, SocketAssumption DEF NoCheck, Check
<1>4. ASSUME NEW k \in Checks, NEW s \in Sockets, NEW u \in Users, AwaitToken(k, s, u)
      PROVE  Fresh'
  <2>1. \A l \in Checks : checks'[l] = IF l = k THEN Check(s, u) ELSE checks[l]
    BY <1>4 DEF AwaitToken, GatewayTypeOK
  <2> QED
    BY <1>4, <2>1 DEF AwaitToken, Live, Check
<1>5. CASE BroadcastToAll
  BY <1>5 DEF BroadcastToAll
<1>6. ASSUME NEW u \in Users, BroadcastToUser(u) \/ AskUserConnected(u)
      PROVE  Fresh'
  BY <1>6 DEF BroadcastToUser, AskUserConnected
<1>7. CASE UNCHANGED gatewayVars
  BY <1>7 DEF gatewayVars
<1> QED
  BY <1>1, <1>2, <1>3, <1>4, <1>5, <1>6, <1>7 DEF GatewayNext

\* Authenticating a socket lists it under its new user and takes nobody off a list.
LEMMA SetListed ==
    ASSUME GatewayTypeOK, Listed, NEW s \in Sockets, NEW u \in Users, SetSocketAuthentication(s, u),
           \A r \in Sockets \ {s} : phase'[r] = phase[r]
    PROVE  Listed'
<1>1. userId'[s] = u /\ s \in userSockets'[u]
  BY DEF SetSocketAuthentication, GatewayTypeOK
<1>2. ASSUME NEW r \in Sockets \ {s}, Live(r)', userId'[r] # Nobody
      PROVE  r \in userSockets'[userId'[r]]
  <2>1. userId'[r] = userId[r] /\ userId[r] \in Users /\ r \in userSockets[userId[r]]
    BY <1>2 DEF SetSocketAuthentication, GatewayTypeOK, Listed, Live
  <2>2. userSockets[userId[r]] \subseteq userSockets'[userId[r]]
    BY <2>1 DEF SetSocketAuthentication, GatewayTypeOK
  <2> QED
    BY <2>1, <2>2
<1> QED
  BY <1>1, <1>2 DEF Listed

\* A set is dropped only with no live socket in it.
LEMMA DropListed ==
    ASSUME GatewayTypeOK, Listed, NEW u \in Users, DropOrphaned(u), UNCHANGED <<phase, userId>>
    PROVE  Listed'
<1>1. ASSUME NEW s \in Sockets, Live(s), userId[s] # Nobody
      PROVE  s \in userSockets'[userId[s]]
  <2>1. userId[s] \in Users /\ s \in userSockets[userId[s]]
    BY <1>1 DEF GatewayTypeOK, Listed
  <2>2. s \in Audience(userId[s])
    BY <1>1, <2>1 DEF Audience
  <2> QED
    BY <2>1, <2>2 DEF DropOrphaned, GatewayTypeOK
<1> QED
  BY <1>1 DEF Listed, Live

LEMMA NextListed ==
    ASSUME GatewayTypeOK, ListedInv, [GatewayNext]_gatewayVars
    PROVE  missed' = {} /\ Listed'
<1>1. ASSUME NEW s \in Sockets, Connect(s)
      PROVE  missed' = {} /\ Listed'
  <2>1. missed' = missed /\ \A r \in Sockets \ {s} : phase'[r] = phase[r]
    BY <1>1 DEF Connect, GatewayTypeOK, history
  <2>2. CASE \E u \in Users : SetSocketAuthentication(s, u)
    BY <2>1, <2>2, SetListed DEF ListedInv
  <2>3. CASE UNCHANGED <<userId, maps>>
    <3>1. userId'[s] = Nobody
      BY <1>1, <2>3 DEF Connect, ListedInv, Fresh
    <3> QED
      BY <2>1, <2>3, <3>1 DEF ListedInv, Listed, Live, maps
  <2> QED
    BY <1>1, <2>2, <2>3 DEF Connect, AuthenticateSocket
<1>2. ASSUME NEW s \in Sockets, Disconnect(s)
      PROVE  missed' = {} /\ Listed'
  BY <1>2 DEF Disconnect, ListedInv, Listed, Live, GatewayTypeOK, maps, history
<1>3. ASSUME NEW k \in Checks, Validated(k)
      PROVE  missed' = {} /\ Listed'
  <2>1. checks[k].socket \in Sockets /\ checks[k].user \in Users
    BY <1>3 DEF Validated, GatewayTypeOK
  <2> QED
    BY <1>3, <2>1, SetListed DEF Validated, ListedInv, history
<1>4. ASSUME NEW k \in Checks, NEW s \in Sockets, NEW u \in Users, AwaitToken(k, s, u)
      PROVE  missed' = {} /\ Listed'
  BY <1>4 DEF AwaitToken, ListedInv, Listed, Live, maps
<1>5. ASSUME NEW u \in Users, BroadcastToUser(u)
      PROVE  missed' = {} /\ Listed'
  <2>1. {s \in Sockets : Live(s) /\ userId[s] = u} \subseteq Audience(u)
    BY SocketAssumption DEF ListedInv, Listed, Audience
  <2> QED
    BY <1>5, <2>1, DropListed DEF BroadcastToUser, ListedInv
<1>6. ASSUME NEW u \in Users, AskUserConnected(u)
      PROVE  missed' = {} /\ Listed'
  BY <1>6, DropListed DEF AskUserConnected, ListedInv, history
<1>7. CASE UNCHANGED gatewayVars
  BY <1>7 DEF gatewayVars, ListedInv, Listed, Live, maps, history
<1>8. ASSUME NEW k \in Checks, NotValidated(k)
      PROVE  missed' = {} /\ Listed'
  BY <1>8 DEF NotValidated, ListedInv, Listed, Live, maps, history
<1>9. CASE BroadcastToAll
  BY <1>9 DEF BroadcastToAll, GatewayTypeOK, ListedInv, Listed, Live, maps
<1> QED
  BY <1>1, <1>2, <1>3, <1>4, <1>5, <1>6, <1>7, <1>8, <1>9 DEF GatewayNext

\* However connections and authentications follow each other, a user's broadcasts reach
\* all its live sockets and it is known to be connected.
THEOREM UserReached == GatewaySpec => []ReachesUser
<1>1. GatewayInit => ListedInv
  BY SocketAssumption DEF GatewayInit, ListedInv, Listed, Live, Fresh, NoCheck, Check
<1>2. GatewayTypeOK /\ ListedInv => ReachesUser
  BY DEF ListedInv, Listed, ReachesUser, IsUserConnected, Audience
<1>3. GatewayTypeOK /\ ListedInv /\ [GatewayNext]_gatewayVars => ListedInv'
  BY NextListed, NextFresh DEF ListedInv
<1> QED
  BY <1>1, <1>2, <1>3, SocketTypes, PTL DEF GatewaySpec

-----------------------------------------------------------------------------
(* Hearing one's own broadcasts *)

Single(s) == OwnUser(s) /\ OneClaim(s) /\ Unclaimed(s)

\* A socket is no worse off for what takes it off lists and ends requests.
LEMMA SingleKept ==
    ASSUME NEW s \in Sockets, Single(s), userId'[s] = userId[s],
           \A u \in Users : s \in userSockets'[u] => s \in userSockets[u],
           \A l \in Checks : checks'[l].socket = s => checks'[l] = checks[l]
    PROVE  Single(s)'
  BY DEF Single, OwnUser, OneClaim, Unclaimed

\* A socket with no user, or with this one, is given this one, which alone claims it.
LEMMA SingleSet ==
    ASSUME GatewayTypeOK, NEW s \in Sockets, Single(s), NEW u \in Users,
           userId[s] \in {Nobody, u}, SetSocketAuthentication(s, u),
           \A l \in Checks : checks'[l].socket = s => checks'[l].user = u
    PROVE  Single(s)'
<1>1. userId'[s] = u
  BY DEF SetSocketAuthentication, GatewayTypeOK
<1>2. \A v \in Users \ {u} : s \notin userSockets[v]
  BY SocketAssumption DEF Single, OwnUser
<1>3. \A v \in Users \ {u} : userSockets'[v] = userSockets[v]
  BY DEF SetSocketAuthentication, GatewayTypeOK
<1> QED
  BY <1>1, <1>2, <1>3 DEF Single, OwnUser, OneClaim, Unclaimed

\* Authenticating another socket leaves a socket alone.
LEMMA OtherSet ==
    ASSUME GatewayTypeOK, NEW s \in Sockets, NEW r \in Sockets \ {s}, NEW u \in Users,
           SetSocketAuthentication(r, u)
    PROVE  userId'[s] = userId[s] /\ \A v \in Users : s \in userSockets'[v] => s \in userSockets[v]
  BY DEF SetSocketAuthentication, GatewayTypeOK

LEMMA AwaitSingle ==
    ASSUME GatewayTypeOK, HearsInv, NEW k \in Checks, NEW r \in Sockets, NEW u \in Users,
           AwaitToken(k, r, u), NEW s \in Sockets \ raced'
    PROVE  Single(s)'
<1>1. s \notin raced /\ Single(s)
  BY DEF AwaitToken, HearsInv, Single
<1>2. \A l \in Checks : checks'[l] = IF l = k THEN Check(r, u) ELSE checks[l]
  BY DEF AwaitToken, GatewayTypeOK
<1>3. CASE s = r
  <2>1. userId'[s] = Nobody /\ \A v \in Users : userSockets'[v] = userSockets[v]
    BY <1>3 DEF AwaitToken, maps
  <2>2. \A l \in Checks : checks[l].socket = s => checks[l].user = u
    BY <1>3 DEF AwaitToken
  <2>3. \A l \in Checks : checks'[l].socket = s => checks'[l].user = u
    BY <1>2, <2>2 DEF Check
  <2>4. \A v \in Users : s \notin userSockets[v]
    BY <1>1, <1>3, SocketAssumption DEF AwaitToken, Single, OwnUser
  <2> QED
    BY <2>1, <2>3, <2>4 DEF Single, OwnUser, OneClaim, Unclaimed
<1>4. CASE s # r
  <2>1. userId'[s] = userId[s] /\ \A v \in Users : userSockets'[v] = userSockets[v]
    BY DEF AwaitToken, maps
  <2>2. \A l \in Checks : checks'[l].socket = s => checks'[l] = checks[l]
    BY <1>2, <1>4 DEF Check
  <2> QED
    BY <1>1, <2>1, <2>2, SingleKept
<1> QED
  BY <1>3, <1>4

LEMMA NextSingle ==
    ASSUME GatewayTypeOK, HearsInv, [GatewayNext]_gatewayVars, NEW s \in Sockets \ raced'
    PROVE  Single(s)'
<1>1. s \notin raced => Single(s)
  BY DEF HearsInv, Single
<1>2. raced' = raced \/ \E k \in Checks, r \in Sockets, u \in Users : AwaitToken(k, r, u)
  BY DEF GatewayNext, Connect, Disconnect, Validated, NotValidated, BroadcastToUser,
         AskUserConnected, BroadcastToAll, gatewayVars, history
<1>3. CASE \E k \in Checks, r \in Sockets, u \in Users : AwaitToken(k, r, u)
  BY <1>3, AwaitSingle
<1>4. CASE raced' = raced /\ ~\E k \in Checks, r \in Sockets, u \in Users : AwaitToken(k, r, u)
  <2>0. Single(s)
    BY <1>1, <1>4
  <2>1. ASSUME NEW r \in Sockets, Connect(r)
        PROVE  Single(s)'
    <3>1. UNCHANGED checks
      BY <2>1 DEF Connect
    <3>2. CASE UNCHANGED <<userId, maps>>
      BY <2>0, <3>1, <3>2, SingleKept DEF maps
    <3>3. ASSUME NEW u \in Users, SetSocketAuthentication(r, u), r = s
          PROVE  Single(s)'
      <4>1. userId[s] = Nobody /\ \A k \in Checks : checks[k].socket # s
        BY <2>1, <3>3 DEF Connect, HearsInv, Fresh
      <4> QED
        BY <2>0, <3>1, <3>3, <4>1, SingleSet
    <3>4. ASSUME NEW u \in Users, SetSocketAuthentication(r, u), r # s
          PROVE  Single(s)'
      BY <2>0, <3>1, <3>4, OtherSet, SingleKept
    <3> QED
      BY <2>1, <3>2, <3>3, <3>4 DEF Connect, AuthenticateSocket
  <2>2. ASSUME NEW r \in Sockets, Disconnect(r)
        PROVE  Single(s)'
    BY <2>0, <2>2, SingleKept DEF Disconnect, maps
  <2>3. ASSUME NEW k \in Checks, Validated(k)
        PROVE  Single(s)'
    <3> DEFINE r == checks[k].socket
               u == checks[k].user
    <3>1. r \in Sockets /\ u \in Users /\ SetSocketAuthentication(r, u)
      BY <2>3 DEF Validated, GatewayTypeOK
    <3>2. \A l \in Checks : checks'[l] = IF l = k THEN NoCheck ELSE checks[l]
      BY <2>3 DEF Validated, GatewayTypeOK
    <3>3. NoCheck.socket # s
      BY SocketAssumption DEF NoCheck, Check
    <3>4. CASE r = s
      <4>1. userId[s] \in {Nobody, u}
        BY <2>0, <3>4 DEF Single, Unclaimed
      <4>2. \A l \in Checks : checks'[l].socket = s => checks'[l].user = u
        BY <2>0, <3>2, <3>3, <3>4 DEF Single, OneClaim
      <4> QED
        BY <2>0, <3>1, <3>4, <4>1, <4>2, SingleSet
    <3>5. CASE r # s
      <4>1. \A l \in Checks : checks'[l].socket = s => checks'[l] = checks[l]
        BY <3>2, <3>3
      <4>2. userId'[s] = userId[s] /\ \A v \in Users : s \in userSockets'[v] => s \in userSockets[v]
        BY <3>1, <3>5, OtherSet
      <4> QED
        BY <2>0, <4>1, <4>2, SingleKept
    <3> QED
      BY <3>4, <3>5
  <2>4. ASSUME NEW k \in Checks, NotValidated(k)
        PROVE  Single(s)'
    <3>1. \A l \in Checks : checks'[l].socket = s => checks'[l] = checks[l]
      BY <2>4, SocketAssumption DEF NotValidated, NoCheck, Check, GatewayTypeOK
    <3> QED
      BY <2>0, <2>4, <3>1, SingleKept DEF NotValidated, maps
  <2>5. CASE BroadcastToAll
    BY <2>0, <2>5, SingleKept DEF BroadcastToAll, maps
  <2>6. ASSUME NEW u \in Users, BroadcastToUser(u) \/ AskUserConnected(u)
        PROVE  Single(s)'
    <3>1. UNCHANGED <<userId, checks>>
      BY <2>6 DEF BroadcastToUser, AskUserConnected
    <3>2. \A v \in Users : s \in userSockets'[v] => s \in userSockets[v]
      BY <2>6 DEF BroadcastToUser, AskUserConnected, DropOrphaned, GatewayTypeOK
    <3> QED
      BY <2>0, <3>1, <3>2, SingleKept
  <2>7. CASE UNCHANGED gatewayVars
    BY <2>0, <2>7, SingleKept DEF gatewayVars, maps
  <2> QED
    BY <1>4, <2>1, <2>2, <2>3, <2>4, <2>5, <2>6, <2>7 DEF GatewayNext
<1> QED
  BY <1>2, <1>3, <1>4

\* A user's broadcasts are heard by its own sockets only, but where requests with tokens
\* of different users overlapped on a socket (whatsapp.gateway.ts:94).
THEOREM OwnBroadcastsHeard == GatewaySpec => []HearsOwnBroadcasts
<1>1. GatewayInit => HearsInv
  BY SocketAssumption
     DEF GatewayInit, HearsInv, OwnUser, OneClaim, Unclaimed, Fresh, NoCheck, Check
<1>2. GatewayTypeOK /\ HearsInv /\ [GatewayNext]_gatewayVars => HearsInv'
  BY NextSingle, NextFresh DEF HearsInv, Single
<1>3. HearsInv => HearsOwnBroadcasts
  BY DEF HearsInv, OwnUser, HearsOwnBroadcasts, Hears, Audience
<1> QED
  BY <1>1, <1>2, <1>3, SocketTypes, PTL DEF GatewaySpec
=============================================================================
