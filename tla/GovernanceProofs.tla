---------------------------- MODULE GovernanceProofs ----------------------------
(***************************************************************************)
(* Theorems about Governance, for any number of calls, users, records and  *)
(* instances and whatever the clients ask.                                 *)
(*                                                                         *)
(* What a call is owed is stated of the function of all calls, k, and a    *)
(* row or a definition, so that one lemma says that it stays owed when     *)
(* another call goes on; the invariant says it of the rows as they are and *)
(* of the rows as calls that are going to write have read them.            *)
(***************************************************************************)
EXTENDS Governance, TLAPS

OnInstances == Changes \cup {"create"}

SameIn(k, c, d) ==
  /\ k[c].id = k[d].id
  /\ k[c].op = k[d].op \/ {k[c].op, k[d].op} \subseteq Decisions
       \/ {k[c].op, k[d].op} \subseteq OnInstances
AfterIn(k, d, c) == k[d].place > k[c].place
UnseenIn(k, d, c) == SameIn(k, c, d) /\ AfterIn(k, d, c) /\ k[d].seen < k[c].place

(* The decision c is marked in row, or what lost the mark is explained.     *)
MarkIn(k, c, row) ==
  \/ k[c].op = "approve" /\ row.approved_by = k[c].user
  \/ k[c].op = "reject" /\ row.rejected_by = k[c].user
  \/ \E d \in Calls : SameIn(k, c, d) /\ AfterIn(k, d, c) /\ k[d].op = k[c].op
  \/ \E d \in Calls : UnseenIn(k, d, c)

(* The definition c wrote is that of the row, or was replaced.              *)
DefinitionIn(k, c, definition) ==
  \/ definition = k[c].definition
  \/ \E d \in Calls : /\ SameIn(k, c, d) /\ AfterIn(k, d, c)
                      /\ k[d].op # "suspend" \/ UnseenIn(k, d, c)

(* What the user of a call finds, unless the row was another's first.       *)
ListedIn(k, c, owner) ==
  \/ owner = k[c].user
  \/ \E d \in Calls : /\ SameIn(k, c, d) /\ k[d].place > 0 /\ AfterIn(k, c, d)
                      /\ k[d].user # k[c].user

(* The places of writes are distinct, and calls have seen writes made.      *)
PlacesSound ==
  /\ \A c \in Calls : call[c].place <= written /\ call[c].seen <= written
  /\ \A c \in Calls : HasWritten(c) => call[c].pc = "answered"
  /\ \A c, d \in Calls : HasWritten(c) /\ call[c].place = call[d].place => c = d

(* A call that is to write, or wrote, names a row of its table.             *)
Shaped(r) ==
  /\ r.pc = "find" /\ r.op \in Changes => r.id \in Instances
  /\ r.pc = "definition" => r.op = "create"
  /\ r.pc = "find" => r.op # "create"
  /\ r.pc \in {"find", "definition"} => r.op # "prefer"
  /\ r.pc = "save" \/ r.place > 0 =>
       /\ r.op \in Decisions => r.id \in Records
       /\ r.op \in OnInstances => r.id \in Instances
       /\ r.op = "create" => r.id \in Times
       /\ r.op = "prefer" => r.id \in Preferences

(* What a call has read owes to the writes before its read.                 *)
ReadsSound(k, r) ==
  \A c \in Calls : k[c].place > 0 /\ k[c].id = r.id /\ k[c].place <= r.seen /\ r.pc = "save" =>
    /\ r.op \in Decisions /\ k[c].op \in Decisions => MarkIn(k, c, r.approval)
    /\ r.op = "suspend" /\ k[c].op \in {"upgrade", "create"} =>
         DefinitionIn(k, c, r.instance.definition)

(* Who owns a row that no seed made wrote it.                               *)
Owners ==
  /\ \A i \in Times : instance[i].user # None =>
       \E d \in Calls : /\ call[d].place > 0 /\ call[d].op \in OnInstances
                        /\ call[d].id = i /\ call[d].user = instance[i].user
  /\ \A p \in Preferences : preference[p] # None /\ p # SeededPreference =>
       \E d \in Calls : /\ call[d].place > 0 /\ call[d].op = "prefer"
                        /\ call[d].id = p /\ call[d].user = preference[p]

CallsSound == \A c \in Calls : Shaped(call[c]) /\ ReadsSound(call, call[c])

(* What is owed to the calls that have written, of the rows as they are.    *)
MarksHold ==
  \A c \in Calls : call[c].place > 0 /\ call[c].op \in Decisions =>
    MarkIn(call, c, approval[call[c].id])
DefinitionsHold ==
  \A c \in Calls : call[c].place > 0 /\ call[c].op \in {"upgrade", "create"} =>
    DefinitionIn(call, c, instance[call[c].id].definition)
ListsHold ==
  \A c \in Calls : call[c].place > 0 =>
    /\ call[c].op = "create" => ListedIn(call, c, instance[call[c].id].user)
    /\ call[c].op = "prefer" /\ call[c].id # SeededPreference =>
         ListedIn(call, c, preference[call[c].id])

ServiceInv ==
  /\ TypeOK /\ PlacesSound /\ CallsSound /\ Owners
  /\ MarksHold /\ DefinitionsHold /\ ListsHold

-----------------------------------------------------------------------------
(* What is owed to a call stays owed when a call that has not written goes  *)
(* on.                                                                      *)
LEMMA StaysOwed ==
  ASSUME NEW k \in [Calls -> CallRows], NEW l \in [Calls -> CallRows],
         NEW e \in Calls, \A d \in Calls \ {e} : l[d] = k[d], k[e].place = 0,
         NEW c \in Calls, k[c].place > 0
  PROVE  /\ c # e /\ l[c] = k[c]
         /\ \A row : MarkIn(k, c, row) => MarkIn(l, c, row)
         /\ \A definition : DefinitionIn(k, c, definition) => DefinitionIn(l, c, definition)
         /\ \A owner : ListedIn(k, c, owner) => ListedIn(l, c, owner)
<1>1. c # e /\ l[c] = k[c]
  OBVIOUS
<1>2. \A d \in Calls : AfterIn(k, d, c) => l[d] = k[d]
  <2> SUFFICES ASSUME NEW d \in Calls, AfterIn(k, d, c) PROVE l[d] = k[d]
    OBVIOUS
  <2>1. k[c].place \in Nat /\ k[d].place \in Nat
    BY DEF CallRows
  <2>2. d # e
    BY <2>1 DEF AfterIn
  <2>3. QED
    BY <2>2
<1>3. \A d \in Calls : AfterIn(k, d, c) =>
        AfterIn(l, d, c) /\ (SameIn(k, c, d) => SameIn(l, c, d))
          /\ (UnseenIn(k, d, c) => UnseenIn(l, d, c))
  BY <1>1, <1>2 DEF AfterIn, SameIn, UnseenIn
<1>4. \A row : MarkIn(k, c, row) => MarkIn(l, c, row)
  <2> SUFFICES ASSUME NEW row, MarkIn(k, c, row) PROVE MarkIn(l, c, row)
    OBVIOUS
  <2>1. CASE \E d \in Calls : SameIn(k, c, d) /\ AfterIn(k, d, c) /\ k[d].op = k[c].op
    BY <1>1, <1>2, <1>3, <2>1 DEF MarkIn
  <2>2. CASE \E d \in Calls : UnseenIn(k, d, c)
    <3>1. PICK d \in Calls : UnseenIn(k, d, c)
      BY <2>2
    <3>2. UnseenIn(l, d, c)
      BY <1>3, <3>1 DEF UnseenIn
    <3>3. QED
      BY <3>2 DEF MarkIn
  <2>3. CASE \/ k[c].op = "approve" /\ row.approved_by = k[c].user
             \/ k[c].op = "reject" /\ row.rejected_by = k[c].user
    BY <1>1, <2>3 DEF MarkIn
  <2>4. QED
    BY <2>1, <2>2, <2>3 DEF MarkIn
<1>5. \A definition : DefinitionIn(k, c, definition) => DefinitionIn(l, c, definition)
  BY <1>1, <1>2, <1>3 DEF DefinitionIn
<1>6. \A d \in Calls : k[d].place > 0 => l[d] = k[d]
  OBVIOUS
<1>7. \A owner : ListedIn(k, c, owner) => ListedIn(l, c, owner)
  BY <1>1, <1>6 DEF ListedIn, SameIn, AfterIn
<1>8. QED
  BY <1>1, <1>4, <1>5, <1>7


-----------------------------------------------------------------------------
(* The invariant holds at the start. *)
LEMMA InitInv == ServiceInit => ServiceInv
<1> SUFFICES ASSUME ServiceInit PROVE ServiceInv
  OBVIOUS
<1> USE GovernanceAssumption DEF ServiceInit
<1>1. Idle \in CallRows /\ Idle.place = 0 /\ Idle.seen = 0 /\ Idle.pc = "idle"
  BY DEF Idle, NewCall, CallRows, Operations, Decisions, Changes, ApprovalRows, InstanceRows,
         Pending, NoInstance
<1>2. TypeOK
  <2>1. approval \in [Records -> ApprovalRows]
    BY DEF ApprovalRows, Pending
  <2>2. instance \in [Instances -> InstanceRows]
    BY DEF InstanceRows, NoInstance
  <2>3. QED
    BY <1>1, <2>1, <2>2 DEF TypeOK, Times
<1>3. PlacesSound
  BY <1>1 DEF PlacesSound, HasWritten
<1>4. CallsSound
  BY <1>1 DEF CallsSound, Shaped, ReadsSound
<1>5. Owners
  <2>1. \A i \in Times : i # SeededInstance /\ i \in Instances
    BY DEF Times, Instances
  <2>2. QED
    BY <2>1 DEF Owners, NoInstance
<1>6. MarksHold /\ DefinitionsHold /\ ListsHold
  BY <1>1 DEF MarksHold, DefinitionsHold, ListsHold
<1>7. QED
  BY <1>2, <1>3, <1>4, <1>5, <1>6 DEF ServiceInv

-----------------------------------------------------------------------------
(* Steps that write nothing: one call becomes r.                            *)
LEMMA CallGoesOn ==
  ASSUME ServiceInv, NEW e \in Calls, NEW r \in CallRows,
         call' = [call EXCEPT ![e] = r], call[e].place = 0,
         r.place = 0, r.seen <= written, Shaped(r), ReadsSound(call, r),
         UNCHANGED <<rowVars, written>>, now' \in Times, faults' \in 0..MaxFaults
  PROVE  ServiceInv'
<1> USE DEF rowVars
<1>1. call \in [Calls -> CallRows] /\ written \in Nat
  BY DEF ServiceInv, TypeOK
<1>2. call' \in [Calls -> CallRows] /\ call'[e] = r /\ \A d \in Calls \ {e} : call'[d] = call[d]
  BY <1>1
<1>3. \A c \in Calls : call[c].place > 0 =>
        /\ c # e /\ call'[c] = call[c]
        /\ \A row : MarkIn(call, c, row) => MarkIn(call', c, row)
        /\ \A definition : DefinitionIn(call, c, definition) => DefinitionIn(call', c, definition)
        /\ \A owner : ListedIn(call, c, owner) => ListedIn(call', c, owner)
  BY <1>1, <1>2, StaysOwed
<1>4. \A c \in Calls : call'[c].place > 0 => call[c].place > 0 /\ c # e /\ call'[c] = call[c]
  BY <1>2
<1>5. TypeOK'
  BY <1>2 DEF ServiceInv, TypeOK
<1>6. PlacesSound'
  BY <1>2 DEF ServiceInv, PlacesSound, HasWritten
<1>7. \A s : ReadsSound(call, s) => ReadsSound(call', s)
  BY <1>3, <1>4 DEF ReadsSound
<1>8. CallsSound'
  <2> SUFFICES ASSUME NEW c \in Calls PROVE Shaped(call'[c]) /\ ReadsSound(call', call'[c])
    BY DEF CallsSound
  <2>1. CASE c = e
    BY <1>2, <1>7, <2>1
  <2>2. CASE c # e
    BY <1>2, <1>7, <2>2 DEF ServiceInv, CallsSound
  <2>3. QED
    BY <2>1, <2>2
<1>9. Owners'
  BY <1>3 DEF ServiceInv, Owners
<1>10. MarksHold'
  BY <1>3, <1>4 DEF ServiceInv, MarksHold
<1>11. DefinitionsHold'
  BY <1>3, <1>4 DEF ServiceInv, DefinitionsHold
<1>12. ListsHold'
  BY <1>3, <1>4 DEF ServiceInv, ListsHold
<1>13. QED
  BY <1>5, <1>6, <1>8, <1>9, <1>10, <1>11, <1>12 DEF ServiceInv

-----------------------------------------------------------------------------
(* What every write does to the calls.                                      *)
LEMMA CallWrites ==
  ASSUME ServiceInv, NEW e \in Calls, call[e].pc = "save", Written(e)
  PROVE  /\ written' \in Nat /\ call' \in [Calls -> CallRows]
         /\ call[e].place = 0 /\ call'[e].place = written + 1
         /\ call'[e].op = call[e].op /\ call'[e].id = call[e].id
         /\ call'[e].user = call[e].user /\ call'[e].definition = call[e].definition
         /\ call'[e].seen = call[e].seen
         /\ \A d \in Calls \ {e} : call'[d] = call[d]
         /\ \A c \in Calls : call[c].place > 0 =>
              /\ c # e /\ call'[c] = call[c] /\ call[c].place \in Nat
              /\ call'[e].place > call[c].place
              /\ \A row : MarkIn(call, c, row) => MarkIn(call', c, row)
              /\ \A definition :
                   DefinitionIn(call, c, definition) => DefinitionIn(call', c, definition)
              /\ \A owner : ListedIn(call, c, owner) => ListedIn(call', c, owner)
         /\ \A c \in Calls : call'[c].place > 0 /\ c # e => call[c].place > 0
         /\ PlacesSound' /\ CallsSound'
<1>1. /\ call \in [Calls -> CallRows] /\ written \in Nat
      /\ \A c \in Calls : call[c].place \in Nat /\ call[c].seen \in Nat
  BY DEF ServiceInv, TypeOK, CallRows
<1>2. call[e].place = 0
  BY <1>1 DEF ServiceInv, PlacesSound, HasWritten
<1> DEFINE r == [call[e] EXCEPT !.pc = "answered", !.place = written + 1]
<1>3. /\ r \in CallRows /\ r.pc = "answered" /\ r.place = written + 1
      /\ r.op = call[e].op /\ r.id = call[e].id /\ r.user = call[e].user
      /\ r.definition = call[e].definition /\ r.seen = call[e].seen
  <2>1. call[e] \in CallRows /\ written + 1 \in Nat
    BY <1>1
  <2>2. r \in CallRows
    BY <2>1 DEF CallRows
  <2>3. QED
    BY <2>1, <2>2 DEF CallRows
<1>4. call' = [call EXCEPT ![e] = r] /\ written' = written + 1
  BY <1>1 DEF Written
<1> HIDE DEF r
<1>5. call' \in [Calls -> CallRows] /\ call'[e] = r /\ \A d \in Calls \ {e} : call'[d] = call[d]
  BY <1>1, <1>3, <1>4
<1>6. \A c \in Calls : call[c].place > 0 =>
        /\ c # e /\ call'[c] = call[c] /\ call[c].place \in Nat /\ call'[e].place > call[c].place
        /\ \A row : MarkIn(call, c, row) => MarkIn(call', c, row)
        /\ \A definition : DefinitionIn(call, c, definition) => DefinitionIn(call', c, definition)
        /\ \A owner : ListedIn(call, c, owner) => ListedIn(call', c, owner)
  <2>1. \A c \in Calls : call[c].place > 0 => written + 1 > call[c].place
    BY <1>1 DEF ServiceInv, PlacesSound
  <2>2. QED
    BY <1>1, <1>2, <1>3, <1>5, <2>1, StaysOwed
<1>7. \A c \in Calls : call'[c].place > 0 /\ c # e => call[c].place > 0
  BY <1>5
<1>8. PlacesSound'
  <2>1. \A c \in Calls : call'[c].place <= written' /\ call'[c].seen <= written'
    BY <1>1, <1>3, <1>4, <1>5 DEF ServiceInv, PlacesSound
  <2>2. \A c \in Calls : call'[c].place > 0 => call'[c].pc = "answered"
    BY <1>3, <1>5 DEF ServiceInv, PlacesSound, HasWritten
  <2>3. ASSUME NEW c \in Calls, NEW d \in Calls,
               call'[c].place > 0, call'[c].place = call'[d].place
        PROVE  c = d
    <3>1. \A b \in Calls \ {e} : call'[b].place # written + 1
      BY <1>1, <1>5 DEF ServiceInv, PlacesSound
    <3>2. QED
      BY <1>3, <1>5, <2>3, <3>1 DEF ServiceInv, PlacesSound, HasWritten
  <2>4. QED
    BY <2>1, <2>2, <2>3 DEF PlacesSound, HasWritten
<1>9. CallsSound'
  <2>1. ASSUME NEW c \in Calls, NEW f \in Calls,
               call'[c].place > 0, call'[c].id = call'[f].id,
               call'[c].place <= call'[f].seen, call'[f].pc = "save"
        PROVE  /\ c # e /\ f # e /\ call'[c] = call[c] /\ call'[f] = call[f] /\ call[c].place > 0
               /\ call'[f].op \in Decisions /\ call'[c].op \in Decisions =>
                    MarkIn(call', c, call[f].approval)
               /\ call'[f].op = "suspend" /\ call'[c].op \in {"upgrade", "create"} =>
                    DefinitionIn(call', c, call[f].instance.definition)
    <3>1. f # e /\ call'[f] = call[f]
      BY <1>3, <1>5, <2>1
    <3>2. call[f].seen <= written
      BY DEF ServiceInv, PlacesSound
    <3>3. c # e
      BY <1>1, <1>3, <1>5, <2>1, <3>1, <3>2
    <3>4. call'[c] = call[c] /\ call[c].place > 0
      BY <1>5, <2>1, <3>3
    <3>5. ReadsSound(call, call[f])
      BY DEF ServiceInv, CallsSound
    <3>6. QED
      BY <1>6, <2>1, <3>1, <3>3, <3>4, <3>5 DEF ReadsSound
  <2>2. \A f \in Calls : ReadsSound(call', call'[f])
    BY <2>1 DEF ReadsSound
  <2>3. \A c \in Calls : Shaped(call'[c])
    <3>1. Shaped(r)
      BY <1>3 DEF ServiceInv, CallsSound, Shaped
    <3>2. QED
      BY <1>5, <3>1 DEF ServiceInv, CallsSound
  <2>4. QED
    BY <2>2, <2>3 DEF CallsSound
<1>10. written' \in Nat
  BY <1>1, <1>4
<1>11. /\ call'[e].place = written + 1
       /\ call'[e].op = call[e].op /\ call'[e].id = call[e].id
       /\ call'[e].user = call[e].user /\ call'[e].definition = call[e].definition
       /\ call'[e].seen = call[e].seen
  BY <1>3, <1>5
<1>12. QED
  BY <1>2, <1>5, <1>6, <1>7, <1>8, <1>9, <1>10, <1>11

LEMMA SaveDecisionStep ==
  ASSUME ServiceInv, NEW e \in Calls, SaveDecision(e)
  PROVE  ServiceInv'
<1> USE DEF SaveDecision
<1>1. call[e].pc = "save" /\ call[e].op \in Decisions /\ Written(e)
      /\ UNCHANGED <<instance, preference>>
  OBVIOUS
<1>2. /\ written' \in Nat /\ call' \in [Calls -> CallRows]
      /\ call[e].place = 0 /\ call'[e].place = written + 1
      /\ call'[e].op = call[e].op /\ call'[e].id = call[e].id
      /\ call'[e].user = call[e].user /\ call'[e].seen = call[e].seen
      /\ \A d \in Calls \ {e} : call'[d] = call[d]
  BY <1>1, CallWrites
<1>3. \A c \in Calls : call[c].place > 0 =>
        /\ c # e /\ call'[c] = call[c] /\ call[c].place \in Nat
        /\ call'[e].place > call[c].place
        /\ \A row : MarkIn(call, c, row) => MarkIn(call', c, row)
        /\ \A definition : DefinitionIn(call, c, definition) => DefinitionIn(call', c, definition)
        /\ \A owner : ListedIn(call, c, owner) => ListedIn(call', c, owner)
  BY <1>1, CallWrites
<1>4. /\ \A c \in Calls : call'[c].place > 0 /\ c # e => call[c].place > 0
      /\ PlacesSound' /\ CallsSound'
  BY <1>1, CallWrites
<1>5. call[e].id \in Records
  BY <1>1 DEF ServiceInv, CallsSound, Shaped
<1>6. call[e] \in CallRows
  BY DEF ServiceInv, TypeOK
<1>7. Decided(e) \in ApprovalRows
  BY <1>6 DEF Decided, Approved, Rejected, ApprovalRows, CallRows
<1>8. approval' = [approval EXCEPT ![call[e].id] = Decided(e)]
      /\ approval' \in [Records -> ApprovalRows]
      /\ approval'[call[e].id] = Decided(e)
      /\ \A r \in Records : r # call[e].id => approval'[r] = approval[r]
  BY <1>5, <1>7 DEF ServiceInv, TypeOK
<1>9. TypeOK'
  BY <1>1, <1>2, <1>8 DEF ServiceInv, TypeOK, Written
<1>10. Owners'
  BY <1>1, <1>3 DEF ServiceInv, Owners
<1>11. DefinitionsHold'
  BY <1>1, <1>2, <1>3, <1>4 DEF ServiceInv, DefinitionsHold, Decisions
<1>12. ListsHold'
  BY <1>1, <1>2, <1>3, <1>4 DEF ServiceInv, ListsHold, Decisions
<1>13. ASSUME NEW c \in Calls, call'[c].place > 0, call'[c].op \in Decisions
       PROVE  MarkIn(call', c, approval'[call'[c].id])
  <2>1. CASE c = e
    <3>1. call[e].approval \in ApprovalRows
      BY <1>6 DEF CallRows
    <3>2. \/ call[e].op = "approve" /\ Decided(e).approved_by = call[e].user
          \/ call[e].op = "reject" /\ Decided(e).rejected_by = call[e].user
      BY <1>1, <3>1 DEF Decided, Approved, Rejected, Decisions, ApprovalRows
    <3>3. QED
      BY <1>2, <1>8, <2>1, <3>2 DEF MarkIn
  <2>2. CASE c # e
    <3>1. call[c].place > 0 /\ call'[c] = call[c] /\ call[c].op \in Decisions
      BY <1>3, <1>4, <1>13, <2>2
    <3>2. call[c].id \in Records
      BY <3>1 DEF ServiceInv, CallsSound, Shaped
    <3>3. CASE call[c].id # call[e].id
      BY <1>3, <1>8, <3>1, <3>2, <3>3 DEF ServiceInv, MarksHold
    <3>4. CASE call[c].id = call[e].id /\ call[e].seen < call[c].place
      <4>1. SameIn(call', c, e)
        BY <1>1, <1>2, <3>1, <3>4 DEF SameIn
      <4>2. UnseenIn(call', e, c)
        BY <1>2, <1>3, <3>1, <3>4, <4>1 DEF UnseenIn, AfterIn
      <4>3. QED
        BY <4>2 DEF MarkIn
    <3>5. CASE call[c].id = call[e].id /\ call[c].place <= call[e].seen
      <4>1. MarkIn(call', c, call[e].approval)
        BY <1>1, <1>3, <3>1, <3>5 DEF ServiceInv, CallsSound, ReadsSound
      <4>2. CASE call[c].op = call[e].op
        <5>1. SameIn(call', c, e) /\ AfterIn(call', e, c)
          BY <1>1, <1>2, <1>3, <3>1, <3>5 DEF SameIn, AfterIn
        <5>2. QED
          BY <1>2, <3>1, <4>2, <5>1 DEF MarkIn
      <4>3. CASE call[c].op # call[e].op
        <5>1. call[e].approval \in ApprovalRows
          BY <1>6 DEF CallRows
        <5>2. /\ call[c].op = "approve" => Decided(e).approved_by = call[e].approval.approved_by
              /\ call[c].op = "reject" => Decided(e).rejected_by = call[e].approval.rejected_by
          BY <1>1, <3>1, <4>3, <5>1 DEF Decided, Approved, Rejected, Decisions, ApprovalRows
        <5>3. MarkIn(call', c, Decided(e))
          BY <3>1, <4>1, <5>2 DEF MarkIn
        <5>4. QED
          BY <1>8, <3>1, <3>5, <5>3
      <4>4. QED
        BY <4>2, <4>3
    <3>6. call[c].place \in Nat /\ call[e].seen \in Nat
      BY <1>3, <1>6, <3>1 DEF CallRows
    <3>7. QED
      BY <3>3, <3>4, <3>5, <3>6
  <2>3. QED
    BY <2>1, <2>2
<1>14. MarksHold'
  BY <1>13 DEF MarksHold
<1>15. QED
  BY <1>4, <1>9, <1>10, <1>11, <1>12, <1>14 DEF ServiceInv

LEMMA SaveInstanceStep ==
  ASSUME ServiceInv, NEW e \in Calls, SaveInstance(e)
  PROVE  ServiceInv'
<1>1. /\ call[e].pc = "save" /\ call[e].op \in OnInstances /\ Written(e)
      /\ UNCHANGED <<approval, preference>>
      /\ Saved(e).definition \in Definitions
      /\ instance' = [instance EXCEPT ![call[e].id] = UpsertInstance(@, call[e].user, Saved(e))]
  BY DEF SaveInstance, SavesInstance, OnInstances
<1>2. /\ written' \in Nat /\ call' \in [Calls -> CallRows]
      /\ call[e].place = 0 /\ call'[e].place = written + 1
      /\ call'[e].op = call[e].op /\ call'[e].id = call[e].id
      /\ call'[e].user = call[e].user /\ call'[e].seen = call[e].seen
      /\ call'[e].definition = call[e].definition
      /\ \A d \in Calls \ {e} : call'[d] = call[d]
  BY <1>1, CallWrites
<1>3. \A c \in Calls : call[c].place > 0 =>
        /\ c # e /\ call'[c] = call[c] /\ call[c].place \in Nat
        /\ call'[e].place > call[c].place
        /\ \A row : MarkIn(call, c, row) => MarkIn(call', c, row)
        /\ \A definition : DefinitionIn(call, c, definition) => DefinitionIn(call', c, definition)
        /\ \A owner : ListedIn(call, c, owner) => ListedIn(call', c, owner)
  BY <1>1, CallWrites
<1>4. /\ \A c \in Calls : call'[c].place > 0 /\ c # e => call[c].place > 0
      /\ PlacesSound' /\ CallsSound'
  BY <1>1, CallWrites
<1>5. call[e].id \in Instances /\ (call[e].op = "create" => call[e].id \in Times)
  BY <1>1 DEF ServiceInv, CallsSound, Shaped
<1>6. call[e] \in CallRows /\ call[e].user \in Users /\ call[e].seen \in Nat
      /\ call[e].instance \in InstanceRows
  BY DEF ServiceInv, TypeOK, CallRows
<1> DEFINE i == call[e].id
           row == UpsertInstance(instance[i], call[e].user, Saved(e))
<1>7. /\ row.definition = Saved(e).definition
      /\ instance[i].user = None => row.user = call[e].user
      /\ instance[i].user # None => row.user = instance[i].user
      /\ row \in InstanceRows
  <2>1. instance[i] \in InstanceRows
    BY <1>5 DEF ServiceInv, TypeOK
  <2>2. Saved(e).status \in {"active", "suspended"}
    BY DEF Saved
  <2>3. QED
    BY <1>1, <1>6, <2>1, <2>2 DEF UpsertInstance, InstanceRows
<1> HIDE DEF row
<1>8. /\ instance' \in [Instances -> InstanceRows]
      /\ instance'[i] = row
      /\ \A j \in Instances : j # i => instance'[j] = instance[j]
  BY <1>1, <1>5, <1>7 DEF ServiceInv, TypeOK, row
<1>9. TypeOK'
  BY <1>1, <1>2, <1>8 DEF ServiceInv, TypeOK, Written
<1>10. \A j \in Instances : instance[j].user # None => instance'[j].user = instance[j].user
  BY <1>7, <1>8
<1>11. \A j \in Times : j \in Instances
  BY DEF Instances
<1>12. Owners'
  <2>1. ASSUME NEW j \in Times, instance'[j].user # None
        PROVE  \E d \in Calls : /\ call'[d].place > 0 /\ call'[d].op \in OnInstances
                                /\ call'[d].id = j /\ call'[d].user = instance'[j].user
    <3>1. CASE instance[j].user = None
      <4>1. j = i /\ instance'[j].user = call[e].user
        BY <1>7, <1>8, <1>11, <2>1, <3>1
      <4>2. call'[e].place > 0
        BY <1>2 DEF ServiceInv, TypeOK
      <4>3. QED
        BY <1>1, <1>2, <4>1, <4>2
    <3>2. CASE instance[j].user # None
      <4>1. instance'[j].user = instance[j].user
        BY <1>10, <1>11, <3>2
      <4>2. PICK d \in Calls : /\ call[d].place > 0 /\ call[d].op \in OnInstances
                               /\ call[d].id = j /\ call[d].user = instance[j].user
        BY <3>2 DEF ServiceInv, Owners
      <4>3. QED
        BY <1>3, <4>1, <4>2
    <3>3. QED
      BY <3>1, <3>2
  <2>2. \A p \in Preferences : preference'[p] # None /\ p # SeededPreference =>
          \E d \in Calls : /\ call'[d].place > 0 /\ call'[d].op = "prefer"
                           /\ call'[d].id = p /\ call'[d].user = preference'[p]
    BY <1>1, <1>3 DEF ServiceInv, Owners
  <2>3. QED
    BY <2>1, <2>2 DEF Owners
<1>13. MarksHold'
  BY <1>1, <1>2, <1>3, <1>4 DEF ServiceInv, MarksHold, Decisions, OnInstances, Changes
<1>14. ASSUME NEW c \in Calls, call'[c].place > 0, call'[c].op \in {"upgrade", "create"}
       PROVE  DefinitionIn(call', c, instance'[call'[c].id].definition)
  <2>1. CASE c = e
    <3>1. Saved(e).definition = call[e].definition
      BY <1>2, <1>14, <2>1 DEF Saved
    <3>2. QED
      BY <1>2, <1>7, <1>8, <2>1, <3>1 DEF DefinitionIn
  <2>2. CASE c # e
    <3>1. call[c].place > 0 /\ call'[c] = call[c] /\ call[c].op \in {"upgrade", "create"}
      BY <1>3, <1>4, <1>14, <2>2
    <3>2. call[c].id \in Instances
      BY <3>1 DEF ServiceInv, CallsSound, Shaped, OnInstances, Changes
    <3>3. CASE call[c].id # i
      BY <1>3, <1>8, <3>1, <3>2, <3>3 DEF ServiceInv, DefinitionsHold
    <3>4. CASE call[c].id = i /\ (call[e].op # "suspend" \/ call[e].seen < call[c].place)
      <4>1. SameIn(call', c, e) /\ AfterIn(call', e, c)
        BY <1>1, <1>2, <1>3, <3>1, <3>4 DEF SameIn, AfterIn, OnInstances, Changes
      <4>2. call'[e].op # "suspend" \/ UnseenIn(call', e, c)
        BY <1>2, <3>1, <3>4, <4>1 DEF UnseenIn
      <4>3. QED
        BY <4>1, <4>2 DEF DefinitionIn
    <3>5. CASE call[c].id = i /\ call[e].op = "suspend" /\ call[c].place <= call[e].seen
      <4>1. DefinitionIn(call', c, call[e].instance.definition)
        BY <1>1, <1>3, <3>1, <3>5 DEF ServiceInv, CallsSound, ReadsSound
      <4>2. row.definition = call[e].instance.definition
        BY <1>7, <3>5 DEF Saved
      <4>3. QED
        BY <1>8, <3>1, <3>5, <4>1, <4>2
    <3>6. call[c].place \in Nat
      BY <1>3, <3>1
    <3>7. QED
      BY <1>6, <3>3, <3>4, <3>5, <3>6
  <2>3. QED
    BY <2>1, <2>2
<1>15. DefinitionsHold'
  BY <1>14 DEF DefinitionsHold
<1>16. ASSUME NEW c \in Calls, call'[c].place > 0, call'[c].op = "create"
       PROVE  ListedIn(call', c, instance'[call'[c].id].user)
  <2>1. CASE c = e
    <3>1. CASE instance[i].user = None
      BY <1>2, <1>7, <1>8, <2>1, <3>1 DEF ListedIn
    <3>2. CASE instance[i].user # None /\ instance[i].user # call[e].user
      <4>1. i \in Times
        BY <1>2, <1>5, <1>16, <2>1
      <4>2. PICK d \in Calls : /\ call[d].place > 0 /\ call[d].op \in OnInstances
                               /\ call[d].id = i /\ call[d].user = instance[i].user
        BY <3>2, <4>1 DEF ServiceInv, Owners
      <4>3. call'[d] = call[d] /\ call'[e].place > call[d].place
        BY <1>3, <4>2
      <4>4. SameIn(call', e, d) /\ AfterIn(call', e, d)
        BY <1>1, <1>2, <4>2, <4>3 DEF SameIn, AfterIn
      <4>5. QED
        BY <1>2, <2>1, <3>2, <4>2, <4>3, <4>4 DEF ListedIn
    <3>3. CASE instance[i].user = call[e].user
      BY <1>2, <1>7, <1>8, <2>1, <3>3 DEF ListedIn
    <3>4. QED
      BY <3>1, <3>2, <3>3
  <2>2. CASE c # e
    <3>1. call[c].place > 0 /\ call'[c] = call[c] /\ call[c].op = "create"
      BY <1>3, <1>4, <1>16, <2>2
    <3>2. call[c].id \in Instances /\ call[c].user # None
      BY <3>1, GovernanceAssumption
      DEF ServiceInv, CallsSound, Shaped, OnInstances, TypeOK, CallRows
    <3>3. ListedIn(call, c, instance[call[c].id].user)
      BY <3>1 DEF ServiceInv, ListsHold
    <3>4. CASE instance[call[c].id].user # None
      BY <1>3, <1>10, <3>1, <3>2, <3>3, <3>4
    <3>5. CASE instance[call[c].id].user = None
      <4>1. ListedIn(call, c, instance'[call[c].id].user)
        BY <3>2, <3>3, <3>5 DEF ListedIn
      <4>2. QED
        BY <1>3, <3>1, <4>1
    <3>6. QED
      BY <3>4, <3>5
  <2>3. QED
    BY <2>1, <2>2
<1>17. ListsHold'
  <2>1. ASSUME NEW c \in Calls, call'[c].place > 0, call'[c].op = "prefer",
               call'[c].id # SeededPreference
        PROVE  ListedIn(call', c, preference'[call'[c].id])
    <3>1. c # e
      BY <1>1, <1>2, <2>1 DEF OnInstances, Changes
    <3>2. QED
      BY <1>1, <1>3, <1>4, <2>1, <3>1 DEF ServiceInv, ListsHold
  <2>2. QED
    BY <1>16, <2>1 DEF ListsHold
<1>18. QED
  BY <1>4, <1>9, <1>12, <1>13, <1>15, <1>17 DEF ServiceInv

LEMMA SavePreferenceStep ==
  ASSUME ServiceInv, NEW e \in Calls, SavePreference(e)
  PROVE  ServiceInv'
<1>1. /\ call[e].pc = "save" /\ call[e].op = "prefer" /\ Written(e)
      /\ UNCHANGED <<approval, instance>>
      /\ preference' = [preference EXCEPT ![call[e].id] = UpsertPreference(@, call[e].user)]
  BY DEF SavePreference
<1>2. /\ written' \in Nat /\ call' \in [Calls -> CallRows]
      /\ call[e].place = 0 /\ call'[e].place = written + 1
      /\ call'[e].op = call[e].op /\ call'[e].id = call[e].id
      /\ call'[e].user = call[e].user
      /\ \A d \in Calls \ {e} : call'[d] = call[d]
  BY <1>1, CallWrites
<1>3. \A c \in Calls : call[c].place > 0 =>
        /\ c # e /\ call'[c] = call[c] /\ call[c].place \in Nat
        /\ call'[e].place > call[c].place
        /\ \A row : MarkIn(call, c, row) => MarkIn(call', c, row)
        /\ \A definition : DefinitionIn(call, c, definition) => DefinitionIn(call', c, definition)
        /\ \A owner : ListedIn(call, c, owner) => ListedIn(call', c, owner)
  BY <1>1, CallWrites
<1>4. /\ \A c \in Calls : call'[c].place > 0 /\ c # e => call[c].place > 0
      /\ PlacesSound' /\ CallsSound'
  BY <1>1, CallWrites
<1>5. call[e].id \in Preferences
  BY <1>1 DEF ServiceInv, CallsSound, Shaped
<1>6. call[e].user \in Users
  BY DEF ServiceInv, TypeOK, CallRows
<1> DEFINE p == call[e].id
           owner == UpsertPreference(preference[p], call[e].user)
<1>7. /\ preference[p] = None => owner = call[e].user
      /\ preference[p] # None => owner = preference[p]
      /\ owner \in Users \cup {None}
  BY <1>5, <1>6 DEF UpsertPreference, ServiceInv, TypeOK
<1> HIDE DEF owner
<1>8. /\ preference' \in [Preferences -> Users \cup {None}]
      /\ preference'[p] = owner
      /\ \A q \in Preferences : q # p => preference'[q] = preference[q]
  BY <1>1, <1>5, <1>7 DEF ServiceInv, TypeOK, owner
<1>9. TypeOK'
  BY <1>1, <1>2, <1>8 DEF ServiceInv, TypeOK, Written
<1>10. \A q \in Preferences : preference[q] # None => preference'[q] = preference[q]
  BY <1>7, <1>8
<1>11. Owners'
  <2>1. ASSUME NEW q \in Preferences, preference'[q] # None, q # SeededPreference
        PROVE  \E d \in Calls : /\ call'[d].place > 0 /\ call'[d].op = "prefer"
                                /\ call'[d].id = q /\ call'[d].user = preference'[q]
    <3>1. CASE preference[q] = None
      <4>1. q = p /\ preference'[q] = call[e].user
        BY <1>7, <1>8, <2>1, <3>1
      <4>2. call'[e].place > 0
        BY <1>2 DEF ServiceInv, TypeOK
      <4>3. QED
        BY <1>1, <1>2, <4>1, <4>2
    <3>2. CASE preference[q] # None
      <4>1. preference'[q] = preference[q]
        BY <1>10, <3>2
      <4>2. PICK d \in Calls : /\ call[d].place > 0 /\ call[d].op = "prefer"
                               /\ call[d].id = q /\ call[d].user = preference[q]
        BY <2>1, <3>2 DEF ServiceInv, Owners
      <4>3. QED
        BY <1>3, <4>1, <4>2
    <3>3. QED
      BY <3>1, <3>2
  <2>2. \A i \in Times : instance'[i].user # None =>
          \E d \in Calls : /\ call'[d].place > 0 /\ call'[d].op \in OnInstances
                           /\ call'[d].id = i /\ call'[d].user = instance'[i].user
    BY <1>1, <1>3 DEF ServiceInv, Owners
  <2>3. QED
    BY <2>1, <2>2 DEF Owners
<1>12. MarksHold'
  BY <1>1, <1>2, <1>3, <1>4 DEF ServiceInv, MarksHold, Decisions
<1>13. DefinitionsHold'
  BY <1>1, <1>2, <1>3, <1>4 DEF ServiceInv, DefinitionsHold
<1>14. ASSUME NEW c \in Calls, call'[c].place > 0, call'[c].op = "prefer",
              call'[c].id # SeededPreference
       PROVE  ListedIn(call', c, preference'[call'[c].id])
  <2>1. CASE c = e
    <3>1. CASE preference[p] # None /\ preference[p] # call[e].user
      <4>1. p # SeededPreference
        BY <1>2, <1>14, <2>1
      <4>2. PICK d \in Calls : /\ call[d].place > 0 /\ call[d].op = "prefer"
                               /\ call[d].id = p /\ call[d].user = preference[p]
        BY <1>5, <3>1, <4>1 DEF ServiceInv, Owners
      <4>3. call'[d] = call[d] /\ call'[e].place > call[d].place
        BY <1>3, <4>2
      <4>4. SameIn(call', e, d) /\ AfterIn(call', e, d)
        BY <1>1, <1>2, <4>2, <4>3 DEF SameIn, AfterIn
      <4>5. QED
        BY <1>2, <2>1, <3>1, <4>2, <4>3, <4>4 DEF ListedIn
    <3>2. CASE preference[p] = None \/ preference[p] = call[e].user
      BY <1>2, <1>7, <1>8, <2>1, <3>2 DEF ListedIn
    <3>3. QED
      BY <3>1, <3>2
  <2>2. CASE c # e
    <3>1. call[c].place > 0 /\ call'[c] = call[c] /\ call[c].op = "prefer"
          /\ call[c].id # SeededPreference
      BY <1>3, <1>4, <1>14, <2>2
    <3>2. call[c].id \in Preferences /\ call[c].user # None
      BY <3>1, GovernanceAssumption DEF ServiceInv, CallsSound, Shaped, TypeOK, CallRows
    <3>3. ListedIn(call, c, preference[call[c].id])
      BY <3>1 DEF ServiceInv, ListsHold
    <3>4. CASE preference[call[c].id] # None
      BY <1>3, <1>10, <3>1, <3>2, <3>3, <3>4
    <3>5. CASE preference[call[c].id] = None
      <4>1. ListedIn(call, c, preference'[call[c].id])
        BY <3>2, <3>3, <3>5 DEF ListedIn
      <4>2. QED
        BY <1>3, <3>1, <4>1
    <3>6. QED
      BY <3>4, <3>5
  <2>3. QED
    BY <2>1, <2>2
<1>15. ListsHold'
  <2>1. ASSUME NEW c \in Calls, call'[c].place > 0, call'[c].op = "create"
        PROVE  ListedIn(call', c, instance'[call'[c].id].user)
    <3>1. c # e
      BY <1>1, <1>2, <2>1
    <3>2. QED
      BY <1>1, <1>3, <1>4, <2>1, <3>1 DEF ServiceInv, ListsHold
  <2>2. QED
    BY <1>14, <2>1 DEF ListsHold
<1>16. QED
  BY <1>4, <1>9, <1>11, <1>12, <1>13, <1>15 DEF ServiceInv

-----------------------------------------------------------------------------
(* The steps that write nothing. *)

(* The requests clients may make are well shaped and have read nothing.     *)
Unread(r) == r \in CallRows /\ r.place = 0 /\ r.seen = 0 /\ Shaped(r)

LEMMA RequestShapes ==
  ASSUME NEW u \in Users
  PROVE  /\ \A r \in Records \cup {Placeholder} :
              Unread(ApproveRequest(r, u)) /\ Unread(RejectRequest(r, u))
         /\ \A d \in Definitions \cup {None} : Unread(CreateRequest(u, d))
         /\ \A p \in Preferences : Unread(PreferenceRequest(p, u))
         /\ \A i \in Instances : /\ Unread(SuspendRequest(i))
                                 /\ \A d \in Definitions : Unread(UpgradeRequest(i, d))
<1>1. \A r : r \in CallRows /\ r.place = 0 /\ r.seen = 0 /\ Shaped(r) => Unread(r)
  BY DEF Unread
<1> USE GovernanceAssumption
    DEF NewCall, CallRows, Operations, Decisions, Changes, OnInstances, Shaped,
        ApprovalRows, InstanceRows, Pending, NoInstance, Unread
<1>2. \A r \in Records \cup {Placeholder} : Unread(ApproveRequest(r, u))
  BY DEF ApproveRequest
<1>3. \A r \in Records \cup {Placeholder} : Unread(RejectRequest(r, u))
  BY DEF RejectRequest
<1>4. \A d \in Definitions \cup {None} : Unread(CreateRequest(u, d))
  BY DEF CreateRequest
<1>5. \A p \in Preferences : Unread(PreferenceRequest(p, u))
  BY DEF PreferenceRequest
<1>6. \A i \in Instances : Unread(SuspendRequest(i))
  BY DEF SuspendRequest
<1>7. \A i \in Instances, d \in Definitions : Unread(UpgradeRequest(i, d))
  BY DEF UpgradeRequest
<1>8. QED
  BY <1>2, <1>3, <1>4, <1>5, <1>6, <1>7

LEMMA RequestStep ==
  ASSUME ServiceInv, NEW e \in Calls, Request(e)
  PROVE  ServiceInv'
<1>1. UNCHANGED <<rowVars, now, written, faults>>
  BY DEF Request
<1>2. PICK r : Unread(r) /\ Arrive(e, r)
  <2>1. PICK u \in Users :
          \/ \E r \in Records \cup {Placeholder} :
               Arrive(e, ApproveRequest(r, u)) \/ Arrive(e, RejectRequest(r, u))
          \/ \E d \in Definitions \cup {None} : Arrive(e, CreateRequest(u, d))
          \/ \E p \in Preferences : Arrive(e, PreferenceRequest(p, u))
          \/ \E i \in {j \in Instances : instance[j].user = u} :
               \/ Arrive(e, SuspendRequest(i))
               \/ \E d \in Definitions : Arrive(e, UpgradeRequest(i, d))
    BY DEF Request
  <2>2. CASE \E r \in Records \cup {Placeholder} :
               Arrive(e, ApproveRequest(r, u)) \/ Arrive(e, RejectRequest(r, u))
    BY <2>2, RequestShapes
  <2>3. CASE \E d \in Definitions \cup {None} : Arrive(e, CreateRequest(u, d))
    BY <2>3, RequestShapes
  <2>4. CASE \E p \in Preferences : Arrive(e, PreferenceRequest(p, u))
    BY <2>4, RequestShapes
  <2>5. CASE \E i \in {j \in Instances : instance[j].user = u} :
               \/ Arrive(e, SuspendRequest(i))
               \/ \E d \in Definitions : Arrive(e, UpgradeRequest(i, d))
    BY <2>5, RequestShapes
  <2>6. QED
    BY <2>1, <2>2, <2>3, <2>4, <2>5
<1>3. call[e].pc = "idle" /\ call' = [call EXCEPT ![e] = r]
  BY <1>2 DEF Arrive
<1>4. call[e].place = 0 /\ \A c \in Calls : call[c].place \in Nat
  BY <1>3 DEF ServiceInv, PlacesSound, HasWritten, TypeOK, CallRows
<1>5. ReadsSound(call, r)
  BY <1>2, <1>4 DEF ReadsSound, Unread
<1>6. now' \in Times /\ faults' \in 0..MaxFaults /\ written \in Nat
  BY <1>1 DEF ServiceInv, TypeOK
<1>7. r \in CallRows /\ r.place = 0 /\ r.seen <= written /\ Shaped(r)
  BY <1>2, <1>6 DEF Unread
<1>8. QED
  BY <1>1, <1>3, <1>4, <1>5, <1>6, <1>7, CallGoesOn

(* A running call has not written. *)
LEMMA RunningUnplaced ==
  ASSUME ServiceInv, NEW e \in Calls, call[e].pc # "answered"
  PROVE  /\ call[e] \in CallRows /\ call[e].place = 0 /\ call[e].seen <= written
         /\ written \in Nat /\ written <= written /\ now \in Times /\ faults \in 0..MaxFaults
         /\ Shaped(call[e]) /\ ReadsSound(call, call[e])
  BY DEF ServiceInv, TypeOK, PlacesSound, HasWritten, CallRows, CallsSound

LEMMA FindApprovalStep ==
  ASSUME ServiceInv, NEW e \in Calls, FindApproval(e)
  PROVE  ServiceInv'
<1>1. /\ call[e].pc = "find" /\ call[e].op \in Decisions
      /\ UNCHANGED <<rowVars, now, written, faults>>
  BY DEF FindApproval
<1>2. /\ call[e] \in CallRows /\ call[e].place = 0 /\ call[e].seen <= written
      /\ written \in Nat /\ written <= written /\ now \in Times /\ faults \in 0..MaxFaults
  BY <1>1, RunningUnplaced
<1>3. CASE call[e].id \in Records
  <2> DEFINE r == [call[e] EXCEPT !.pc = "save", !.approval = approval[call[e].id],
                                  !.seen = written]
  <2>1. call' = [call EXCEPT ![e] = r]
    BY <1>3 DEF FindApproval
  <2>2. approval[call[e].id] \in ApprovalRows
    BY <1>3 DEF ServiceInv, TypeOK
  <2>3. r \in CallRows
    BY <1>2, <2>2 DEF CallRows
  <2>4. /\ r.pc = "save" /\ r.approval = approval[call[e].id] /\ r.seen = written
        /\ r.op = call[e].op /\ r.id = call[e].id /\ r.place = 0
    BY <1>2 DEF CallRows
  <2> HIDE DEF r
  <2>5. Shaped(r)
    BY <1>1, <1>3, <2>4 DEF Shaped, Decisions, OnInstances, Changes
  <2>6. ReadsSound(call, r)
    BY <1>1, <2>4 DEF ReadsSound, ServiceInv, MarksHold, Decisions
  <2>7. QED
    BY <1>1, <1>2, <2>1, <2>3, <2>4, <2>5, <2>6, CallGoesOn
<1>4. CASE call[e].id \notin Records
  <2> DEFINE r == [call[e] EXCEPT !.pc = "answered"]
  <2>1. call' = [call EXCEPT ![e] = r]
    BY <1>4 DEF FindApproval
  <2>2. r \in CallRows /\ r.pc = "answered" /\ r.seen = call[e].seen /\ r.place = 0
    BY <1>2 DEF CallRows
  <2> HIDE DEF r
  <2>3. Shaped(r) /\ ReadsSound(call, r)
    BY <2>2 DEF Shaped, ReadsSound
  <2>4. QED
    BY <1>1, <1>2, <2>1, <2>2, <2>3, CallGoesOn
<1>5. QED
  BY <1>3, <1>4

LEMMA FindInstanceStep ==
  ASSUME ServiceInv, NEW e \in Calls, FindInstance(e)
  PROVE  ServiceInv'
<1>1. /\ call[e].pc = "find" /\ call[e].op \in Changes
      /\ UNCHANGED <<rowVars, now, written, faults>>
  BY DEF FindInstance
<1>2. /\ call[e] \in CallRows /\ call[e].place = 0 /\ call[e].seen <= written
      /\ written \in Nat /\ written <= written /\ now \in Times /\ faults \in 0..MaxFaults
      /\ Shaped(call[e])
  BY <1>1, RunningUnplaced
<1>3. call[e].id \in Instances
  BY <1>1, <1>2 DEF Shaped
<1> DEFINE r == [call[e] EXCEPT !.pc = "save", !.instance = instance[call[e].id], !.seen = written]
<1>4. call \in [Calls -> CallRows] /\ instance[call[e].id] \in InstanceRows
  BY <1>3 DEF ServiceInv, TypeOK
<1>5. r \in CallRows
  BY <1>2, <1>4 DEF CallRows
<1>6. /\ r.pc = "save" /\ r.instance = instance[call[e].id] /\ r.seen = written
      /\ r.op = call[e].op /\ r.id = call[e].id /\ r.place = 0
  BY <1>2 DEF CallRows
<1>7. call' = [call EXCEPT ![e] = r]
  BY <1>4 DEF FindInstance
<1> HIDE DEF r
<1>8. Shaped(r)
  BY <1>1, <1>3, <1>6 DEF Shaped, Decisions, OnInstances, Changes
<1>9. ReadsSound(call, r)
  BY <1>1, <1>6 DEF ReadsSound, ServiceInv, DefinitionsHold, Decisions, Changes
<1>10. QED
  BY <1>1, <1>2, <1>5, <1>6, <1>7, <1>8, <1>9, CallGoesOn

LEMMA NameInstanceStep ==
  ASSUME ServiceInv, NEW e \in Calls, NameInstance(e)
  PROVE  ServiceInv'
<1>1. call[e].pc = "definition" /\ UNCHANGED <<rowVars, now, written, faults>>
  BY DEF NameInstance
<1>2. /\ call[e] \in CallRows /\ call[e].place = 0 /\ call[e].seen <= written
      /\ written \in Nat /\ now \in Times /\ faults \in 0..MaxFaults
      /\ Shaped(call[e])
  BY <1>1, RunningUnplaced
<1>3. call[e].op = "create" /\ now \in Instances
  BY <1>1, <1>2 DEF Shaped, Instances
<1> DEFINE r == [call[e] EXCEPT !.pc = "save", !.id = now]
<1>4. r \in CallRows
  BY <1>2, <1>3 DEF CallRows
<1>5. r.pc = "save" /\ r.id = now /\ r.op = "create" /\ r.seen = call[e].seen /\ r.place = 0
  BY <1>2, <1>3 DEF CallRows
<1>6. call \in [Calls -> CallRows]
  BY DEF ServiceInv, TypeOK
<1>7. call' = [call EXCEPT ![e] = r]
  BY <1>6 DEF NameInstance
<1> HIDE DEF r
<1>8. Shaped(r) /\ ReadsSound(call, r)
  BY <1>2, <1>3, <1>5 DEF Shaped, ReadsSound, Decisions, OnInstances, Changes
<1>9. QED
  BY <1>1, <1>2, <1>4, <1>5, <1>7, <1>8, CallGoesOn

(* A call that ends without a write.                                        *)
LEMMA FailStep ==
  ASSUME ServiceInv, NEW e \in Calls, RefuseDefinition(e) \/ FailCall(e)
  PROVE  ServiceInv'
<1>1. call[e].pc # "answered" /\ UNCHANGED <<rowVars, now, written>>
  BY DEF RefuseDefinition, FailCall, SavesInstance, Running
<1>2. /\ call[e] \in CallRows /\ call[e].place = 0 /\ call[e].seen <= written
      /\ written \in Nat /\ now \in Times /\ faults \in 0..MaxFaults
  BY <1>1, RunningUnplaced
<1>3. faults' \in 0..MaxFaults
  BY <1>2, GovernanceAssumption DEF RefuseDefinition, FailCall
<1> DEFINE r == [call[e] EXCEPT !.pc = "failed"]
<1>4. call \in [Calls -> CallRows]
  BY DEF ServiceInv, TypeOK
<1>5. call' = [call EXCEPT ![e] = r]
  BY <1>4 DEF RefuseDefinition, FailCall
<1>6. r \in CallRows /\ r.pc = "failed" /\ r.seen = call[e].seen /\ r.place = 0
  BY <1>2 DEF CallRows
<1> HIDE DEF r
<1>7. Shaped(r) /\ ReadsSound(call, r)
  BY <1>6 DEF Shaped, ReadsSound
<1>8. QED
  BY <1>1, <1>2, <1>3, <1>5, <1>6, <1>7, CallGoesOn

(* Steps that leave all but the clock as it is.                             *)
LEMMA TickStep ==
  ASSUME ServiceInv, UNCHANGED <<rowVars, call, written>>,
         now' \in Times, faults' \in 0..MaxFaults
  PROVE  ServiceInv'
<1> USE DEF rowVars
<1>1. TypeOK' /\ PlacesSound'
  BY DEF ServiceInv, TypeOK, PlacesSound, HasWritten
<1>2. CallsSound' /\ Owners'
  BY DEF ServiceInv, CallsSound, Owners
<1>3. MarksHold' /\ DefinitionsHold' /\ ListsHold'
  BY DEF ServiceInv, MarksHold, DefinitionsHold, ListsHold
<1>4. QED
  BY <1>1, <1>2, <1>3 DEF ServiceInv

LEMMA ServiceInductive == ServiceInv /\ [ServiceNext]_serviceVars => ServiceInv'
<1> SUFFICES ASSUME ServiceInv, [ServiceNext]_serviceVars PROVE ServiceInv'
  OBVIOUS
<1>1. ASSUME Tick PROVE ServiceInv'
  <2>1. now \in Times /\ faults \in 0..MaxFaults
    BY DEF ServiceInv, TypeOK
  <2>2. now' \in Times
    BY <1>1, <2>1, GovernanceAssumption DEF Tick, Times
  <2>3. QED
    BY <1>1, <2>1, <2>2, TickStep DEF Tick
<1>2. ASSUME NEW e \in Calls, FindApproval(e) PROVE ServiceInv'
  BY <1>2, FindApprovalStep
<1>3. ASSUME NEW e \in Calls, FindInstance(e) PROVE ServiceInv'
  BY <1>3, FindInstanceStep
<1>4. ASSUME NEW e \in Calls, NameInstance(e) PROVE ServiceInv'
  BY <1>4, NameInstanceStep
<1>5. ASSUME NEW e \in Calls, SaveDecision(e) PROVE ServiceInv'
  BY <1>5, SaveDecisionStep
<1>6. ASSUME NEW e \in Calls, SaveInstance(e) PROVE ServiceInv'
  BY <1>6, SaveInstanceStep
<1>7. ASSUME NEW e \in Calls, SavePreference(e) PROVE ServiceInv'
  BY <1>7, SavePreferenceStep
<1>8. ASSUME NEW e \in Calls, RefuseDefinition(e) \/ FailCall(e) PROVE ServiceInv'
  BY <1>8, FailStep
<1>9. ASSUME NEW e \in Calls, Request(e) PROVE ServiceInv'
  BY <1>9, RequestStep
<1>10. ASSUME UNCHANGED serviceVars PROVE ServiceInv'
  <2>1. now \in Times /\ faults \in 0..MaxFaults
    BY DEF ServiceInv, TypeOK
  <2>2. QED
    BY <1>10, <2>1, TickStep DEF serviceVars
<1>11. QED
  BY <1>1, <1>2, <1>3, <1>4, <1>5, <1>6, <1>7, <1>8, <1>9, <1>10 DEF ServiceNext, ServiceStep

-----------------------------------------------------------------------------
(* The rows of the tables and the calls keep their types. *)
THEOREM GovernanceTypeCorrect == ServiceSpec => []TypeOK
<1>1. ServiceInv => TypeOK
  BY DEF ServiceInv
<1>2. QED
  BY <1>1, InitInv, ServiceInductive, PTL DEF ServiceSpec

LEMMA ServiceInvariant == ServiceSpec => []ServiceInv
  BY InitInv, ServiceInductive, PTL DEF ServiceSpec

(* The mark of who approved, or rejected, a record is lost only to a later  *)
(* decision of the same kind or to one that read the record before.         *)
THEOREM MarksAreExplained == ServiceSpec => []MarksExplained
<1>1. ServiceInv => MarksExplained
  BY DEF ServiceInv, MarksHold, MarkIn, SameIn, AfterIn, UnseenIn,
         MarksExplained, HasWritten, SameRow, After, Unseen, OnInstances
<1>2. QED
  BY <1>1, ServiceInvariant, PTL

(* An upgrade stands until the next; a suspension undoes it only if it had  *)
(* read the instance before.                                                *)
THEOREM UpgradesAreExplained == ServiceSpec => []UpgradesExplained
<1>1. ServiceInv => UpgradesExplained
  BY DEF ServiceInv, DefinitionsHold, DefinitionIn, SameIn, AfterIn, UnseenIn,
         UpgradesExplained, HasWritten, SameRow, After, Unseen, OnInstances
<1>2. QED
  BY <1>1, ServiceInvariant, PTL

(* What a call created or set is in its user's lists, unless another user   *)
(* wrote the row first.                                                     *)
THEOREM AnswersAreListed == ServiceSpec => []AnsweredListed
<1>1. ServiceInv => AnsweredListed
  <2> SUFFICES ASSUME ServiceInv, NEW c \in Calls, call[c].place > 0
               PROVE  /\ call[c].op = "create" =>
                           \/ call[c].id \in listAssistantInstances(call[c].user)
                           \/ \E d \in Calls : WroteBefore(d, c) /\ call[d].user # call[c].user
                      /\ call[c].op = "prefer" =>
                           \/ call[c].id \in listNotificationPreferences(call[c].user)
                           \/ call[c].id = SeededPreference
                           \/ \E d \in Calls : WroteBefore(d, c) /\ call[d].user # call[c].user
    BY DEF AnsweredListed, HasWritten
  <2>1. /\ call[c].op = "create" => call[c].id \in Instances
        /\ call[c].op = "prefer" => call[c].id \in Preferences
    BY DEF ServiceInv, CallsSound, Shaped, OnInstances
  <2>2. \A owner : ListedIn(call, c, owner) =>
          \/ owner = call[c].user
          \/ \E d \in Calls : WroteBefore(d, c) /\ call[d].user # call[c].user
    BY DEF ListedIn, WroteBefore, SameIn, AfterIn, SameRow, After, HasWritten, OnInstances
  <2>3. QED
    BY <2>1, <2>2 DEF ServiceInv, ListsHold, listAssistantInstances, listNotificationPreferences
<1>2. QED
  BY <1>1, ServiceInvariant, PTL
=============================================================================
