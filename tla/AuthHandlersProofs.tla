------------------------ MODULE AuthHandlersProofs ------------------------
(***************************************************************************)
(* The safety of AuthHandlers for any number of requests, names, passwords *)
(* and slots.  AuthInv is inductive: to the properties it adds who stored  *)
(* an account (AccountsHaveAuthors) and what a handler knows by its stage  *)
(* (StagesAgree).                                                          *)
(***************************************************************************)
EXTENDS AuthHandlers, FiniteSetTheorems, TLAPS

USE AuthAssumption

\* Handing a place over keeps the count; giving it back takes one off.
LEMMA HandOver ==
  ASSUME NEW S, NEW x \in S, IsFiniteSet(S), Cardinality(S) \in Nat
  PROVE  /\ IsFiniteSet(S \ {x}) /\ Cardinality(S \ {x}) = Cardinality(S) - 1
         /\ \A y : y \notin S => Cardinality((S \ {x}) \cup {y}) = Cardinality(S)
<1>1. IsFiniteSet(S \ {x}) /\ Cardinality(S \ {x}) = Cardinality(S) - 1
  BY FS_RemoveElement
<1>2. ASSUME NEW y, y \notin S PROVE Cardinality((S \ {x}) \cup {y}) = Cardinality(S)
  <2>1. Cardinality((S \ {x}) \cup {y}) = Cardinality(S \ {x}) + 1
    BY <1>1, <1>2, FS_AddElement
  <2> QED BY <1>1, <2>1
<1> QED BY <1>1, <1>2

\* The part of the invariant about accounts and answers, without its
\* consequences; the other part is SlotInv.
DataInv == LoginNeedsPassword /\ OneOwner /\ EqualCost /\ AccountsHaveAuthors /\ StagesAgree

\* The set of slot holders is finite: auth.go's requests are.
LEMMA HoldersFinite ==
  ASSUME TypeOK
  PROVE  IsFiniteSet(holders) /\ Cardinality(holders) \in Nat
<1>1. holders \in SUBSET Requests BY DEF TypeOK
<1>2. IsFiniteSet(holders) BY <1>1, FS_Subset
<1> QED BY <1>2, FS_CardinalityType

-----------------------------------------------------------------------------
(* Types.                                                                  *)

LEMMA TypeInit == Init => TypeOK
BY DEF Init, TypeOK, Stages, Statuses, NoAnswer

\* Giving a slot back keeps the types.
LEMMA TypeRelease ==
  ASSUME TypeOK, NEW r \in Requests, NEW to \in Stages, NEW status \in Statuses,
         Release(r, to, status)
  PROVE  /\ stage' \in [Requests -> Stages]
         /\ answer' \in [Requests -> Statuses]
         /\ holders' \in SUBSET Requests
BY DEF TypeOK, Release, Queue, Stages

\* Every step keeps the types.
LEMMA TypeStep ==
  ASSUME TypeOK, [Next]_vars
  PROVE  TypeOK'
<1>1. CASE UNCHANGED vars BY <1>1 DEF vars, TypeOK
<1>2. ASSUME NEW r \in Requests, HangUp(r) PROVE TypeOK'
  BY <1>2 DEF HangUp, TypeOK
<1>3. ASSUME NEW r \in Requests, Handle(r) PROVE TypeOK'
  <2>1. CASE Start(r) BY <2>1 DEF Start, Goto, TypeOK, Stages
  <2>2. CASE Reject(r) BY <2>2 DEF Reject, Answer, TypeOK, Stages, Statuses
  <2>3. CASE Lookup(r)
    <3>1. stage' \in [Requests -> Stages] BY <2>3 DEF Lookup, Goto, TypeOK, Stages
    <3>2. looked' \in [Requests -> Passwords \cup {Nobody}]
      BY <2>3 DEF Lookup, TypeOK, Account
    <3> QED BY <2>3, <3>1, <3>2 DEF Lookup, TypeOK
  <2>4. CASE DummyFirst(r) BY <2>4 DEF DummyFirst, Goto, TypeOK, Stages
  <2>5. CASE DummyDone(r)
    <3>1. stage' \in [Requests -> Stages] /\ answer' \in [Requests -> Statuses]
      BY <2>5 DEF DummyDone, Goto, Answer, TypeOK, Stages, Statuses
    <3> QED BY <2>5, <3>1 DEF DummyDone, TypeOK
  <2>6. CASE DummyReady(r) BY <2>6 DEF DummyReady, Goto, TypeOK, Stages
  <2>7. CASE TakeSlot(r) BY <2>7 DEF TakeSlot, Goto, TypeOK, Stages
  <2>8. CASE WaitForSlot(r) BY <2>8 DEF WaitForSlot, Goto, TypeOK, Stages
  <2>9. CASE Abandon(r) BY <2>9 DEF Abandon, Answer, TypeOK, Stages, Statuses, Silent
  <2>10. CASE Shed(r) BY <2>10 DEF Shed, Answer, TypeOK, Stages, Statuses
  <2>11. CASE Verify(r)
    <3>1. Verdict(r) \in Statuses /\ "answered" \in Stages BY DEF Verdict, Statuses, Stages
    <3>2. verifies' \in [Requests -> Nat] BY <2>11 DEF Verify, TypeOK
    <3> QED BY <2>11, <3>1, <3>2, TypeRelease DEF Verify, TypeOK
  <2>12. CASE Hash(r)
    <3>1. 500 \in Statuses /\ NoAnswer \in Statuses /\ {"answered", "store"} \subseteq Stages
      BY DEF Statuses, Stages
    <3> QED BY <2>12, <3>1, TypeRelease DEF Hash, TypeOK
  <2>13. CASE HashFails(r)
    <3>1. 500 \in Statuses /\ "answered" \in Stages BY DEF Statuses, Stages
    <3> QED BY <2>13, <3>1, TypeRelease DEF HashFails, TypeOK
  <2>14. CASE Store(r)
    <3>1. ask[r].name \in Names /\ ask[r].pass \in Passwords BY DEF TypeOK
    <3>2. accounts' \in [Names -> Account \cup {Nobody}]
      BY <2>14, <3>1 DEF Store, TypeOK, Account
    <3>3. stage' \in [Requests -> Stages]
      BY <2>14 DEF Store, Goto, Answer, TypeOK, Stages
    <3>4. answer' \in [Requests -> Statuses]
      <4>1. CASE UNCHANGED answer BY <4>1 DEF TypeOK
      <4>2. CASE \E status \in {409, 500} : answer' = [answer EXCEPT ![r] = status]
        BY <4>2 DEF TypeOK, Statuses
      <4> QED BY <2>14, <4>1, <4>2 DEF Store, Answer
    <3> QED BY <2>14, <3>2, <3>3, <3>4 DEF Store, TypeOK
  <2>15. CASE Issue(r) BY <2>15 DEF Issue, Answer, TypeOK, Stages, Statuses
  <2> QED BY <1>3, <2>1, <2>2, <2>3, <2>4, <2>5, <2>6, <2>7, <2>8, <2>9, <2>10, <2>11,
             <2>12, <2>13, <2>14, <2>15 DEF Handle
<1> QED BY <1>1, <1>2, <1>3 DEF Next

-----------------------------------------------------------------------------
(* The slots.                                                              *)

\* A handler that moves between stages without a slot disturbs nothing.
LEMMA SlotsQuiet ==
  ASSUME TypeOK, SlotInv, NEW r \in Requests, NEW to \in Stages \ {"hashing"},
         stage[r] # "hashing", stage' = [stage EXCEPT ![r] = to], UNCHANGED holders,
         to = "queue" => ~Free,
         to = "dummying" => \A q \in Requests : stage[q] # "dummying"
  PROVE  SlotInv'
<1> USE DEF TypeOK, SlotInv, SlotsHeldWhileHashing, NoIdleSlot, Queue, Stages, Free
<1>1. holders' = {q \in Requests : stage'[q] = "hashing"} OBVIOUS
<1>2. Cardinality(holders') <= Slots OBVIOUS
<1>3. \A p, q \in Requests : stage'[p] = "dummying" /\ stage'[q] = "dummying" => p = q
  OBVIOUS
<1>4. Queue' # {} => Cardinality(holders') >= Slots
  <2>1. CASE to = "queue" BY <2>1, HoldersFinite
  <2>2. CASE to # "queue"
    <3>1. Queue' \subseteq Queue BY <2>2
    <3> QED BY <3>1
  <2> QED BY <2>1, <2>2
<1> QED BY <1>1, <1>2, <1>3, <1>4

LEMMA SlotsTaken ==
  ASSUME TypeOK, SlotInv, NEW r \in Requests, TakeSlot(r)
  PROVE  SlotInv'
<1> USE DEF TypeOK, SlotInv, SlotsHeldWhileHashing, NoIdleSlot, Queue, Free, TakeSlot, Goto
<1>1. r \notin holders OBVIOUS
<1>2. Cardinality(holders') = Cardinality(holders) + 1
  BY <1>1, HoldersFinite, FS_AddElement
<1>3. holders' = {q \in Requests : stage'[q] = "hashing"} OBVIOUS
<1>4. Cardinality(holders') <= Slots BY <1>2, HoldersFinite
<1>5. \A p, q \in Requests : stage'[p] = "dummying" /\ stage'[q] = "dummying" => p = q
  OBVIOUS
<1>6. Queue' = {}
  <2>1. Queue = {} BY HoldersFinite
  <2> QED BY <2>1
<1> QED BY <1>3, <1>4, <1>5, <1>6

LEMMA SlotsReleased ==
  ASSUME TypeOK, SlotInv, NEW r \in Requests, NEW to \in {"store", "answered"}, NEW status,
         stage[r] = "hashing", Release(r, to, status)
  PROVE  SlotInv'
<1>0. IsFiniteSet(holders) /\ Cardinality(holders) \in Nat BY HoldersFinite
<1>1. r \in holders BY DEF SlotInv, SlotsHeldWhileHashing
<1>2. /\ Cardinality(holders \ {r}) = Cardinality(holders) - 1
      /\ \A y : y \notin holders => Cardinality((holders \ {r}) \cup {y}) = Cardinality(holders)
  BY <1>0, <1>1, HandOver
<1> USE DEF TypeOK, SlotInv, SlotsHeldWhileHashing, NoIdleSlot, Queue
<1>3. CASE Queue = {}
  <2>1. holders' = holders \ {r} /\ stage' = [stage EXCEPT ![r] = to]
    BY <1>3 DEF Release
  <2>2. holders' = {q \in Requests : stage'[q] = "hashing"} BY <2>1
  <2>3. Cardinality(holders') <= Slots BY <1>2, <2>1, HoldersFinite
  <2>4. \A p, q \in Requests : stage'[p] = "dummying" /\ stage'[q] = "dummying" => p = q
    BY <2>1
  <2>5. Queue' = {} BY <1>3, <2>1
  <2> QED BY <2>2, <2>3, <2>4, <2>5
<1>4. CASE Queue # {}
  <2>1. PICK w \in Queue : /\ holders' = (holders \ {r}) \cup {w}
                           /\ stage' = [stage EXCEPT ![r] = to, ![w] = "hashing"]
    BY <1>4 DEF Release
  <2>2. w \in Requests /\ w # r /\ w \notin holders OBVIOUS
  <2>3. Cardinality(holders') = Cardinality(holders)
    BY <1>2, <2>1, <2>2
  <2>4. holders' = {q \in Requests : stage'[q] = "hashing"} BY <2>1, <2>2
  <2>5. \A p, q \in Requests : stage'[p] = "dummying" /\ stage'[q] = "dummying" => p = q
    BY <2>1, <2>2
  <2>6. Cardinality(holders') >= Slots BY <1>4, <2>3
  <2> QED BY <2>3, <2>4, <2>5, <2>6
<1> QED BY <1>3, <1>4

\* Every step keeps the slots in order.
LEMMA SlotStep ==
  ASSUME TypeOK, SlotInv, StagesAgree, [Next]_vars
  PROVE  SlotInv'
<1>1. CASE UNCHANGED vars
  BY <1>1 DEF vars, SlotInv, SlotsHeldWhileHashing, NoIdleSlot, Queue
<1>2. ASSUME NEW r \in Requests, HangUp(r) PROVE SlotInv'
  BY <1>2 DEF HangUp, SlotInv, SlotsHeldWhileHashing, NoIdleSlot, Queue
<1>3. ASSUME NEW r \in Requests, Handle(r) PROVE SlotInv'
  <2> USE DEF Goto, Answer, Stages
  <2>1. CASE Start(r)
    <3>1. CASE ask[r].kind = "login" BY <2>1, <3>1, SlotsQuiet DEF Start
    <3>2. CASE ask[r].kind # "login" BY <2>1, <3>2, SlotsQuiet DEF Start
    <3> QED BY <3>1, <3>2
  <2>2. CASE Reject(r) BY <2>2, SlotsQuiet DEF Reject
  <2>3. CASE Lookup(r) BY <2>3, SlotsQuiet DEF Lookup
  <2>4. CASE DummyFirst(r)
    <3>1. \A q \in Requests : stage[q] # "dummying" BY <2>4 DEF DummyFirst, StagesAgree
    <3> QED BY <2>4, <3>1, SlotsQuiet DEF DummyFirst
  <2>5. CASE DummyDone(r) BY <2>5, SlotsQuiet DEF DummyDone
  <2>6. CASE DummyReady(r) BY <2>6, SlotsQuiet DEF DummyReady
  <2>7. CASE TakeSlot(r) BY <2>7, SlotsTaken
  <2>8. CASE WaitForSlot(r) BY <2>8, SlotsQuiet DEF WaitForSlot
  <2>9. CASE Abandon(r) BY <2>9, SlotsQuiet DEF Abandon
  <2>10. CASE Shed(r) BY <2>10, SlotsQuiet DEF Shed
  <2>11. CASE Verify(r) BY <2>11, SlotsReleased DEF Verify
  <2>12. CASE Hash(r) BY <2>12, SlotsReleased DEF Hash
  <2>13. CASE HashFails(r) BY <2>13, SlotsReleased DEF HashFails
  <2>14. CASE Store(r) BY <2>14, SlotsQuiet DEF Store
  <2>15. CASE Issue(r) BY <2>15, SlotsQuiet DEF Issue
  <2> QED BY <1>3, <2>1, <2>2, <2>3, <2>4, <2>5, <2>6, <2>7, <2>8, <2>9, <2>10, <2>11,
             <2>12, <2>13, <2>14, <2>15 DEF Handle
<1> QED BY <1>1, <1>2, <1>3 DEF Next

-----------------------------------------------------------------------------
(* Accounts and answers.                                                   *)

\* While r moves, the others stay where they are, or get the slot they wait for.
OthersWait(r) ==
  \A q \in Requests \ {r} :
    stage'[q] = stage[q] \/ (stage[q] = "queue" /\ stage'[q] = "hashing")

Running == Stages \ {"issue", "answered"}
\* r is answered without having got anything.
Refused(r) ==
  /\ stage'[r] = "answered"
  /\ answer'[r] \in {Silent, 400, 409, 500, 503}
  /\ \A q \in Requests \ {r} : answer'[q] = answer[q]
DummyMarked == \A q \in Requests : stage'[q] = "dummying" => once' = "running"

LEMMA ReleaseMoves ==
  ASSUME TypeOK, NEW r \in Requests, NEW to, NEW status, stage[r] = "hashing",
         Release(r, to, status)
  PROVE  /\ OthersWait(r) /\ stage'[r] = to
         /\ answer' = [answer EXCEPT ![r] = status]
BY DEF TypeOK, Release, Queue, OthersWait

\* A handler that computes the dummy hash keeps the once running.
LEMMA MarkStep ==
  ASSUME TypeOK, SlotInv, StagesAgree, NEW r \in Requests, Handle(r)
  PROVE  DummyMarked
<1> USE DEF TypeOK, StagesAgree, DummyMarked, Goto, Answer, Stages
<1>1. CASE DummyFirst(r) BY <1>1 DEF DummyFirst
<1>2. CASE DummyDone(r)
  <2>1. \A q \in Requests \ {r} : stage[q] # "dummying"
    BY <1>2 DEF DummyDone, SlotInv, SlotsHeldWhileHashing
  <2>2. \A q \in Requests : stage'[q] # "dummying" BY <1>2, <2>1 DEF DummyDone
  <2> QED BY <2>2
<1>3. ASSUME UNCHANGED once, \A q \in Requests : stage'[q] = "dummying" => stage[q] = "dummying"
      PROVE  DummyMarked
  BY <1>3
<1>4. CASE Start(r) \/ Reject(r) BY <1>3, <1>4 DEF Start, Reject
<1>5. CASE Lookup(r) \/ DummyReady(r) BY <1>3, <1>5 DEF Lookup, DummyReady
<1>6. CASE TakeSlot(r) \/ WaitForSlot(r) \/ Abandon(r) \/ Shed(r)
  BY <1>3, <1>6 DEF TakeSlot, WaitForSlot, Abandon, Shed
<1>7. CASE Verify(r) \/ Hash(r) \/ HashFails(r)
  <2>1. PICK to \in {"answered", "store"}, status \in Statuses : Release(r, to, status)
    BY <1>7 DEF Verify, Hash, HashFails, Statuses, Verdict
  <2>2. stage[r] = "hashing" BY <1>7 DEF Verify, Hash, HashFails
  <2>3. OthersWait(r) /\ stage'[r] = to BY <2>1, <2>2, ReleaseMoves
  <2>4. UNCHANGED once BY <1>7 DEF Verify, Hash, HashFails
  <2> QED BY <1>3, <2>3, <2>4 DEF OthersWait
<1>8. CASE Store(r) \/ Issue(r) BY <1>3, <1>8 DEF Store, Issue
<1> QED BY <1>1, <1>2, <1>4, <1>5, <1>6, <1>7, <1>8 DEF Handle

\* A handler that only moves on.
LEMMA DataQuiet ==
  ASSUME TypeOK, DataInv, NEW r \in Requests, OthersWait(r), DummyMarked,
         stage[r] \in Running, stage'[r] \in Running,
         stage'[r] = "store" => ask[r].kind = "register" /\ secret,
         UNCHANGED <<ask, looked, verifies, accounts, secret, answer>>
  PROVE  DataInv'
<1> USE DEF TypeOK, DataInv, OthersWait, Running, Stages, DummyMarked
<1>1. LoginNeedsPassword' /\ OneOwner' /\ EqualCost'
  BY DEF LoginNeedsPassword, OneOwner, EqualCost
<1>2. AccountsHaveAuthors'
  BY DEF AccountsHaveAuthors, Account
<1>3. StagesAgree' BY DEF StagesAgree
<1> QED BY <1>1, <1>2, <1>3

\* A handler that gives up without having touched anything.
LEMMA DataRefused ==
  ASSUME TypeOK, DataInv, NEW r \in Requests, OthersWait(r), DummyMarked,
         stage[r] \in Running, Refused(r),
         UNCHANGED <<ask, looked, verifies, accounts, secret>>
  PROVE  DataInv'
<1>0. \A q \in Requests : stage[q] = "answered" <=> answer[q] # 0
  BY DEF DataInv, StagesAgree, NoAnswer
<1> USE DEF TypeOK, DataInv, OthersWait, Running, Stages, DummyMarked, NoAnswer, Silent, Refused
<1>1. LoginNeedsPassword' /\ OneOwner' /\ EqualCost'
  BY DEF LoginNeedsPassword, OneOwner, EqualCost
<1>2. AccountsHaveAuthors'
  BY DEF AccountsHaveAuthors, Account
<1>3. StagesAgree'
  <2>1. answer'[r] # NoAnswer /\ stage'[r] = "answered" OBVIOUS
  <2>2. \A q \in Requests \ {r} : stage'[q] = "answered" <=> stage[q] = "answered" OBVIOUS
  <2>3. ASSUME NEW q \in Requests PROVE stage'[q] = "answered" <=> answer'[q] # NoAnswer
    <3>1. CASE q = r BY <2>1, <3>1
    <3>2. CASE q # r
      <4>1. stage[q] = "answered" <=> answer[q] # 0 BY <1>0
      <4>2. answer'[q] = answer[q] BY <3>2
      <4> QED BY <2>2, <3>2, <4>1, <4>2
    <3> QED BY <3>1, <3>2
  <2>4. \A q \in Requests : stage'[q] \in {"store", "issue"} => stage[q] = stage'[q]
    OBVIOUS
  <2>5. \A q \in Requests : stage'[q] # "answered" => stage[q] # "answered" OBVIOUS
  <2> QED BY <2>3, <2>4, <2>5 DEF StagesAgree
<1> QED BY <1>1, <1>2, <1>3

\* Lookup only ever returns the password of an account that exists.
LEMMA DataLookup ==
  ASSUME TypeOK, DataInv, NEW r \in Requests, Lookup(r)
  PROVE  DataInv'
<1> USE DEF TypeOK, DataInv, Stages, Lookup, Goto
<1>1. LoginNeedsPassword' /\ OneOwner' /\ EqualCost'
  BY DEF LoginNeedsPassword, OneOwner, EqualCost
<1>2. AccountsHaveAuthors' BY DEF AccountsHaveAuthors, Account
<1>3. StagesAgree' BY DEF StagesAgree
<1> QED BY <1>1, <1>2, <1>3

\* The verdict of a login agrees with the account it looked up.
LEMMA DataVerify ==
  ASSUME TypeOK, DataInv, NEW r \in Requests, Verify(r)
  PROVE  DataInv'
<1>1. /\ OthersWait(r) /\ stage'[r] = "answered" /\ stage[r] = "hashing"
      /\ answer' = [answer EXCEPT ![r] = Verdict(r)]
      /\ verifies' = [verifies EXCEPT ![r] = @ + 1]
      /\ UNCHANGED <<ask, looked, once, accounts, secret>>
  BY ReleaseMoves DEF Verify
<1>2. Verdict(r) \in {200, 401, 500} BY DEF Verdict
<1> USE DEF TypeOK, DataInv, OthersWait, Stages, NoAnswer
<1>3. LoginNeedsPassword'
  <2>1. ASSUME NEW q \in Requests, answer'[q] = 200
        PROVE  accounts[ask[q].name] # Nobody /\ accounts[ask[q].name].pass = ask[q].pass
    <3>1. CASE q # r BY <1>1, <2>1, <3>1 DEF LoginNeedsPassword
    <3>2. CASE q = r
      <4>1. Verdict(r) = 200 BY <1>1, <2>1, <3>2
      <4>2. looked[r] # Nobody /\ ask[r].pass = looked[r] BY <4>1 DEF Verdict
      <4> QED BY <3>2, <4>2 DEF StagesAgree
    <3> QED BY <3>1, <3>2
  <2> QED BY <1>1, <2>1 DEF LoginNeedsPassword
<1>4. OneOwner' BY <1>1, <1>2 DEF OneOwner
<1>5. EqualCost'
  <2>1. verifies[r] = 0 BY <1>1 DEF StagesAgree
  <2> QED BY <1>1, <2>1 DEF EqualCost
<1>6. AccountsHaveAuthors' BY <1>1 DEF AccountsHaveAuthors, Account
<1>7. StagesAgree' BY <1>1, <1>2 DEF StagesAgree
<1> QED BY <1>3, <1>4, <1>5, <1>6, <1>7

\* A new account takes a name that nobody has been told anything about.
LEMMA DataCreate ==
  ASSUME TypeOK, DataInv, NEW r \in Requests, stage[r] = "store",
         accounts[ask[r].name] = Nobody,
         accounts' = [accounts EXCEPT ![ask[r].name] = [pass |-> ask[r].pass, by |-> r]],
         stage' = [stage EXCEPT ![r] = "issue"],
         UNCHANGED <<ask, looked, once, verifies, secret, answer>>
  PROVE  DataInv'
<1>1. ask[r].name \in Names /\ ask[r].pass \in Passwords BY DEF TypeOK
<1>2. ask[r].kind = "register" /\ secret BY DEF DataInv, StagesAgree
<1> USE DEF TypeOK, DataInv, Stages
<1>3. LoginNeedsPassword' BY <1>1 DEF LoginNeedsPassword, StagesAgree
<1>4. OneOwner' BY <1>1 DEF OneOwner
<1>5. EqualCost' BY DEF EqualCost
<1>6. AccountsHaveAuthors' BY <1>1, <1>2 DEF AccountsHaveAuthors, StagesAgree, Account
<1>7. StagesAgree' BY <1>1, <1>2 DEF StagesAgree
<1> QED BY <1>3, <1>4, <1>5, <1>6, <1>7

\* The store's three answers: the name was free, it was taken, or it failed.
LEMMA DataStore ==
  ASSUME TypeOK, DataInv, NEW r \in Requests, Store(r), DummyMarked
  PROVE  DataInv'
<1>1. CASE /\ accounts[ask[r].name] = Nobody /\ Goto(r, "issue")
           /\ accounts' = [accounts EXCEPT ![ask[r].name] = [pass |-> ask[r].pass, by |-> r]]
           /\ UNCHANGED answer
  BY <1>1, DataCreate DEF Store, Goto
<1>2. ASSUME NEW status \in {409, 500}, Answer(r, status), UNCHANGED accounts
      PROVE  DataInv'
  <2>1. OthersWait(r) /\ Refused(r)
    BY <1>2 DEF TypeOK, OthersWait, Answer, Refused
  <2>2. stage[r] \in Running BY DEF Store, Running, Stages
  <2>3. UNCHANGED <<ask, looked, verifies, accounts, secret>> BY <1>2 DEF Store
  <2> QED BY <2>1, <2>2, <2>3, DataRefused
<1> QED BY <1>1, <1>2 DEF Store

\* A register that stored its account tells the client so, or fails on the session.
LEMMA DataIssue ==
  ASSUME TypeOK, DataInv, NEW r \in Requests, Issue(r)
  PROVE  DataInv'
<1>1. PICK status \in {201, 500} : answer' = [answer EXCEPT ![r] = status]
  BY DEF Issue, Answer
<1>2. stage[r] = "issue" /\ stage' = [stage EXCEPT ![r] = "answered"]
  BY DEF Issue, Answer
<1> USE DEF TypeOK, DataInv, Stages, NoAnswer
<1>3. UNCHANGED <<ask, looked, once, verifies, accounts, secret>> BY DEF Issue
<1>4. LoginNeedsPassword' BY <1>1, <1>3 DEF LoginNeedsPassword
<1>5. OneOwner' BY <1>1, <1>2, <1>3 DEF OneOwner, StagesAgree
<1>6. EqualCost' BY <1>1, <1>3 DEF EqualCost
<1>7. AccountsHaveAuthors' BY <1>1, <1>2, <1>3 DEF AccountsHaveAuthors, Account
<1>8. StagesAgree' BY <1>1, <1>2, <1>3 DEF StagesAgree
<1> QED BY <1>4, <1>5, <1>6, <1>7, <1>8

\* A register goes on to the store only with a secret to sign a session with.
LEMMA DataHash ==
  ASSUME TypeOK, DataInv, NEW r \in Requests, Hash(r), DummyMarked
  PROVE  DataInv'
<1>1. /\ stage[r] \in Running /\ stage[r] = "hashing" /\ ask[r].kind = "register"
      /\ UNCHANGED <<ask, looked, verifies, accounts, secret>>
  BY DEF Hash, Running, Stages
<1>2. CASE ~secret
  <2>1. Release(r, "answered", 500) BY <1>2 DEF Hash
  <2>2. OthersWait(r) /\ Refused(r) BY <1>1, <2>1, ReleaseMoves DEF Refused, TypeOK
  <2> QED BY <1>1, <2>2, DataRefused
<1>3. CASE secret
  <2>1. Release(r, "store", NoAnswer) BY <1>3 DEF Hash
  <2>2. OthersWait(r) /\ stage'[r] = "store" /\ answer' = [answer EXCEPT ![r] = NoAnswer]
    BY <1>1, <2>1, ReleaseMoves
  <2>3. answer[r] = NoAnswer BY <1>1 DEF DataInv, StagesAgree
  <2>4. UNCHANGED answer BY <2>2, <2>3 DEF TypeOK
  <2>5. stage'[r] \in Running BY <2>2 DEF Running, Stages
  <2> QED BY <1>1, <1>3, <2>2, <2>4, <2>5, DataQuiet
<1> QED BY <1>2, <1>3

\* Every step keeps accounts and answers in agreement.
LEMMA DataStep ==
  ASSUME TypeOK, SlotInv, DataInv, [Next]_vars
  PROVE  DataInv'
<1>1. CASE UNCHANGED vars
  BY <1>1 DEF vars, DataInv, LoginNeedsPassword, OneOwner, EqualCost, AccountsHaveAuthors,
              StagesAgree
<1>2. ASSUME NEW r \in Requests, HangUp(r) PROVE DataInv'
  BY <1>2 DEF HangUp, DataInv, LoginNeedsPassword, OneOwner, EqualCost, AccountsHaveAuthors,
              StagesAgree
<1>3. ASSUME NEW r \in Requests, Handle(r) PROVE DataInv'
  <2> DEFINE Same == UNCHANGED <<ask, looked, verifies, accounts, secret>>
  <2>0. DummyMarked BY <1>3, MarkStep DEF DataInv
  <2>1. ASSUME stage[r] \in Running, NEW to \in Running \ {"store"},
               stage' = [stage EXCEPT ![r] = to], Same, UNCHANGED answer
        PROVE  DataInv'
    <3>1. OthersWait(r) /\ stage'[r] = to BY <2>1 DEF OthersWait, TypeOK
    <3> QED BY <2>0, <2>1, <3>1, DataQuiet
  <2>2. ASSUME stage[r] \in Running, NEW status \in {Silent, 400, 409, 500, 503},
               Answer(r, status), Same
        PROVE  DataInv'
    <3>1. OthersWait(r) /\ Refused(r) BY <2>2 DEF OthersWait, TypeOK, Answer, Refused
    <3> QED BY <2>0, <2>2, <3>1, DataRefused
  <2>3. CASE Start(r) BY <2>1, <2>3 DEF Start, Goto, Running, Stages
  <2>4. CASE Reject(r) BY <2>2, <2>4 DEF Reject, Running, Stages
  <2>5. CASE Lookup(r) BY <2>5, DataLookup
  <2>6. CASE DummyFirst(r) BY <2>1, <2>6 DEF DummyFirst, Goto, Running, Stages
  <2>7. CASE DummyDone(r)
    BY <2>1, <2>2, <2>7 DEF DummyDone, Goto, Running, Stages
  <2>8. CASE DummyReady(r) BY <2>1, <2>8 DEF DummyReady, Goto, Running, Stages
  <2>9. CASE TakeSlot(r) BY <2>1, <2>9 DEF TakeSlot, Goto, Running, Stages
  <2>10. CASE WaitForSlot(r) BY <2>1, <2>10 DEF WaitForSlot, Goto, Running, Stages
  <2>11. CASE Abandon(r) BY <2>2, <2>11 DEF Abandon, Running, Stages
  <2>12. CASE Shed(r) BY <2>2, <2>12 DEF Shed, Running, Stages
  <2>13. CASE Verify(r) BY <2>13, DataVerify
  <2>14. CASE Hash(r) BY <2>0, <2>14, DataHash
  <2>15. CASE HashFails(r)
    <3>1. /\ stage[r] \in Running /\ stage[r] = "hashing" /\ Same
          /\ Release(r, "answered", 500)
      BY <2>15 DEF HashFails, Running, Stages
    <3>2. OthersWait(r) /\ Refused(r) BY <3>1, ReleaseMoves DEF Refused, TypeOK
    <3> QED BY <2>0, <3>1, <3>2, DataRefused
  <2>16. CASE Store(r) BY <2>0, <2>16, DataStore
  <2>17. CASE Issue(r) BY <2>17, DataIssue
  <2> QED BY <1>3, <2>3, <2>4, <2>5, <2>6, <2>7, <2>8, <2>9, <2>10, <2>11, <2>12, <2>13,
             <2>14, <2>15, <2>16, <2>17 DEF Handle
<1> QED BY <1>1, <1>2, <1>3 DEF Next

-----------------------------------------------------------------------------
(* The theorems.                                                           *)

\* An author that has answered answered 201 or, with a secret, 500.
LEMMA RefusedFromAuthors ==
  ASSUME TypeOK, AccountsHaveAuthors, StagesAgree
  PROVE  RefusedLeavesNothing
BY DEF TypeOK, Account, AccountsHaveAuthors, StagesAgree, RefusedLeavesNothing

\* AuthInv holds of every reachable state, for any number of requests and slots.
THEOREM AuthInvariance == Spec => []AuthInv
<1>1. Init => AuthInv
  <2> SUFFICES ASSUME Init PROVE AuthInv OBVIOUS
  <2>1. TypeOK BY TypeInit
  <2>2. SlotInv
    <3>1. holders = {} /\ \A r \in Requests : stage[r] = "none" BY DEF Init
    <3>2. Cardinality(holders) = 0 BY <3>1, FS_EmptySet
    <3> QED BY <3>1, <3>2 DEF SlotInv, SlotsHeldWhileHashing, NoIdleSlot, Queue
  <2>3. DataInv
    BY DEF Init, DataInv, LoginNeedsPassword, OneOwner, EqualCost, AccountsHaveAuthors,
           StagesAgree, NoAnswer
  <2> QED BY <2>1, <2>2, <2>3, RefusedFromAuthors DEF AuthInv, SlotInv, DataInv
<1>2. AuthInv /\ [Next]_vars => AuthInv'
  <2> SUFFICES ASSUME AuthInv, [Next]_vars PROVE AuthInv' OBVIOUS
  <2>1. TypeOK /\ SlotInv /\ DataInv BY DEF AuthInv, SlotInv, DataInv
  <2>2. TypeOK' BY <2>1, TypeStep
  <2>3. SlotInv' BY <2>1, SlotStep DEF DataInv
  <2>4. DataInv' BY <2>1, DataStep
  <2>5. RefusedLeavesNothing'
    BY <2>2, <2>4 DEF TypeOK, Account, DataInv, AccountsHaveAuthors, StagesAgree,
                      RefusedLeavesNothing
  <2> QED BY <2>2, <2>3, <2>4, <2>5 DEF AuthInv, SlotInv, DataInv
<1> QED BY <1>1, <1>2, PTL DEF Spec

\* No more hashes than slots, and no slot lost (auth.go:172-187).
THEOREM SlotsAlways == Spec => []SlotInv
<1>1. AuthInv => SlotInv BY DEF AuthInv, SlotInv
<1> QED BY <1>1, AuthInvariance, PTL

\* Logins and registers that overlap in any way leave one owner per name, whose
\* password is the one that logs in (auth.go:205-285).
THEOREM AccountsAlways == Spec => []AccountsSound
<1>1. AuthInv => AccountsSound BY DEF AuthInv, AccountsSound
<1> QED BY <1>1, AuthInvariance, PTL

\* A refused login has cost one verification, whether its user exists or not
\* (auth.go:205-230).
THEOREM EqualCostAlways == Spec => []EqualCost
<1>1. AuthInv => EqualCost BY DEF AuthInv
<1> QED BY <1>1, AuthInvariance, PTL

\* Every variable of the handlers keeps its type.
THEOREM AuthTyping == Spec => []TypeOK
<1>1. AuthInv => TypeOK BY DEF AuthInv
<1> QED BY <1>1, AuthInvariance, PTL
=============================================================================
