---------------------------- MODULE AuthHandlers ----------------------------
(***************************************************************************)
(* auth.go: LoginHandler and RegisterHandler of one Auth, run by one       *)
(* goroutine per request, around the two things the requests share: the    *)
(* slots that bound how many passwords are hashed at once (withHashSlot)   *)
(* and the once that computes the dummy hash (dummyHash).                  *)
(*                                                                         *)
(* Lookup and Register are the application's: an account store that takes  *)
(* a name once and may fail.  A stored hash is the password it verifies,   *)
(* for only Verify looks at it.  SetSession fails without a secret and for *)
(* a principal over the cookie limit, which is a matter of the user.       *)
(***************************************************************************)
EXTENDS Naturals, FiniteSets

CONSTANTS
  Requests,   \* the login and register requests
  Names,      \* the usernames
  Passwords,
  Asks,       \* what may be asked: [kind, name, pass]
  Roomy,      \* the names whose principal fits a session cookie
  Slots,      \* capacity of hashSlots: half the cores, at least one
  Nobody,     \* no account, and no stored hash
  DummyPass   \* "borgo-timing-equalizer"

ASSUME AuthAssumption ==
  /\ IsFiniteSet(Requests) /\ Slots \in Nat \ {0}
  /\ Roomy \subseteq Names
  /\ Asks \subseteq [kind : {"login", "register"}, name : Names, pass : Passwords]
  /\ Nobody \notin Passwords \cup [pass : Passwords, by : Requests]
  /\ DummyPass \in Passwords

VARIABLES
  stage,     \* where each handler stands
  ask,       \* what it was asked: [kind, name, pass]
  looked,    \* the hash Lookup returned, Nobody if it failed
  client,    \* FALSE once the client hung up
  holders,   \* the requests that have a slot of hashSlots
  once,      \* dummyOnce: "unset", "running" or "set"
  verifies,  \* history: how many hashes were verified for a request
  accounts,  \* the store: [Names -> [pass, by]], or Nobody
  secret,    \* SESSION_SECRET is set
  answer     \* the status answered; 0 while running, 1 when nothing was written

vars == <<stage, ask, looked, client, holders, once, verifies, accounts, secret, answer>>

Stages == {"none", "lookup", "dummy", "dummying", "select", "queue", "hashing",
           "store", "issue", "answered"}
Queue == {r \in Requests : stage[r] = "queue"}
Free == Cardinality(holders) < Slots
NoAnswer == 0
Silent == 1

Account == [pass : Passwords, by : Requests]

Init ==
  /\ stage = [r \in Requests |-> "none"]
  /\ ask \in [Requests -> Asks]
  /\ looked = [r \in Requests |-> Nobody]
  /\ client = [r \in Requests |-> TRUE]
  /\ holders = {}
  /\ once = "unset"
  /\ verifies = [r \in Requests |-> 0]
  /\ accounts = [n \in Names |-> Nobody]
  /\ secret \in BOOLEAN
  /\ answer = [r \in Requests |-> NoAnswer]

Goto(r, to) == stage' = [stage EXCEPT ![r] = to]

Answer(r, status) ==
  /\ stage' = [stage EXCEPT ![r] = "answered"]
  /\ answer' = [answer EXCEPT ![r] = status]

-----------------------------------------------------------------------------
(* Up to the slot.                                                         *)

\* readCredentials accepts the body; a login goes on to Lookup.
Start(r) ==
  /\ stage[r] = "none"
  /\ Goto(r, IF ask[r].kind = "login" THEN "lookup" ELSE "select")
  /\ UNCHANGED <<ask, looked, client, holders, once, verifies, accounts, secret, answer>>

\* A body that does not bind, an empty field, or no Register (a 404): nothing is
\* tried.
Reject(r) ==
  /\ stage[r] = "none"
  /\ Answer(r, 400)
  /\ UNCHANGED <<ask, looked, client, holders, once, verifies, accounts, secret>>

\* Once its turn came the handler does not look at the client any more.
HangUp(r) ==
  /\ stage[r] \in {"lookup", "dummy", "dummying", "select", "queue"} /\ client[r]
  /\ client' = [client EXCEPT ![r] = FALSE]
  /\ UNCHANGED <<stage, ask, looked, holders, once, verifies, accounts, secret, answer>>

\* Variant: a failed lookup is answered at once.
LookupEarly(r) ==
  /\ stage[r] = "lookup"
  /\ LET account == accounts[ask[r].name]
     IN IF account # Nobody
        THEN /\ looked' = [looked EXCEPT ![r] = account.pass]
             /\ Goto(r, "select") /\ UNCHANGED answer
        ELSE UNCHANGED looked /\ Answer(r, 401)
  /\ UNCHANGED <<ask, client, holders, once, verifies, accounts, secret>>

\* Any error of Lookup counts as a missing user, who is verified against the
\* dummy hash.
Lookup(r) ==
  /\ stage[r] = "lookup"
  /\ \/ /\ accounts[ask[r].name] # Nobody
        /\ looked' = [looked EXCEPT ![r] = accounts[ask[r].name].pass]
        /\ Goto(r, "select")
     \/ UNCHANGED looked /\ Goto(r, "dummy")
  /\ UNCHANGED <<ask, client, holders, once, verifies, accounts, secret, answer>>

\* dummyOnce.Do: the first caller computes, outside any slot, the others wait.
DummyFirst(r) ==
  /\ stage[r] = "dummy" /\ once = "unset"
  /\ once' = "running"
  /\ Goto(r, "dummying")
  /\ UNCHANGED <<ask, looked, client, holders, verifies, accounts, secret, answer>>

\* Variant: a flag in place of a once, which a panic leaves standing.
DummyDoneForgetting(r) ==
  /\ stage[r] = "dummying"
  /\ \/ once' = "set" /\ Goto(r, "select") /\ UNCHANGED answer
     \/ UNCHANGED once /\ Answer(r, 500)
  /\ UNCHANGED <<ask, looked, client, holders, verifies, accounts, secret>>

\* The once counts as done when the application's hasher panics, too.
DummyDone(r) ==
  /\ stage[r] = "dummying"
  /\ once' = "set"
  /\ (Goto(r, "select") /\ UNCHANGED answer) \/ Answer(r, 500)
  /\ UNCHANGED <<ask, looked, client, holders, verifies, accounts, secret>>

DummyReady(r) ==
  /\ stage[r] = "dummy" /\ once = "set"
  /\ Goto(r, "select")
  /\ UNCHANGED <<ask, looked, client, holders, once, verifies, accounts, secret, answer>>

-----------------------------------------------------------------------------
(* withHashSlot.                                                           *)

TakeSlot(r) ==
  /\ stage[r] = "select" /\ Free
  /\ holders' = holders \cup {r}
  /\ Goto(r, "hashing")
  /\ UNCHANGED <<ask, looked, client, once, verifies, accounts, secret, answer>>

\* No case of the select is ready: the goroutine is queued on the channel.
WaitForSlot(r) ==
  /\ stage[r] = "select" /\ ~Free /\ client[r]
  /\ Goto(r, "queue")
  /\ UNCHANGED <<ask, looked, client, holders, once, verifies, accounts, secret, answer>>

\* The request context is done before a slot is.
Abandon(r) ==
  /\ stage[r] \in {"select", "queue"} /\ ~client[r]
  /\ Answer(r, Silent)
  /\ UNCHANGED <<ask, looked, client, holders, once, verifies, accounts, secret>>

\* hashWait is over.
Shed(r) ==
  /\ stage[r] = "queue"
  /\ Answer(r, 503)
  /\ UNCHANGED <<ask, looked, client, holders, once, verifies, accounts, secret>>

\* The deferred receive.  A goroutine queued on the channel gets the slot in the
\* same step: the channel is never seen with room and with somebody waiting.
Release(r, to, status) ==
  /\ answer' = [answer EXCEPT ![r] = status]
  /\ IF Queue = {}
     THEN /\ holders' = holders \ {r}
          /\ stage' = [stage EXCEPT ![r] = to]
     ELSE \E w \in Queue :
            /\ holders' = (holders \ {r}) \cup {w}
            /\ stage' = [stage EXCEPT ![r] = to, ![w] = "hashing"]

\* SetSession succeeds.
Fits(r) == secret /\ ask[r].name \in Roomy

\* LoginHandler after the slot: the hash verified is the user's or the dummy.
Verdict(r) ==
  IF looked[r] = Nobody \/ ask[r].pass # looked[r] THEN 401
  ELSE IF Fits(r) THEN 200 ELSE 500

Verify(r) ==
  /\ stage[r] = "hashing" /\ ask[r].kind = "login"
  /\ verifies' = [verifies EXCEPT ![r] = @ + 1]
  /\ Release(r, "answered", Verdict(r))
  /\ UNCHANGED <<ask, looked, client, once, accounts, secret>>

\* Variant: a password that does not hash leaves its slot taken.
HashFailsHolding(r) ==
  /\ stage[r] = "hashing"
  /\ Answer(r, 500)
  /\ UNCHANGED <<ask, looked, client, holders, once, verifies, accounts, secret>>

\* Hash returns an error, or the application's hasher panics and the recover
\* middleware answers: the deferred receive runs either way.
HashFails(r) ==
  /\ stage[r] = "hashing"
  /\ Release(r, "answered", 500)
  /\ UNCHANGED <<ask, looked, client, once, verifies, accounts, secret>>

\* A register without a secret is refused before the store is touched.
Hash(r) ==
  /\ stage[r] = "hashing" /\ ask[r].kind = "register"
  /\ IF secret THEN Release(r, "store", NoAnswer) ELSE Release(r, "answered", 500)
  /\ UNCHANGED <<ask, looked, client, once, verifies, accounts, secret>>

-----------------------------------------------------------------------------
(* RegisterHandler after the slot.                                         *)

\* Variant: the answer of a store that has the name already is taken for a yes.
StoreTakenToo(r) ==
  /\ stage[r] = "store"
  /\ accounts' = [accounts EXCEPT ![ask[r].name] =
                    IF @ = Nobody THEN [pass |-> ask[r].pass, by |-> r] ELSE @]
  /\ Goto(r, "issue")
  /\ UNCHANGED <<ask, looked, client, holders, once, verifies, secret, answer>>

\* a.Register: the name is free, or ErrUserExists, or another error.
Store(r) ==
  /\ stage[r] = "store"
  /\ \/ /\ accounts[ask[r].name] = Nobody
        /\ accounts' = [accounts EXCEPT ![ask[r].name] = [pass |-> ask[r].pass, by |-> r]]
        /\ Goto(r, "issue") /\ UNCHANGED answer
     \/ /\ accounts[ask[r].name] # Nobody
        /\ Answer(r, 409) /\ UNCHANGED accounts
     \/ Answer(r, 500) /\ UNCHANGED accounts
  /\ UNCHANGED <<ask, looked, client, holders, once, verifies, secret>>

Issue(r) ==
  /\ stage[r] = "issue"
  /\ Answer(r, IF Fits(r) THEN 201 ELSE 500)
  /\ UNCHANGED <<ask, looked, client, holders, once, verifies, accounts, secret>>

-----------------------------------------------------------------------------
\* What the handler's goroutine does by itself.
Handle(r) ==
  \/ Start(r) \/ Reject(r) \/ Lookup(r) \/ DummyFirst(r) \/ DummyDone(r) \/ DummyReady(r)
  \/ TakeSlot(r) \/ WaitForSlot(r) \/ Abandon(r) \/ Shed(r)
  \/ Verify(r) \/ Hash(r) \/ HashFails(r) \/ Store(r) \/ Issue(r)

Next == \E r \in Requests : Handle(r) \/ HangUp(r)

\* Every goroutine runs, every hash ends, the store answers, the timer fires.  A
\* client may send nothing and owes no hang-up.
Fairness == \A r \in Requests : WF_vars(stage[r] # "none" /\ Handle(r))

Spec == Init /\ [][Next]_vars /\ Fairness

-----------------------------------------------------------------------------
Statuses == {NoAnswer, Silent, 200, 201, 400, 401, 409, 500, 503}

TypeOK ==
  /\ stage \in [Requests -> Stages]
  /\ ask \in [Requests -> Asks]
  /\ looked \in [Requests -> Passwords \cup {Nobody}]
  /\ client \in [Requests -> BOOLEAN]
  /\ holders \in SUBSET Requests
  /\ once \in {"unset", "running", "set"}
  /\ verifies \in [Requests -> Nat]
  /\ accounts \in [Names -> Account \cup {Nobody}]
  /\ secret \in BOOLEAN
  /\ answer \in [Requests -> Statuses]

\* The slots are exactly those of the handlers that hash, so none leaks through
\* an error, a panic, a hang-up or a shed request, and never more than there are;
\* one hash at most, the dummy, is computed outside them.  auth.go:152-187.
SlotsHeldWhileHashing ==
  /\ holders = {r \in Requests : stage[r] = "hashing"}
  /\ Cardinality(holders) <= Slots
  /\ \A r, q \in Requests : stage[r] = "dummying" /\ stage[q] = "dummying" => r = q

\* Nobody waits while a slot is free: a request is shed only when every slot
\* was taken all the time it waited.  auth.go:176-186.
NoIdleSlot == Queue # {} => Cardinality(holders) >= Slots

\* Both: a slot is never lost, never lent twice and never idle beside a queue.
\* auth.go:172-187.
SlotInv == SlotsHeldWhileHashing /\ NoIdleSlot

\* A login succeeds only for an account of that name and with the password it was
\* registered with, however logins and registers overlapped; and the dummy hash
\* opens nothing.  auth.go:210-221.
LoginNeedsPassword ==
  \A r \in Requests : answer[r] = 200 =>
    /\ accounts[ask[r].name] # Nobody
    /\ accounts[ask[r].name].pass = ask[r].pass

\* Among registers of one name that run at the same time, one is told it created
\* the account, and it is the one whose password was stored.  auth.go:269-284.
OneOwner ==
  \A r \in Requests : answer[r] = 201 =>
    accounts[ask[r].name] = [pass |-> ask[r].pass, by |-> r]

\* A register that was shed, abandoned, or refused for the taken name or for the
\* missing secret left no account behind.  auth.go:251-267.
RefusedLeavesNothing ==
  \A r \in Requests, n \in Names :
    (accounts[n] # Nobody /\ accounts[n].by = r /\ stage[r] = "answered") =>
      answer[r] = 201 \/ (answer[r] = 500 /\ secret)

\* The three together: whoever overlaps with whom, an account has one owner, opens
\* to that owner's password only, and is the work of a register that was not refused.
AccountsSound == LoginNeedsPassword /\ OneOwner /\ RefusedLeavesNothing

\* A wrong password and a missing user cost one verification each.  auth.go:211-215.
EqualCost == \A r \in Requests : answer[r] = 401 => verifies[r] = 1

\* auth.go:261-263: no account is created that a session cannot be issued for.
NoStrandedAccount ==
  \A r \in Requests, n \in Names :
    (accounts[n] # Nobody /\ accounts[n].by = r /\ stage[r] = "answered") =>
      answer[r] = 201

\* Every request that was read is answered or given up: nobody waits for ever on
\* a slot or on the once, whoever fails or hangs up meanwhile.  auth.go:152-187.
EveryoneAnswered == <>[](\A r \in Requests : stage[r] \in {"none", "answered"})

\* A stored account is the work of the register that stored it, and while that
\* one runs it is about to issue the session.
AccountsHaveAuthors ==
  \A n \in Names : accounts[n] # Nobody =>
    LET r == accounts[n].by
    IN /\ ask[r].kind = "register" /\ ask[r].name = n /\ ask[r].pass = accounts[n].pass
       /\ stage[r] \in {"issue", "answered"} /\ secret
       /\ answer[r] \in {NoAnswer, 201, 500}

\* What a handler has by the stage it is in.
StagesAgree ==
  \A r \in Requests :
    /\ stage[r] = "answered" <=> answer[r] # NoAnswer
    /\ stage[r] = "dummying" => once = "running"
    /\ stage[r] \in {"store", "issue"} => ask[r].kind = "register" /\ secret
    /\ stage[r] = "issue" =>
          accounts[ask[r].name] = [pass |-> ask[r].pass, by |-> r]
    /\ looked[r] # Nobody =>
         /\ accounts[ask[r].name] # Nobody
         /\ accounts[ask[r].name].pass = looked[r]
    /\ stage[r] # "answered" => verifies[r] = 0

AuthInv ==
  /\ TypeOK /\ SlotsHeldWhileHashing /\ NoIdleSlot
  /\ LoginNeedsPassword /\ OneOwner /\ RefusedLeavesNothing /\ EqualCost
  /\ AccountsHaveAuthors /\ StagesAgree
=============================================================================
