------------------------- MODULE FrontServerProofs --------------------------
(***************************************************************************)
(* Proofs about the parts of the front server, for any number of channels, *)
(* sockets, tabs, requests, builds, edits and pages, and about FrontServer,*)
(* which runs them.                                                        *)
(*                                                                         *)
(* Requests: RequestsInv says of each request under way that it carries    *)
(* the jar as it was (Carries), and of each answer what it will do to the  *)
(* jar and what its loader saw (Brings); a token that a page has is one    *)
(* the jar still has (Tokens).                                             *)
(*                                                                         *)
(* The files: a cache that was filled while no build wrote is of one       *)
(* build, because a build removes the manifest before it writes anything   *)
(* and writes its own last, so that one that was killed leaves none        *)
(* (BuildOrder); a copy is of the file its tag stands for, because a build *)
(* is never the entry again once another was (CopyOrder). loaded is        *)
(* written by a visit and never read, and stays untyped.                   *)
(*                                                                         *)
(* Routes: no two directories of a site are of paths that the server tells *)
(* apart (SameDirectory), and the client, which has fewer pages in the same*)
(* order, finds the page the server found if it has it (ClientFindsIt).    *)
(***************************************************************************)
EXTENDS FrontServer, RealtimeProofs, ApiProxyProofs

-----------------------------------------------------------------------------
(* Cookies: the invariant.                                                 *)

\* What the app issues, and what a cookie or a token may be.
Issued == Nat \ {0}
Value == Nat \cup {None}
Sets == [Names \cup {"other"} -> Seq(Value)]

\* Cookies that an app sets: sessions and others, no tokens.
AppSets ==
  {sets \in Sets : /\ sets["csrf"] = <<>>
                   /\ \A i \in DOMAIN sets["session"] :
                        sets["session"][i] \in Issued \cup {None}}

Reply == [status : {"ok", "failed", "refused"}, view : {"none", "data", "document"},
          sets : Sets, issued : Sets, acted : AppSets, saw : Value, token : Value]
Asked == [kind : Kinds, cookies : [Names -> Seq(Value)], field : Value,
          answer : Reply \cup {None}]

RequestsTypeOK ==
  /\ own \in [Names -> Issued \cup {None}] /\ tossed \in [Names -> {None, Foreign}]
  /\ page \in [Tabs -> Value] /\ request \in [Tabs -> Asked \cup {None}]
  /\ requested \in Nat /\ calls \in Nat /\ minted \in Nat /\ firsts \in Nat

\* The cookies of one name, as some jar sent them.
Jar(values, hosts, tosses) ==
  \E host \in hosts \cup {None}, toss \in tosses \cup {None} :
    values = Values(host) \o Values(toss)

\* A token that a page has is one of the jar: neither host nor sibling ever takes
\* its csrf cookie back.
Backed(token) ==
  \/ token = Foreign /\ tossed["csrf"] = Foreign
  \/ token \in 1 .. minted /\ own["csrf"] # None

\* As long as no sibling sent a token, every token was minted for a first visit.
Tokens ==
  /\ own["csrf"] \in 1 .. minted \cup {None}
  /\ tossed["csrf"] = None => firsts = minted
  /\ \A t \in Tabs : page[t] # None => Backed(page[t])

\* A post that will be refused.
Excusable(q) ==
  q.kind \in {"native", "enhanced"} /\ CsrfRejects(q) =>
    Disagree(q.cookies["csrf"]) \/ (q.kind = "native" /\ firsts > 1)

\* What a request carries: the jar as it was.
Carries(q) ==
  /\ Jar(q.cookies["session"], Issued, {Foreign})
  /\ Jar(q.cookies["csrf"], IF own["csrf"] = None THEN {} ELSE 1 .. minted, {tossed["csrf"]})
  /\ Excusable(q)

\* What the session will be, and what the loader saw.
Session(host, sets) == IF sets["session"] = <<>> THEN host ELSE Last(sets["session"])
SawIt(q) ==
  q.answer.view # "none" =>
    \A host \in Issued \cup {None}, toss \in {Foreign, None} :
      q.cookies["session"] = Values(host) \o Values(toss) =>
        \/ q.answer.saw = Session(host, q.answer.sets)
        \/ /\ q.answer.issued["session"] # q.answer.acted["session"]
           /\ q.answer.saw = Session(host, q.answer.acted)
        \/ /\ q.answer.acted # NoSets
           /\ q.answer.saw = None /\ Disagree(q.cookies["session"])

\* What an answer brings.
Brings(q) ==
  /\ q.answer.status # "failed" =>
       \A name \in {"session", "other"} : q.answer.sets[name] = q.answer.issued[name]
  /\ q.answer.status = "refused" => q.kind \in {"native", "enhanced"} /\ CsrfRejects(q)
  /\ \A i \in DOMAIN q.answer.sets["session"] :
       q.answer.sets["session"][i] \in Issued \cup {None}
  /\ q.answer.sets["csrf"] \in {<<>>} \cup {<<k>> : k \in 1 .. minted}
  /\ q.answer.view = "document" =>
       \/ Backed(q.answer.token)
       \/ q.answer.token \in 1 .. minted /\ q.answer.sets["csrf"] # <<>>
  /\ SawIt(q)

RequestsInv ==
  /\ RequestsTypeOK /\ Tokens
  /\ \A t \in Tabs : request[t] # None => Carries(request[t])
  /\ \A t \in Tabs : Answered(t) => Brings(request[t])

-----------------------------------------------------------------------------
(* Headers, jars and what they read as.                                    *)

LEMMA NoneIsNoValue == None \notin Nat /\ Foreign \in Nat /\ Foreign \notin Issued
  BY RequestsAssumption DEF Foreign, Issued

LEMMA ValuesAre ==
  /\ \A v \in Value : Values(v) \in Seq(Value) /\ Values(v) = IF v = None THEN <<>> ELSE <<v>>
  /\ \A v, w \in Value : Values(v) \o Values(w) \in Seq(Value)
  BY DEF Values

LEMMA SessionIsValue == ASSUME NEW values \in Seq(Value) PROVE GoSession(values) \in Value
<1> DEFINE verified == {i \in DOMAIN values : values[i] # Foreign}
<1>1. \A i \in verified : values[i] \in Value OBVIOUS
<1>2. (\E i \in verified : verified = {i}) => (CHOOSE i \in verified : TRUE) \in verified OBVIOUS
<1>3. QED BY <1>1, <1>2 DEF GoSession, Value

LEMMA Spelled ==
  ASSUME NEW a \in Value, NEW b \in Value
  PROVE  Values(a) \o Values(b) =
           IF a = None THEN IF b = None THEN <<>> ELSE <<b>>
           ELSE IF b = None THEN <<a>> ELSE <<a, b>>
<1>1. CASE a = None /\ b = None BY <1>1 DEF Values
<1>2. CASE a = None /\ b # None BY <1>2 DEF Values
<1>3. CASE a # None /\ b = None BY <1>3 DEF Values
<1>4. CASE a # None /\ b # None
  <2>1. Values(a) \o Values(b) = <<a>> \o <<b>> BY <1>4 DEF Values
  <2>2. <<a>> \o <<b>> \in Seq(Value) /\ <<a, b>> \in Seq(Value) OBVIOUS
  <2>3. Len(<<a>> \o <<b>>) = Len(<<a, b>>) OBVIOUS
  <2>4. \A i \in 1 .. Len(<<a, b>>) : (<<a>> \o <<b>>)[i] = <<a, b>>[i] OBVIOUS
  <2>5. QED BY <1>4, <2>1, <2>2, <2>3, <2>4, SeqEqual
<1>5. QED BY <1>1, <1>2, <1>3, <1>4

LEMMA ReadsNothing == Agreed(<<>>) = None /\ GoSession(<<>>) = None /\ ~Disagree(<<>>)
  BY DEF Agreed, GoSession, Disagree

LEMMA ReadsOne ==
  ASSUME NEW v \in Value
  PROVE  /\ Agreed(<<v>>) = v /\ ~Disagree(<<v>>)
         /\ GoSession(<<v>>) = IF v = Foreign THEN None ELSE v
<1>1. DOMAIN <<v>> = {1} /\ <<v>>[1] = v /\ <<v>> # <<>> OBVIOUS
<1>2. ~Disagree(<<v>>) BY <1>1 DEF Disagree
<1>3. Agreed(<<v>>) = v BY <1>1, <1>2 DEF Agreed
<1>4. {i \in DOMAIN <<v>> : <<v>>[i] # Foreign} = IF v = Foreign THEN {} ELSE {1} BY <1>1
<1>5. CASE v = Foreign BY <1>2, <1>3, <1>4, <1>5 DEF GoSession
<1>6. CASE v # Foreign
  <2>1. GoSession(<<v>>) = <<v>>[CHOOSE i \in {1} : TRUE] BY <1>4, <1>6 DEF GoSession
  <2>2. (CHOOSE i \in {1} : TRUE) = 1 OBVIOUS
  <2>3. QED BY <1>1, <1>2, <1>3, <1>6, <2>1, <2>2
<1>7. QED BY <1>5, <1>6

\* A cookie of this host and one that a sibling tossed in.
LEMMA ReadsTwo ==
  ASSUME NEW v \in Issued
  PROVE  /\ Agreed(<<v, Foreign>>) = None /\ Disagree(<<v, Foreign>>)
         /\ GoSession(<<v, Foreign>>) = v
<1>1. v # Foreign BY NoneIsNoValue
<1> DEFINE two == <<v, Foreign>>
<1>2. DOMAIN two = {1, 2} /\ two[1] = v /\ two[2] = Foreign OBVIOUS
<1> HIDE DEF two
<1>3. Disagree(two) BY <1>1, <1>2 DEF Disagree
<1>4. Agreed(two) = None BY <1>3 DEF Agreed
<1>5. {i \in DOMAIN two : two[i] # Foreign} = {1} BY <1>1, <1>2
<1>6. GoSession(two) = two[CHOOSE i \in {1} : TRUE] BY <1>5 DEF GoSession
<1>7. (CHOOSE i \in {1} : TRUE) = 1 OBVIOUS
<1>8. QED BY <1>2, <1>3, <1>4, <1>6, <1>7 DEF two

\* What the api and the check of tokens read of a jar.
LEMMA Reads ==
  ASSUME NEW host \in Issued \cup {None}, NEW toss \in {Foreign, None}
  PROVE  /\ GoSession(Values(host) \o Values(toss)) = host
         /\ Disagree(Values(host) \o Values(toss)) <=> host # None /\ toss # None
         /\ Agreed(Values(host) \o Values(toss)) =
              IF host = None THEN toss ELSE IF toss = None THEN host ELSE None
         /\ Values(host) \o Values(toss) = <<>> <=> host = None /\ toss = None
         /\ Values(host) \o Values(toss) \in Seq(Value)
<1>1. host \in Value /\ toss \in Value /\ (host = None \/ host \in Issued)
      /\ (toss = None \/ toss = Foreign)
  BY NoneIsNoValue DEF Issued, Value
<1>2. None # Foreign /\ (host # None => host # Foreign) BY <1>1, NoneIsNoValue
<1>3. Values(host) \o Values(toss) \in Seq(Value) BY <1>1, ValuesAre
<1>4. CASE host = None /\ toss = None BY <1>1, <1>3, <1>4, Spelled, ReadsNothing
<1>5. CASE host = None /\ toss # None
  <2>1. Values(host) \o Values(toss) = <<toss>> BY <1>1, <1>5, Spelled
  <2>2. QED BY <1>1, <1>2, <1>3, <1>5, <2>1, ReadsOne
<1>6. CASE host # None /\ toss = None
  <2>1. Values(host) \o Values(toss) = <<host>> BY <1>1, <1>6, Spelled
  <2>2. QED BY <1>1, <1>2, <1>3, <1>6, <2>1, ReadsOne
<1>7. CASE host # None /\ toss # None
  <2>1. Values(host) \o Values(toss) = <<host, Foreign>> BY <1>1, <1>7, Spelled
  <2>2. QED BY <1>1, <1>2, <1>3, <1>7, <2>1, ReadsTwo
<1>8. QED BY <1>4, <1>5, <1>6, <1>7

\* The header that a loader gets after an action.
LEMMA FreshReads ==
  ASSUME NEW header \in [Names -> Seq(Value)], NEW sets \in Sets, sets["csrf"] = <<>>,
         \A n \in Names : Agreed(header[n]) \in Value
  PROVE  /\ Fresh(header, sets) \in [Names -> Seq(Value)]
         /\ Agreed(Fresh(header, sets)["csrf"]) = Agreed(header["csrf"])
         /\ sets # NoSets =>
              Fresh(header, sets)["session"] =
                Values(Session(Agreed(header["session"]), sets))
<1>1. CASE sets = NoSets BY <1>1 DEF Fresh
<1>2. CASE sets # NoSets
  <2> DEFINE jar == Stored([m \in Names |-> Agreed(header[m])], sets)
  <2>1. Fresh(header, sets) = [n \in Names |-> Values(jar[n])] BY <1>2 DEF Fresh
  <2>2. jar = [n \in Names |-> IF sets[n] = <<>> THEN Agreed(header[n]) ELSE Last(sets[n])]
    BY DEF Stored
  <2>3. \A n \in Names : jar[n] \in Value
    <3> SUFFICES ASSUME NEW n \in Names PROVE jar[n] \in Value OBVIOUS
    <3>1. sets[n] \in Seq(Value) BY DEF Sets
    <3>2. sets[n] # <<>> => Last(sets[n]) \in Value BY <3>1 DEF Last
    <3>3. QED BY <2>2, <3>2
  <2>4. "csrf" \in Names /\ "session" \in Names BY DEF Names
  <2>5. jar["csrf"] = Agreed(header["csrf"])
        /\ jar["session"] = Session(Agreed(header["session"]), sets)
    BY <2>2, <2>4 DEF Session
  <2> HIDE DEF jar
  <2>6. Fresh(header, sets) \in [Names -> Seq(Value)] BY <2>1, <2>3, ValuesAre
  <2>7. Agreed(Values(jar["csrf"])) = jar["csrf"]
    <3>1. CASE jar["csrf"] = None BY <3>1, ReadsNothing DEF Values
    <3>2. CASE jar["csrf"] # None
      <4>1. Values(jar["csrf"]) = <<jar["csrf"]>> BY <3>2 DEF Values
      <4>2. QED BY <2>3, <2>4, <4>1, ReadsOne
    <3>3. QED BY <3>1, <3>2
  <2>8. QED BY <1>2, <2>1, <2>4, <2>5, <2>6, <2>7
<1>3. QED BY <1>1, <1>2

LEMMA ReadsAlone ==
  ASSUME NEW v \in Value
  PROVE  /\ Agreed(Values(v)) = v
         /\ GoSession(Values(v)) = IF v = Foreign THEN None ELSE v
<1>1. CASE v = None
  <2>1. Values(v) = <<>> BY <1>1 DEF Values
  <2>2. QED BY <1>1, <2>1, ReadsNothing, NoneIsNoValue
<1>2. CASE v # None
  <2>1. Values(v) = <<v>> BY <1>2 DEF Values
  <2>2. QED BY <2>1, ReadsOne
<1>3. QED BY <1>1, <1>2

-----------------------------------------------------------------------------
(* What is set.                                                            *)

LEMMA SetsAre == Sets = [{"session", "csrf", "other"} -> Seq(Value)]
<1>1. Names \cup {"other"} = {"session", "csrf", "other"} BY DEF Names
<1>2. QED BY <1>1 DEF Sets

LEMMA OneSet ==
  ASSUME NEW n \in {"session", "csrf", "other"}, NEW v \in Value
  PROVE  /\ SetCookie(n, v) \in Sets /\ SetCookie(n, v)[n] = <<v>>
         /\ \A m \in {"session", "csrf", "other"} \ {n} : SetCookie(n, v)[m] = <<>>
<1>1. NoSets = [m \in {"session", "csrf", "other"} |-> <<>>] BY DEF NoSets, Names
<1>2. <<v>> \in Seq(Value) /\ <<>> \in Seq(Value) OBVIOUS
<1>3. SetCookie(n, v) = [m \in {"session", "csrf", "other"} |-> IF m = n THEN <<v>> ELSE <<>>]
  BY <1>1 DEF SetCookie
<1>4. QED BY <1>2, <1>3, SetsAre

LEMMA NothingSet == NoSets \in AppSets /\ \A n \in {"session", "csrf", "other"} : NoSets[n] = <<>>
  BY DEF NoSets, AppSets, Sets, Names

LEMMA CallSets ==
  ASSUME NEW n \in Nat, NEW sets \in Calls(n)
  PROVE  sets \in AppSets /\ After(sets, n) \in Nat
<1>1. \/ sets = NoSets \/ sets = SetCookie("other", 1)
      \/ sets = SetCookie("session", None) \/ sets = SetCookie("session", n + 1)
  BY DEF Calls
<1>2. n + 1 \in Issued /\ n + 1 \in Value /\ None \in Value /\ 1 \in Value
  BY DEF Issued, Value
<1>3. After(sets, n) \in Nat BY DEF After
<1>4. CASE sets = NoSets BY <1>3, <1>4, NothingSet
<1>5. CASE sets = SetCookie("other", 1) BY <1>2, <1>3, <1>5, OneSet DEF AppSets
<1>6. CASE sets = SetCookie("session", None) BY <1>2, <1>3, <1>6, OneSet DEF AppSets
<1>7. CASE sets = SetCookie("session", n + 1) BY <1>2, <1>3, <1>7, OneSet DEF AppSets
<1>8. QED BY <1>1, <1>4, <1>5, <1>6, <1>7

LEMMA ThenSets ==
  ASSUME NEW a \in Sets, NEW b \in Sets
  PROVE  /\ Then(a, b) \in Sets
         /\ \A n \in {"session", "csrf", "other"} :
              /\ Then(a, b)[n] = a[n] \o b[n]
              /\ b[n] = <<>> => Then(a, b)[n] = a[n]
              /\ a[n] = <<>> => Then(a, b)[n] = b[n]
<1>1. DOMAIN a = {"session", "csrf", "other"}
      /\ \A n \in {"session", "csrf", "other"} : a[n] \in Seq(Value) /\ b[n] \in Seq(Value)
  BY SetsAre
<1>2. Then(a, b) = [n \in {"session", "csrf", "other"} |-> a[n] \o b[n]] BY <1>1 DEF Then
<1>3. \A n \in {"session", "csrf", "other"} : a[n] \o b[n] \in Seq(Value) BY <1>1
<1>4. Then(a, b) \in Sets BY <1>2, <1>3, SetsAre
<1>5. \A n \in {"session", "csrf", "other"} : Then(a, b)[n] = a[n] \o b[n] BY <1>2
<1>6. ASSUME NEW n \in {"session", "csrf", "other"}
      PROVE  a[n] \o <<>> = a[n] /\ <<>> \o b[n] = b[n]
  <2>1. a[n] \in Seq(Value) /\ b[n] \in Seq(Value) BY <1>1
  <2>2. QED BY <2>1, ConcatEmptySeq
<1>7. QED BY <1>4, <1>5, <1>6

LEMMA ThenNothing == ASSUME NEW a \in Sets PROVE Then(a, NoSets) = a
<1>1. NoSets \in Sets BY NothingSet DEF AppSets
<1>2. \A n \in {"session", "csrf", "other"} : Then(a, NoSets)[n] = a[n]
  BY <1>1, ThenSets, NothingSet
<1>3. Then(a, NoSets) \in [{"session", "csrf", "other"} -> Seq(Value)]
      /\ a \in [{"session", "csrf", "other"} -> Seq(Value)]
  BY <1>1, ThenSets, SetsAre
<1>4. QED BY <1>2, <1>3

LEMMA Joined ==
  ASSUME NEW S, NEW s \in Seq(Value), NEW r \in Seq(Value),
         \A i \in DOMAIN s : s[i] \in S, \A i \in DOMAIN r : r[i] \in S
  PROVE  \A i \in DOMAIN (s \o r) : (s \o r)[i] \in S
<1>1. s \in Seq(S) /\ r \in Seq(S) OBVIOUS
<1>2. s \o r \in Seq(S) BY <1>1
<1>3. QED BY <1>2

LEMMA ThenAppSets == ASSUME NEW a \in AppSets, NEW b \in AppSets PROVE Then(a, b) \in AppSets
<1>1. a \in Sets /\ b \in Sets BY DEF AppSets
<1>2. Then(a, b) \in Sets /\ Then(a, b)["csrf"] = <<>>
  BY <1>1, ThenSets DEF AppSets
<1>3. a["session"] \in Seq(Value) /\ b["session"] \in Seq(Value) BY <1>1, SetsAre
<1>4. Then(a, b)["session"] = a["session"] \o b["session"] BY <1>1, ThenSets
<1>5. /\ \A i \in DOMAIN a["session"] : a["session"][i] \in Issued \cup {None}
      /\ \A i \in DOMAIN b["session"] : b["session"][i] \in Issued \cup {None}
  BY DEF AppSets
<1>6. \A i \in DOMAIN (a["session"] \o b["session"]) :
        (a["session"] \o b["session"])[i] \in Issued \cup {None}
  BY <1>3, <1>5, Joined
<1>7. QED BY <1>2, <1>4, <1>6 DEF AppSets

-----------------------------------------------------------------------------
(* What the server answers.                                                *)

\* What a request under way tells the server.
LEMMA Carried ==
  ASSUME RequestsInv, NEW t \in Tabs, request[t] # None
  PROVE  LET q == request[t]
             known == Agreed(q.cookies["csrf"])
         IN /\ q \in Asked /\ Carries(q) /\ q.cookies \in [Names -> Seq(Value)]
            /\ \A n \in Names : Agreed(q.cookies[n]) \in Value
            /\ known # None => Backed(known)
            /\ tossed["csrf"] = None /\ known = None => q.cookies["csrf"] = <<>>
<1> DEFINE q == request[t]
<1>1. q \in Asked /\ Carries(q) BY DEF RequestsInv, RequestsTypeOK
<1>2. q.cookies \in [Names -> Seq(Value)] BY <1>1 DEF Asked
<1> HIDE DEF q
<1>3. PICK host \in Issued \cup {None}, toss \in {Foreign, None} :
        q.cookies["session"] = Values(host) \o Values(toss)
  BY <1>1 DEF Carries, Jar
<1>4. PICK h \in (IF own["csrf"] = None THEN {} ELSE 1 .. minted) \cup {None},
           s \in {tossed["csrf"], None} :
        q.cookies["csrf"] = Values(h) \o Values(s)
  BY <1>1 DEF Carries, Jar
<1>5. /\ h \in Issued \cup {None} /\ s \in {Foreign, None}
      /\ h # None => h \in 1 .. minted /\ own["csrf"] # None
      /\ s # None => s = Foreign /\ tossed["csrf"] = Foreign
  <2>1. tossed["csrf"] \in {None, Foreign} /\ minted \in Nat
    BY DEF RequestsInv, RequestsTypeOK, Names
  <2>2. QED BY <1>4, <2>1 DEF Issued
<1>6. /\ Agreed(q.cookies["csrf"]) = IF h = None THEN s ELSE IF s = None THEN h ELSE None
      /\ q.cookies["csrf"] = <<>> <=> h = None /\ s = None
  BY <1>4, <1>5, Reads
<1>7. Agreed(q.cookies["session"]) =
        IF host = None THEN toss ELSE IF toss = None THEN host ELSE None
  BY <1>3, Reads
<1>8. Agreed(q.cookies["csrf"]) \in Value /\ Agreed(q.cookies["session"]) \in Value
  BY <1>5, <1>6, <1>7, NoneIsNoValue DEF Value, Issued
<1>9. QED BY <1>1, <1>2, <1>5, <1>6, <1>8 DEF q, Names, Backed

\* What the loader sees after an action is what the browser will have, unless a
\* duplicate hid the session.
LEMMA SawAfter ==
  ASSUME NEW cookies \in AppSets, NEW header \in [Names -> Seq(Value)],
         \A n \in Names : Agreed(header[n]) \in Value,
         NEW host \in Issued \cup {None}, NEW toss \in {Foreign, None},
         header["session"] = Values(host) \o Values(toss)
  PROVE  \/ GoSession(Fresh(header, cookies)["session"]) = Session(host, cookies)
         \/ /\ GoSession(Fresh(header, cookies)["session"]) = None
            /\ Disagree(header["session"]) /\ cookies # NoSets
<1> DEFINE fresh == Fresh(header, cookies)["session"]
<1>1. CASE cookies = NoSets
  <2>1. fresh = header["session"] BY <1>1 DEF Fresh
  <2>2. Session(host, cookies) = host BY <1>1, NothingSet DEF Session
  <2>3. QED BY <2>1, <2>2, Reads
<1>2. CASE cookies # NoSets
  <2>1. cookies \in Sets /\ cookies["csrf"] = <<>> BY DEF AppSets
  <2>2. fresh = Values(Session(Agreed(header["session"]), cookies)) BY <1>2, <2>1, FreshReads
  <2>3. CASE cookies["session"] # <<>>
    <3>1. cookies["session"] \in Seq(Value) BY <2>1, SetsAre
    <3>2. Last(cookies["session"]) \in Issued \cup {None}
      BY <2>3, <3>1 DEF AppSets, Last
    <3>3. fresh = Values(Last(cookies["session"])) /\ Session(host, cookies) = Last(cookies["session"])
      BY <2>2, <2>3 DEF Session
    <3>4. Last(cookies["session"]) \in Value /\ Last(cookies["session"]) # Foreign
      BY <3>2, NoneIsNoValue DEF Value, Issued
    <3>5. QED BY <3>3, <3>4, ReadsAlone
  <2>4. CASE cookies["session"] = <<>>
    <3> DEFINE left == IF host = None THEN toss ELSE IF toss = None THEN host ELSE None
    <3>1. fresh = Values(left) /\ Session(host, cookies) = host
      BY <2>2, <2>4, Reads DEF Session
    <3>2. left \in Value BY NoneIsNoValue DEF Value, Issued
    <3>3. GoSession(Values(left)) = IF left = Foreign THEN None ELSE left BY <3>2, ReadsAlone
    <3>4. Disagree(header["session"]) <=> host # None /\ toss # None BY Reads
    <3>5. host # None => host # Foreign BY NoneIsNoValue
    <3>6. QED BY <1>2, <3>1, <3>3, <3>4, <3>5
  <2>5. QED BY <2>3, <2>4
<1>3. QED BY <1>1, <1>2

\* The page of a request, or of what an action left of it.
LEMMA Rendered ==
  ASSUME RequestsInv, NEW header \in [Names -> Seq(Value)], NEW cookies \in AppSets,
         Agreed(header["csrf"]) \in Value, NEW load, load.sets \in AppSets
  PROVE  LET a == RenderPage(header, cookies, load)
             known == Agreed(header["csrf"])
         IN /\ a \in Reply /\ a.status = "ok" /\ a.issued = Then(cookies, load.sets)
            /\ \A n \in {"session", "other"} : a.sets[n] = a.issued[n]
            /\ a.view # "none" => a.saw = GoSession(header["session"]) /\ a.acted = cookies
            /\ a.view = "document" => a.token = IF known # None THEN known ELSE minted + 1
            /\ a.sets["csrf"] = IF a.view = "document" /\ known = None THEN <<minted + 1>>
                                ELSE <<>>
<1> DEFINE known == Agreed(header["csrf"])
           sets == Then(cookies, load.sets)
           csrf == IF known # None THEN NoSets ELSE SetCookie("csrf", minted + 1)
           a == RenderPage(header, cookies, load)
<1>1. RequestsTypeOK /\ minted + 1 \in Value /\ None \in Value
  BY DEF RequestsInv, RequestsTypeOK, Value
<1>2. sets \in AppSets /\ sets \in Sets BY ThenAppSets DEF AppSets
<1>3. CASE load.out = "response"
  <2>1. a = Bare(sets, sets) BY <1>3 DEF RenderPage
  <2>2. a.status = "ok" /\ a.view = "none" /\ a.sets = sets /\ a.issued = sets /\ a \in Reply
    BY <1>1, <1>2, <2>1, NothingSet DEF Bare, Reply
  <2>3. QED BY <1>2, <2>2 DEF AppSets
<1>4. CASE load.out # "response"
  <2>1. csrf \in Sets /\ csrf["session"] = <<>> /\ csrf["other"] = <<>>
        /\ csrf["csrf"] = IF known # None THEN <<>> ELSE <<minted + 1>>
    BY <1>1, OneSet, NothingSet DEF AppSets
  <2>2. a = [Data(header, cookies, Then(sets, csrf), sets)
               EXCEPT !.view = "document", !.token = IF known # None THEN known ELSE minted + 1]
    BY <1>4 DEF RenderPage
  <2>3. sets["csrf"] = <<>> BY <1>2 DEF AppSets
  <2>4. GoSession(header["session"]) \in Value
    <3>1. header["session"] \in Seq(Value) BY DEF Names
    <3>2. QED BY <3>1, SessionIsValue
  <2> HIDE DEF csrf, sets, known, a
  <2>5. Then(sets, csrf) \in Sets /\ (\A n \in {"session", "other"} : Then(sets, csrf)[n] = sets[n])
        /\ Then(sets, csrf)["csrf"] = csrf["csrf"]
    <3>1. sets \in Sets /\ csrf \in Sets BY <1>2, <2>1
    <3>2. Then(sets, csrf) \in Sets BY <3>1, ThenSets
    <3>3. Then(sets, csrf)["session"] = sets["session"] BY <2>1, <3>1, ThenSets
    <3>4. Then(sets, csrf)["other"] = sets["other"] BY <2>1, <3>1, ThenSets
    <3>5. Then(sets, csrf)["csrf"] = csrf["csrf"] BY <2>3, <3>1, ThenSets
    <3>6. QED BY <3>2, <3>3, <3>4, <3>5
  <2>6. /\ a.status = "ok" /\ a.view = "document" /\ a.sets = Then(sets, csrf)
        /\ a.issued = sets /\ a.acted = cookies /\ a.saw = GoSession(header["session"])
        /\ a.token = (IF known # None THEN known ELSE minted + 1) /\ a \in Reply
    BY <1>1, <1>2, <2>2, <2>4, <2>5 DEF Data, Bare, Reply, known
  <2>7. QED BY <2>1, <2>5, <2>6 DEF a, known, sets
<1>5. QED BY <1>3, <1>4

\* What an answer may be, for its request to keep its promises.
Sound(q, a) ==
  /\ a \in Reply
  /\ a.status # "failed" => \A n \in {"session", "other"} : a.sets[n] = a.issued[n]
  /\ a.status = "refused" => q.kind \in {"native", "enhanced"} /\ CsrfRejects(q)
  /\ \A i \in DOMAIN a.sets["session"] : a.sets["session"][i] \in Issued \cup {None}
  /\ \/ a.sets["csrf"] = <<>>
     \/ a.sets["csrf"] = <<minted + 1>> /\ Agreed(q.cookies["csrf"]) = None
  /\ a.view = "document" =>
       \/ a.token # None /\ a.token = Agreed(q.cookies["csrf"])
       \/ a.token = minted + 1 /\ a.sets["csrf"] = <<minted + 1>>
  /\ SawIt([q EXCEPT !.answer = a])

LEMMA AnswerKeeps ==
  ASSUME RequestsInv, NEW t \in Tabs, request[t] # None, NEW a, Sound(request[t], a),
         NEW n \in Nat, Answer(t, a, n)
  PROVE  RequestsInv'
<1> PICK q : q = request[t] OBVIOUS
<1> PICK done : done = [q EXCEPT !.answer = a] OBVIOUS
<1> PICK mints \in BOOLEAN : mints <=> a.sets["csrf"] = <<minted + 1>>
  OBVIOUS
<1>1. /\ request' = [request EXCEPT ![t] = done]
      /\ minted' = (IF mints THEN minted + 1 ELSE minted)
      /\ firsts' = (IF mints /\ q.cookies["csrf"] = <<>> THEN firsts + 1 ELSE firsts)
      /\ calls' = n
      /\ UNCHANGED <<own, tossed, page, requested>>
  BY DEF Answer
<1>2. RequestsTypeOK /\ Tokens BY DEF RequestsInv
<1>3. /\ q \in Asked /\ Carries(q) /\ q.cookies \in [Names -> Seq(Value)]
      /\ Agreed(q.cookies["csrf"]) # None => Backed(Agreed(q.cookies["csrf"]))
      /\ tossed["csrf"] = None /\ Agreed(q.cookies["csrf"]) = None => q.cookies["csrf"] = <<>>
  BY Carried
<1>4. minted \in Nat /\ firsts \in Nat /\ calls \in Nat BY <1>2 DEF RequestsTypeOK
<1>5. /\ done \in Asked /\ done.kind = q.kind /\ done.cookies = q.cookies
      /\ done.field = q.field /\ done.answer = a
  BY <1>3 DEF Sound, Asked
<1>6. Sound(q, a) OBVIOUS
<1>7. minted' \in Nat /\ minted <= minted' /\ firsts' \in Nat /\ firsts <= firsts' /\ calls' \in Nat
  BY <1>1, <1>4
<1>8. RequestsTypeOK' BY <1>1, <1>2, <1>5, <1>7 DEF RequestsTypeOK
<1>9. \A k : k \in 1 .. minted => k \in 1 .. minted' BY <1>4, <1>7
<1>10. \A token : Backed(token) => Backed(token)' BY <1>1, <1>9 DEF Backed
<1>11. Tokens'
  <2>1. own'["csrf"] \in 1 .. minted' \cup {None} BY <1>1, <1>2, <1>9 DEF Tokens
  <2>2. tossed'["csrf"] = None => firsts' = minted'
    <3> SUFFICES ASSUME tossed["csrf"] = None PROVE firsts' = minted' BY <1>1
    <3>1. firsts = minted BY <1>2 DEF Tokens
    <3>2. mints => Agreed(q.cookies["csrf"]) = None
      <4>1. <<minted + 1>> # <<>> OBVIOUS
      <4>2. QED BY <1>6, <4>1 DEF Sound
    <3>3. mints => q.cookies["csrf"] = <<>> BY <1>3, <3>2
    <3>4. QED BY <1>1, <3>1, <3>3
  <2>3. \A u \in Tabs : page'[u] # None => Backed(page[u])'
    BY <1>1, <1>2, <1>10 DEF Tokens
  <2>4. QED BY <2>1, <2>2, <2>3 DEF Tokens
<1>12. \A r : Carries(r) => Carries(r)'
  <2> SUFFICES ASSUME NEW r, Carries(r) PROVE Carries(r)' OBVIOUS
  <2>1. Jar(r.cookies["session"], Issued, {Foreign}) BY DEF Carries
  <2>2. Jar(r.cookies["csrf"], IF own["csrf"] = None THEN {} ELSE 1 .. minted', {tossed["csrf"]})
    BY <1>9 DEF Carries, Jar
  <2>3. Excusable(r)' BY <1>4, <1>7 DEF Carries, Excusable, CsrfRejects
  <2>4. QED BY <1>1, <2>1, <2>2, <2>3 DEF Carries
<1>13. \A r : Brings(r) => Brings(r)'
  BY <1>9, <1>10 DEF Brings, SawIt, CsrfRejects
<1>14. Carries(done) BY <1>3, <1>5 DEF Carries, Excusable, CsrfRejects
<1>15. Brings(done)'
  <2>1. a.sets["csrf"] \in {<<>>} \cup {<<k>> : k \in 1 .. minted'}
    <3>1. CASE a.sets["csrf"] = <<>> BY <3>1
    <3>2. CASE a.sets["csrf"] = <<minted + 1>>
      <4>1. minted + 1 \in 1 .. minted' BY <1>1, <1>4, <3>2
      <4>2. QED BY <3>2, <4>1
    <3>3. QED BY <1>6, <3>1, <3>2 DEF Sound
  <2>2. a.view = "document" =>
          \/ Backed(a.token)'
          \/ a.token \in 1 .. minted' /\ a.sets["csrf"] # <<>>
    <3> SUFFICES ASSUME a.view = "document"
        PROVE  Backed(a.token)' \/ (a.token \in 1 .. minted' /\ a.sets["csrf"] # <<>>)
      OBVIOUS
    <3>1. CASE a.token # None /\ a.token = Agreed(q.cookies["csrf"])
      BY <1>3, <1>10, <3>1
    <3>2. CASE a.token = minted + 1 /\ a.sets["csrf"] = <<minted + 1>>
      <4>1. minted' = minted + 1 BY <1>1, <3>2
      <4>2. QED BY <1>4, <3>2, <4>1
    <3>3. QED BY <1>6, <3>1, <3>2 DEF Sound
  <2>3. a.status = "refused" => done.kind \in {"native", "enhanced"} /\ CsrfRejects(done)
    BY <1>5, <1>6 DEF Sound, CsrfRejects
  <2>4. SawIt(done) BY <1>6 DEF Sound
  <2>5. QED BY <1>5, <1>6, <2>1, <2>2, <2>3, <2>4 DEF Brings, Sound, SawIt, CsrfRejects
<1>16. \A u \in Tabs : request'[u] = IF u = t THEN done ELSE request[u]
  BY <1>1, <1>2 DEF RequestsTypeOK
<1>17. \A u \in Tabs : request'[u] # None => Carries(request[u])'
  BY <1>12, <1>14, <1>16 DEF RequestsInv
<1>18. \A u \in Tabs : Answered(u)' => Brings(request[u])'
  BY <1>13, <1>15, <1>16 DEF RequestsInv, Answered
<1>19. QED BY <1>8, <1>11, <1>17, <1>18 DEF RequestsInv

-----------------------------------------------------------------------------
(* The actions of the front server.                                        *)

\* The two halves of a page as answered.
LEMMA PageIsSound ==
  ASSUME RequestsInv, NEW t \in Tabs, request[t] # None, NEW cookies \in AppSets,
         NEW load, load.sets \in AppSets
  PROVE  /\ Sound(request[t],
                  RenderPage(Fresh(request[t].cookies, cookies), cookies, load))
         /\ Sound(request[t],
                  PropsAnswer(Fresh(request[t].cookies, cookies), cookies, load))
<1> PICK q : q = request[t] OBVIOUS
<1> PICK header : header = Fresh(q.cookies, cookies) OBVIOUS
<1>1. /\ q \in Asked /\ q.cookies \in [Names -> Seq(Value)]
      /\ \A n \in Names : Agreed(q.cookies[n]) \in Value
  BY Carried
<1>2. cookies \in Sets /\ cookies["csrf"] = <<>> BY DEF AppSets
<1>3. header \in [Names -> Seq(Value)] /\ Agreed(header["csrf"]) = Agreed(q.cookies["csrf"])
  BY <1>1, <1>2, FreshReads
<1>4. Agreed(header["csrf"]) \in Value BY <1>1, <1>3 DEF Names
<1>5. \A host \in Issued \cup {None}, toss \in {Foreign, None} :
        q.cookies["session"] = Values(host) \o Values(toss) =>
          \/ GoSession(header["session"]) = Session(host, cookies)
          \/ /\ GoSession(header["session"]) = None
             /\ Disagree(q.cookies["session"]) /\ cookies # NoSets
  BY <1>1, SawAfter
<1>6. ASSUME NEW a \in Reply, a.sets["session"] = a.issued["session"],
             a.view # "none" => a.saw = GoSession(header["session"]) /\ a.acted = cookies
      PROVE  SawIt([q EXCEPT !.answer = a])
  <2> PICK done : done = [q EXCEPT !.answer = a] OBVIOUS
  <2>1. done.answer = a /\ done.cookies = q.cookies BY <1>1 DEF Asked
  <2>2. a.issued["session"] = a.acted["session"] =>
          \A host : Session(host, a.sets) = Session(host, a.acted)
    BY <1>6 DEF Session
  <2>3. ASSUME a.view # "none", NEW host \in Issued \cup {None}, NEW toss \in {Foreign, None},
               q.cookies["session"] = Values(host) \o Values(toss)
        PROVE  \/ a.saw = Session(host, a.sets)
               \/ a.issued["session"] # a.acted["session"] /\ a.saw = Session(host, a.acted)
               \/ a.acted # NoSets /\ a.saw = None /\ Disagree(q.cookies["session"])
    <3>1. a.saw = GoSession(header["session"]) /\ a.acted = cookies BY <1>6, <2>3
    <3>2. \/ a.saw = Session(host, cookies)
          \/ a.saw = None /\ Disagree(q.cookies["session"]) /\ cookies # NoSets
      BY <1>5, <2>3, <3>1
    <3>3. QED BY <2>2, <3>1, <3>2
  <2>4. SawIt(done) BY <2>1, <2>3 DEF SawIt
  <2>5. QED BY <2>4
<1>7. Sound(q, RenderPage(header, cookies, load))
  <2> PICK a : a = RenderPage(header, cookies, load) OBVIOUS
  <2>1. /\ a \in Reply /\ a.status = "ok" /\ a.issued = Then(cookies, load.sets)
        /\ \A n \in {"session", "other"} : a.sets[n] = a.issued[n]
        /\ a.view # "none" => a.saw = GoSession(header["session"]) /\ a.acted = cookies
        /\ a.view = "document" =>
             a.token = IF Agreed(header["csrf"]) # None THEN Agreed(header["csrf"])
                       ELSE minted + 1
        /\ a.sets["csrf"] = IF a.view = "document" /\ Agreed(header["csrf"]) = None
                            THEN <<minted + 1>> ELSE <<>>
    BY <1>3, <1>4, Rendered
  <2>2. \A i \in DOMAIN a.sets["session"] : a.sets["session"][i] \in Issued \cup {None}
    <3>1. a.issued \in AppSets BY <2>1, ThenAppSets
    <3>2. QED BY <2>1, <3>1 DEF AppSets
  <2>3. SawIt([q EXCEPT !.answer = a]) BY <1>6, <2>1
  <2>4. \/ a.sets["csrf"] = <<>>
        \/ a.sets["csrf"] = <<minted + 1>> /\ Agreed(q.cookies["csrf"]) = None
    BY <1>3, <2>1
  <2>5. a.view = "document" =>
          \/ a.token # None /\ a.token = Agreed(q.cookies["csrf"])
          \/ a.token = minted + 1 /\ a.sets["csrf"] = <<minted + 1>>
    BY <1>3, <2>1
  <2>6. QED BY <2>1, <2>2, <2>3, <2>4, <2>5 DEF Sound
<1>8. Sound(q, PropsAnswer(header, cookies, load))
  <2> PICK sets : sets = Then(cookies, load.sets) OBVIOUS
  <2> PICK a : a = PropsAnswer(header, cookies, load) OBVIOUS
  <2>1. sets \in AppSets BY ThenAppSets
  <2>2. GoSession(header["session"]) \in Value BY <1>3, SessionIsValue DEF Names
  <2>3. a = IF load.out = "response" THEN Bare(sets, sets) ELSE Data(header, cookies, sets, sets)
    BY DEF PropsAnswer
  <2>4. /\ a \in Reply /\ a.status = "ok" /\ a.view \in {"none", "data"}
        /\ a.sets = sets /\ a.issued = sets
        /\ a.view # "none" => a.saw = GoSession(header["session"]) /\ a.acted = cookies
    <3>0. sets \in Sets /\ None \in Value BY <2>1 DEF AppSets, Value
    <3>1. CASE load.out = "response" BY <3>0, <3>1, <2>3, NothingSet DEF Bare, Reply
    <3>2. CASE load.out # "response" BY <3>0, <3>2, <2>2, <2>3 DEF Bare, Data, Reply
    <3>3. QED BY <3>1, <3>2
  <2>5. SawIt([q EXCEPT !.answer = a]) BY <1>6, <2>4
  <2>6. QED BY <2>1, <2>4, <2>5 DEF Sound, AppSets
<1>9. QED BY <1>7, <1>8

\* What an exception is answered with.
LEMMA ErrorIsSound ==
  ASSUME RequestsInv, NEW t \in Tabs, request[t] # None, NEW issued \in AppSets
  PROVE  /\ Sound(request[t], ErrorPage(request[t], issued))
         /\ Sound(request[t], [ErrorPage(request[t], issued) EXCEPT !.view = "none"])
<1> PICK q : q = request[t] OBVIOUS
<1> PICK page0 : page0 = RenderPage(q.cookies, NoSets, NoLoader) OBVIOUS
<1>1. NoLoader.sets = NoSets /\ NoSets \in AppSets BY NothingSet DEF NoLoader
<1>2. Fresh(q.cookies, NoSets) = q.cookies BY DEF Fresh
<1>3. Sound(q, page0) BY <1>1, <1>2, PageIsSound
<1>4. /\ q \in Asked /\ q.cookies \in [Names -> Seq(Value)]
      /\ \A n \in Names : Agreed(q.cookies[n]) \in Value
  BY Carried
<1>5. /\ page0 \in Reply /\ page0.issued = NoSets
      /\ page0.view # "none" => page0.acted = NoSets
  <2>1. Then(NoSets, NoSets) = NoSets BY <1>1, ThenNothing DEF AppSets
  <2>2. QED BY <1>1, <1>4, <2>1, Rendered DEF Names
<1> PICK a : a = ErrorPage(q, issued) OBVIOUS
<1>6. a = [page0 EXCEPT !.status = "failed", !.issued = issued] BY DEF ErrorPage
<1>7. /\ a \in Reply /\ a.status = "failed" /\ a.issued = issued /\ a.sets = page0.sets
      /\ a.saw = page0.saw /\ a.token = page0.token /\ a.view = page0.view /\ a.acted = page0.acted
  <2>1. issued \in Sets BY DEF AppSets
  <2>2. QED BY <1>5, <1>6, <2>1 DEF Reply
<1>8. SawIt([q EXCEPT !.answer = a])
  <2> PICK then : then = [q EXCEPT !.answer = page0] OBVIOUS
  <2> PICK now : now = [q EXCEPT !.answer = a] OBVIOUS
  <2>1. SawIt(then) BY <1>3 DEF Sound
  <2>2. /\ then.answer = page0 /\ then.cookies = q.cookies
        /\ now.answer = a /\ now.cookies = q.cookies
    BY <1>4 DEF Asked
  <2>3. ASSUME a.view # "none", NEW host \in Issued \cup {None}, NEW toss \in {Foreign, None},
               q.cookies["session"] = Values(host) \o Values(toss)
        PROVE  a.saw = Session(host, a.sets)
    BY <1>5, <1>7, <2>1, <2>2, <2>3 DEF SawIt
  <2>4. SawIt(now) BY <2>2, <2>3 DEF SawIt
  <2>5. QED BY <2>4
<1>9. Sound(q, a) BY <1>3, <1>7, <1>8 DEF Sound
<1>10. Sound(q, [a EXCEPT !.view = "none"])
  <2> PICK b : b = [a EXCEPT !.view = "none"] OBVIOUS
  <2>1. /\ b \in Reply /\ b.status = "failed" /\ b.issued = issued /\ b.sets = a.sets
        /\ b.view = "none"
    BY <1>7 DEF Reply
  <2>2. SawIt([q EXCEPT !.answer = b]) BY <1>4, <2>1 DEF SawIt, Asked
  <2>3. QED BY <1>9, <2>1, <2>2 DEF Sound
<1>11. QED BY <1>9, <1>10

LEMMA ServePageKeeps == ASSUME RequestsInv, NEW t \in Tabs, ServePage(t) PROVE RequestsInv'
<1> PICK q : q = request[t] OBVIOUS
<1>1. q # None /\ q.kind = "document" BY DEF ServePage, Pending
<1>2. PICK load \in Loads(calls) :
        Answer(t, IF load.out = "throw" THEN ErrorPage(q, load.sets)
                                        ELSE RenderPage(q.cookies, NoSets, load),
               After(load.sets, calls))
  BY DEF ServePage
<1>3. load.sets \in AppSets /\ After(load.sets, calls) \in Nat
  BY CallSets DEF RequestsInv, RequestsTypeOK, Loads
<1>4. Fresh(q.cookies, NoSets) = q.cookies BY DEF Fresh
<1>5. Sound(q, ErrorPage(q, load.sets)) BY <1>1, <1>3, ErrorIsSound
<1>6. Sound(q, RenderPage(q.cookies, NoSets, load))
  BY <1>1, <1>3, <1>4, NothingSet, PageIsSound
<1>7. QED BY <1>1, <1>2, <1>3, <1>5, <1>6, AnswerKeeps

LEMMA ServePropsKeeps == ASSUME RequestsInv, NEW t \in Tabs, ServeProps(t) PROVE RequestsInv'
<1> PICK q : q = request[t] OBVIOUS
<1>1. q # None /\ q.kind = "props" BY DEF ServeProps, Pending
<1>2. PICK load \in Loads(calls) :
        Answer(t, IF load.out = "throw" THEN [ErrorPage(q, load.sets) EXCEPT !.view = "none"]
                                        ELSE PropsAnswer(q.cookies, NoSets, load),
               After(load.sets, calls))
  BY DEF ServeProps
<1>3. load.sets \in AppSets /\ After(load.sets, calls) \in Nat
  BY CallSets DEF RequestsInv, RequestsTypeOK, Loads
<1>4. Fresh(q.cookies, NoSets) = q.cookies BY DEF Fresh
<1>5. Sound(q, [ErrorPage(q, load.sets) EXCEPT !.view = "none"]) BY <1>1, <1>3, ErrorIsSound
<1>6. Sound(q, PropsAnswer(q.cookies, NoSets, load))
  BY <1>1, <1>3, <1>4, NothingSet, PageIsSound
<1>7. QED BY <1>1, <1>2, <1>3, <1>5, <1>6, AnswerKeeps

\* An answer that shows nothing.
LEMMA BareIsSound ==
  ASSUME RequestsInv, NEW t \in Tabs, request[t] # None, NEW sets \in AppSets
  PROVE  Sound(request[t], Bare(sets, sets))
<1> PICK q : q = request[t] OBVIOUS
<1> PICK a : a = Bare(sets, sets) OBVIOUS
<1>1. sets \in Sets /\ None \in Value BY DEF AppSets, Value
<1>2. /\ a \in Reply /\ a.status = "ok" /\ a.view = "none" /\ a.sets = sets /\ a.issued = sets
  BY <1>1, NothingSet DEF Bare, Reply
<1>3. q \in Asked BY Carried
<1>4. SawIt([q EXCEPT !.answer = a]) BY <1>2, <1>3 DEF SawIt, Asked
<1>5. QED BY <1>2, <1>4 DEF Sound, AppSets

LEMMA RefusePostKeeps == ASSUME RequestsInv, NEW t \in Tabs, RefusePost(t) PROVE RequestsInv'
<1> PICK q : q = request[t] OBVIOUS
<1> PICK bare : bare = Bare(NoSets, NoSets) OBVIOUS
<1> PICK a : a = [bare EXCEPT !.status = "refused"] OBVIOUS
<1>1. q # None /\ q.kind \in {"native", "enhanced"} /\ CsrfRejects(q) /\ Answer(t, a, calls)
      /\ calls \in Nat
  BY DEF RefusePost, Pending, RequestsInv, RequestsTypeOK
<1>2. Sound(q, bare) BY <1>1, NothingSet, BareIsSound
<1>3. bare \in Reply /\ bare.view = "none" /\ bare.sets = NoSets /\ bare.issued = NoSets
  BY <1>2 DEF Sound, Bare
<1>4. a \in Reply /\ a.view = "none" /\ a.sets = NoSets /\ a.issued = NoSets /\ a.status = "refused"
  BY <1>3 DEF Reply
<1>5. q \in Asked BY <1>1, Carried
<1>6. SawIt([q EXCEPT !.answer = a]) BY <1>4, <1>5 DEF SawIt, Asked
<1>7. Sound(q, a) BY <1>1, <1>2, <1>3, <1>4, <1>6 DEF Sound
<1>8. QED BY <1>1, <1>7, AnswerKeeps

LEMMA ActionRespondsKeeps ==
  ASSUME RequestsInv, NEW t \in Tabs, ActionResponds(t) PROVE RequestsInv'
<1>1. request[t] # None BY DEF ActionResponds, Runs, Pending
<1>2. PICK cookies \in Calls(calls) :
        Answer(t, Bare(cookies, cookies), After(cookies, calls))
  BY DEF ActionResponds
<1>3. cookies \in AppSets /\ After(cookies, calls) \in Nat
  BY CallSets DEF RequestsInv, RequestsTypeOK
<1>4. QED BY <1>1, <1>2, <1>3, BareIsSound, AnswerKeeps

LEMMA ActionThrowsKeeps ==
  ASSUME RequestsInv, NEW t \in Tabs, ActionThrows(t) PROVE RequestsInv'
<1>1. request[t] # None BY DEF ActionThrows, Runs, Pending
<1>2. PICK cookies \in Calls(calls) :
        Answer(t, ErrorPage(request[t], cookies), After(cookies, calls))
  BY DEF ActionThrows
<1>3. cookies \in AppSets /\ After(cookies, calls) \in Nat
  BY CallSets DEF RequestsInv, RequestsTypeOK
<1>4. QED BY <1>1, <1>2, <1>3, ErrorIsSound, AnswerKeeps

LEMMA ActionLoadsKeeps ==
  ASSUME RequestsInv, NEW t \in Tabs, ActionLoads(t) PROVE RequestsInv'
<1> PICK q : q = request[t] OBVIOUS
<1>1. q # None /\ q.kind \in {"native", "enhanced"} BY DEF ActionLoads, Runs, Pending
<1>2. PICK cookies \in Calls(calls) :
      \E load \in Loads(After(cookies, calls)) :
        Answer(t, CASE load.out = "throw" -> ErrorPage(q, Then(cookies, load.sets))
                    [] load.out # "throw" /\ q.kind = "native" ->
                         RenderPage(Fresh(q.cookies, cookies), cookies, load)
                    [] load.out # "throw" /\ q.kind = "enhanced" ->
                         PropsAnswer(Fresh(q.cookies, cookies), cookies, load),
               After(load.sets, After(cookies, calls)))
  BY DEF ActionLoads
<1>. PICK load \in Loads(After(cookies, calls)) :
        Answer(t, CASE load.out = "throw" -> ErrorPage(q, Then(cookies, load.sets))
                    [] load.out # "throw" /\ q.kind = "native" ->
                         RenderPage(Fresh(q.cookies, cookies), cookies, load)
                    [] load.out # "throw" /\ q.kind = "enhanced" ->
                         PropsAnswer(Fresh(q.cookies, cookies), cookies, load),
               After(load.sets, After(cookies, calls)))
  BY <1>2
<1> PICK n : n = After(load.sets, After(cookies, calls)) OBVIOUS
<1>3. /\ cookies \in AppSets /\ load.sets \in AppSets /\ n \in Nat
      /\ load.out \in {"props", "response", "throw"}
  <2>1. cookies \in AppSets /\ After(cookies, calls) \in Nat
    BY CallSets DEF RequestsInv, RequestsTypeOK
  <2>2. load.sets \in Calls(After(cookies, calls)) /\ load.out \in {"props", "response", "throw"}
    BY DEF Loads
  <2>3. QED BY <2>1, <2>2, CallSets
<1>4. Then(cookies, load.sets) \in AppSets BY <1>3, ThenAppSets
<1>5. Sound(q, ErrorPage(q, Then(cookies, load.sets))) BY <1>1, <1>4, ErrorIsSound
<1>6. /\ Sound(q, RenderPage(Fresh(q.cookies, cookies), cookies, load))
      /\ Sound(q, PropsAnswer(Fresh(q.cookies, cookies), cookies, load))
  BY <1>1, <1>3, PageIsSound
<1>7. \/ Answer(t, ErrorPage(q, Then(cookies, load.sets)), n)
      \/ Answer(t, RenderPage(Fresh(q.cookies, cookies), cookies, load), n)
      \/ Answer(t, PropsAnswer(Fresh(q.cookies, cookies), cookies, load), n)
  BY <1>1, <1>2
<1>8. QED BY <1>1, <1>3, <1>5, <1>6, <1>7, AnswerKeeps

-----------------------------------------------------------------------------
(* The actions of the browser.                                             *)

\* Neither this host nor the sibling takes its token back.
LEMMA NothingTakenBack ==
  ASSUME RequestsTypeOK, UNCHANGED <<minted, firsts>>,
         own["csrf"] # None => own'["csrf"] # None,
         tossed["csrf"] # None => tossed'["csrf"] = tossed["csrf"]
  PROVE  /\ \A token : Backed(token) => Backed(token)'
         /\ \A r : Carries(r) => Carries(r)'
         /\ \A r : Brings(r) => Brings(r)'
<1>1. \A token : Backed(token) => Backed(token)' BY NoneIsNoValue DEF Backed
<1>2. ASSUME NEW r, Carries(r) PROVE Carries(r)'
  <2>1. Jar(r.cookies["csrf"], IF own'["csrf"] = None THEN {} ELSE 1 .. minted',
            {tossed'["csrf"]})
    BY <1>2 DEF Carries, Jar
  <2>2. QED BY <1>2, <2>1 DEF Carries, Excusable, CsrfRejects, Jar
<1>3. \A r : Brings(r) => Brings(r)' BY <1>1 DEF Brings, SawIt, CsrfRejects
<1>4. QED BY <1>1, <1>2, <1>3

\* The tokens of the jar as it is now.
LEMMA Live ==
  ASSUME RequestsTypeOK, Tokens
  PROVE  /\ Header(own) \in [Names -> Seq(Value)]
         /\ Header(own)["session"] = Values(own["session"]) \o Values(tossed["session"])
         /\ Header(own)["csrf"] = Values(own["csrf"]) \o Values(tossed["csrf"])
         /\ Disagree(Header(own)["csrf"]) <=> own["csrf"] # None /\ tossed["csrf"] # None
         /\ Agreed(Header(own)["csrf"]) =
              IF own["csrf"] = None THEN tossed["csrf"]
              ELSE IF tossed["csrf"] = None THEN own["csrf"] ELSE None
         /\ Agreed(Header(own)["csrf"]) # None => Backed(Agreed(Header(own)["csrf"]))
<1>1. \A n \in Names : own[n] \in Issued \cup {None} /\ tossed[n] \in {Foreign, None}
  BY DEF RequestsTypeOK
<1>2. \A n \in Names : Header(own)[n] = Values(own[n]) \o Values(tossed[n]) BY DEF Header
<1>3. Header(own) \in [Names -> Seq(Value)]
  <2>1. \A n \in Names : Values(own[n]) \o Values(tossed[n]) \in Seq(Value) BY <1>1, Reads
  <2>2. QED BY <2>1 DEF Header
<1>4. "csrf" \in Names /\ "session" \in Names BY DEF Names
<1>5. /\ Disagree(Header(own)["csrf"]) <=> own["csrf"] # None /\ tossed["csrf"] # None
      /\ Agreed(Header(own)["csrf"]) =
           IF own["csrf"] = None THEN tossed["csrf"]
           ELSE IF tossed["csrf"] = None THEN own["csrf"] ELSE None
  <2>1. /\ own["csrf"] \in Issued \cup {None} /\ tossed["csrf"] \in {Foreign, None}
        /\ Header(own)["csrf"] = Values(own["csrf"]) \o Values(tossed["csrf"])
    BY <1>1, <1>2, <1>4
  <2>2. QED BY <2>1, Reads
<1>6. Agreed(Header(own)["csrf"]) # None => Backed(Agreed(Header(own)["csrf"]))
  BY <1>1, <1>4, <1>5 DEF Backed, Tokens
<1>7. QED BY <1>2, <1>3, <1>4, <1>5, <1>6

LEMMA SendKeeps ==
  ASSUME RequestsInv, NEW t \in Tabs, NEW kind \in Kinds, Send(t, kind) PROVE RequestsInv'
<1> PICK q : q = [kind |-> kind, cookies |-> Header(own), field |-> Field(t, kind),
                  answer |-> None]
  OBVIOUS
<1>1. /\ kind # "document" => page[t] # None
      /\ request' = [request EXCEPT ![t] = q] /\ requested' = requested + 1
      /\ UNCHANGED <<own, tossed, page, calls, minted, firsts>>
  BY DEF Send
<1>2. RequestsTypeOK /\ Tokens BY DEF RequestsInv
<1>3. /\ own["csrf"] \in Issued \cup {None} /\ own["session"] \in Issued \cup {None}
      /\ tossed["csrf"] \in {Foreign, None} /\ tossed["session"] \in {Foreign, None}
      /\ own["csrf"] \in 1 .. minted \cup {None} /\ page[t] \in Value
      /\ minted \in Nat /\ firsts \in Nat
  BY <1>2 DEF RequestsTypeOK, Tokens, Names
<1> PICK live : live = Agreed(Header(own)["csrf"]) OBVIOUS
<1>4. /\ live = IF own["csrf"] = None THEN tossed["csrf"]
                ELSE IF tossed["csrf"] = None THEN own["csrf"] ELSE None
      /\ Disagree(Header(own)["csrf"]) <=> own["csrf"] # None /\ tossed["csrf"] # None
  BY <1>2, Live
<1>5. Field(t, kind) = IF kind = "enhanced" /\ live # None THEN live ELSE page[t]
  BY DEF Field
<1>6. q \in Asked
  <2>1. Field(t, kind) \in Value BY <1>3, <1>4, <1>5, NoneIsNoValue DEF Value, Issued
  <2>2. Header(own) \in [Names -> Seq(Value)] BY <1>2, Live
  <2>3. QED BY <2>1, <2>2 DEF Asked
<1>7. Carries(q)
  <2>1. Jar(q.cookies["session"], Issued, {Foreign}) BY <1>2, <1>3, Live DEF Jar
  <2>2. Jar(q.cookies["csrf"], IF own["csrf"] = None THEN {} ELSE 1 .. minted, {tossed["csrf"]})
    BY <1>2, <1>3, Live DEF Jar
  <2>3. Excusable(q)
    <3> SUFFICES ASSUME kind \in {"native", "enhanced"}, ~Disagree(Header(own)["csrf"]),
                        live = None \/ Field(t, kind) # live
        PROVE  kind = "native" /\ firsts > 1
      BY DEF Excusable, CsrfRejects
    <3>1. Backed(page[t]) BY <1>1, <1>2 DEF Tokens
    <3>2. live # None BY <1>3, <1>4, <3>1, NoneIsNoValue DEF Backed
    <3>3. kind = "native" /\ page[t] # live BY <1>5, <3>2
    <3>4. tossed["csrf"] = None /\ own["csrf"] # None
      BY <1>3, <1>4, <3>1, <3>2, <3>3, NoneIsNoValue DEF Backed
    <3>5. page[t] \in 1 .. minted /\ own["csrf"] \in 1 .. minted /\ page[t] # own["csrf"]
      BY <1>3, <1>4, <3>1, <3>3, <3>4, NoneIsNoValue DEF Backed
    <3>6. firsts = minted BY <1>2, <3>4 DEF Tokens
    <3>7. QED BY <1>3, <3>3, <3>5, <3>6
  <2>4. QED BY <2>1, <2>2, <2>3 DEF Carries
<1>8. \A u \in Tabs : request'[u] = IF u = t THEN q ELSE request[u]
  BY <1>1, <1>2 DEF RequestsTypeOK
<1>9. /\ \A token : Backed(token) => Backed(token)'
      /\ \A r : Carries(r) => Carries(r)'
      /\ \A r : Brings(r) => Brings(r)'
  BY <1>1, <1>2, NothingTakenBack
<1>10. RequestsTypeOK' BY <1>1, <1>2, <1>6, <1>8 DEF RequestsTypeOK
<1>11. Tokens' BY <1>1, <1>2, <1>9 DEF Tokens
<1>12. \A u \in Tabs : request'[u] # None => Carries(request[u])'
  BY <1>7, <1>8, <1>9 DEF RequestsInv
<1>13. \A u \in Tabs : Answered(u)' => Brings(request[u])'
  BY <1>8, <1>9 DEF RequestsInv, Answered
<1>14. QED BY <1>10, <1>11, <1>12, <1>13 DEF RequestsInv

LEMMA DeliverKeeps == ASSUME RequestsInv, NEW t \in Tabs, Deliver(t) PROVE RequestsInv'
<1> PICK q : q = request[t] OBVIOUS
<1> PICK a : a = q.answer OBVIOUS
<1>1. /\ Idle /\ q # None /\ own' = Stored(own, a.sets)
      /\ page' = [page EXCEPT ![t] =
           CASE a.view = "document" -> a.token
             [] a.view = "data" -> Agreed(Header(own')["csrf"])
             [] a.view = "none" /\ q.kind \in {"document", "native"} -> None
             [] OTHER -> @]
      /\ request' = [request EXCEPT ![t] = None]
      /\ UNCHANGED <<tossed, requested, calls, minted, firsts>>
  BY DEF Deliver
<1>2. RequestsTypeOK /\ Tokens BY DEF RequestsInv
<1>3. q \in Asked BY <1>1, <1>2 DEF RequestsTypeOK
<1>4. a # None /\ Answered(t) /\ Brings(q)
  <2>1. q.kind \in Kinds BY <1>3 DEF Asked
  <2>2. a # None BY <1>1, <2>1 DEF Idle, Pending
  <2>3. QED BY <1>1, <2>2 DEF RequestsInv, Answered
<1>5. a \in Reply BY <1>3, <1>4 DEF Asked
<1>6. a.sets["session"] \in Seq(Value) /\ a.view \in {"none", "data", "document"}
  BY <1>5, SetsAre DEF Reply
<1>7. /\ own'["session"] = (IF a.sets["session"] = <<>> THEN own["session"]
                            ELSE Last(a.sets["session"]))
      /\ own'["csrf"] = (IF a.sets["csrf"] = <<>> THEN own["csrf"] ELSE Last(a.sets["csrf"]))
      /\ DOMAIN own' = Names
  BY <1>1 DEF Stored, Names
<1>8. minted \in Nat /\ own["csrf"] \in Issued \cup {None} /\ own["session"] \in Issued \cup {None}
      /\ own["csrf"] \in 1 .. minted \cup {None}
  BY <1>2 DEF RequestsTypeOK, Tokens, Names
<1>9. own'["session"] \in Issued \cup {None}
  <2>1. a.sets["session"] # <<>> => Last(a.sets["session"]) \in Issued \cup {None}
    BY <1>4, <1>6 DEF Brings, Last
  <2>2. QED BY <1>7, <1>8, <2>1
<1>10. /\ own'["csrf"] \in 1 .. minted \cup {None}
       /\ a.sets["csrf"] # <<>> => own'["csrf"] # None
       /\ own["csrf"] # None => own'["csrf"] # None
  <2>1. CASE a.sets["csrf"] = <<>> BY <1>7, <1>8, <2>1
  <2>2. CASE a.sets["csrf"] # <<>>
    <3>1. PICK k \in 1 .. minted : a.sets["csrf"] = <<k>> BY <1>4, <2>2 DEF Brings
    <3>2. Last(<<k>>) = k BY DEF Last
    <3>3. QED BY <1>7, <1>8, <2>2, <3>1, <3>2, NoneIsNoValue
  <2>3. QED BY <2>1, <2>2
<1>11. own' \in [Names -> Issued \cup {None}]
  <2>1. own'["csrf"] \in Issued \cup {None} BY <1>8, <1>10 DEF Issued
  <2>2. own' = [n \in Names |-> own'[n]] BY <1>1 DEF Stored
  <2>3. QED BY <1>9, <2>1, <2>2 DEF Names
<1>12. /\ \A token : Backed(token) => Backed(token)'
       /\ \A r : Carries(r) => Carries(r)'
       /\ \A r : Brings(r) => Brings(r)'
  BY <1>1, <1>2, <1>10, NothingTakenBack
<1> PICK jar : jar = own' OBVIOUS
<1> PICK live : live = Agreed(Header(jar)["csrf"]) OBVIOUS
<1>13. live \in Value /\ (live # None => Backed(live)')
  <2>1. /\ Header(jar)["csrf"] = Values(jar["csrf"]) \o Values(tossed["csrf"])
        /\ jar["csrf"] \in Issued \cup {None} /\ tossed["csrf"] \in {Foreign, None}
    BY <1>2, <1>11 DEF Header, Names, RequestsTypeOK
  <2>2. live = IF jar["csrf"] = None THEN tossed["csrf"]
               ELSE IF tossed["csrf"] = None THEN jar["csrf"] ELSE None
    BY <2>1, Reads
  <2>3. QED BY <1>1, <1>10, <2>1, <2>2, NoneIsNoValue DEF Backed, Value, Issued
<1>14. \A u \in Tabs : page'[u] \in Value /\ (page'[u] # None => Backed(page[u])')
  <2> SUFFICES ASSUME NEW u \in Tabs
      PROVE  page'[u] \in Value /\ (page'[u] # None => Backed(page[u])')
    OBVIOUS
  <2> PICK before : before = page[u] OBVIOUS
  <2>1. before \in Value /\ (before # None => Backed(before)') /\ None \in Value
    BY <1>2, <1>12 DEF RequestsTypeOK, Tokens, Value
  <2>2. CASE page'[u] = before BY <2>1, <2>2 DEF Backed
  <2>3. CASE page'[u] = None BY <2>1, <2>3
  <2>4. CASE page'[u] = live BY <1>13, <2>4 DEF Backed
  <2>5. CASE a.view = "document" /\ page'[u] = a.token
    <3>1. a.token \in Value BY <1>5 DEF Reply
    <3>2. Backed(a.token)'
      <4>1. CASE Backed(a.token) BY <1>12, <4>1
      <4>2. CASE a.token \in 1 .. minted /\ a.sets["csrf"] # <<>>
        BY <1>1, <1>10, <4>2 DEF Backed
      <4>3. QED BY <1>4, <2>5, <4>1, <4>2 DEF Brings
    <3>3. QED BY <2>5, <3>1, <3>2 DEF Backed
  <2>6. page \in [Tabs -> Value] BY <1>2 DEF RequestsTypeOK
  <2>7. page'[u] = IF u # t THEN before ELSE
           CASE a.view = "document" -> a.token
             [] a.view = "data" -> live
             [] a.view = "none" /\ q.kind \in {"document", "native"} -> None
             [] OTHER -> before
    BY <1>1, <2>6
  <2>8. QED BY <1>6, <2>2, <2>3, <2>4, <2>5, <2>7
<1>15. \A u \in Tabs : request'[u] = IF u = t THEN None ELSE request[u]
  BY <1>1, <1>2 DEF RequestsTypeOK
<1>16. RequestsTypeOK'
  <2>1. page' = [u \in Tabs |-> page'[u]] BY <1>1, <1>2 DEF RequestsTypeOK
  <2>2. page' \in [Tabs -> Value] BY <1>14, <2>1
  <2>3. request' \in [Tabs -> Asked \cup {None}] BY <1>1, <1>2 DEF RequestsTypeOK
  <2>4. QED BY <1>1, <1>2, <1>11, <2>2, <2>3 DEF RequestsTypeOK
<1>17. Tokens' BY <1>1, <1>2, <1>10, <1>14 DEF Tokens
<1>18. \A u \in Tabs : request'[u] # None => Carries(request[u])'
  BY <1>12, <1>15 DEF RequestsInv
<1>19. \A u \in Tabs : Answered(u)' => Brings(request[u])'
  BY <1>12, <1>15 DEF RequestsInv, Answered
<1>20. QED BY <1>16, <1>17, <1>18, <1>19 DEF RequestsInv

LEMMA LoseKeeps == ASSUME RequestsInv, NEW t \in Tabs, Lose(t) PROVE RequestsInv'
<1>1. request' = [request EXCEPT ![t] = None]
      /\ UNCHANGED <<own, tossed, page, requested, calls, minted, firsts>>
  BY DEF Lose
<1>2. RequestsTypeOK /\ Tokens BY DEF RequestsInv
<1>3. /\ \A token : Backed(token) => Backed(token)'
      /\ \A r : Carries(r) => Carries(r)'
      /\ \A r : Brings(r) => Brings(r)'
  BY <1>1, <1>2, NothingTakenBack
<1>4. \A u \in Tabs : request'[u] = IF u = t THEN None ELSE request[u]
  BY <1>1, <1>2 DEF RequestsTypeOK
<1>5. RequestsTypeOK' BY <1>1, <1>2 DEF RequestsTypeOK
<1>6. Tokens' BY <1>1, <1>2, <1>3 DEF Tokens
<1>7. \A u \in Tabs : request'[u] # None => Carries(request[u])' BY <1>3, <1>4 DEF RequestsInv
<1>8. \A u \in Tabs : Answered(u)' => Brings(request[u])'
  BY <1>3, <1>4 DEF RequestsInv, Answered
<1>9. QED BY <1>5, <1>6, <1>7, <1>8 DEF RequestsInv

LEMMA TossKeeps == ASSUME RequestsInv, NEW n \in Names, Toss(n) PROVE RequestsInv'
<1>1. tossed' = [tossed EXCEPT ![n] = Foreign] /\ tossed[n] = None
      /\ UNCHANGED <<own, page, request, requested, calls, minted, firsts>>
  BY DEF Toss
<1>2. RequestsTypeOK /\ Tokens BY DEF RequestsInv
<1>3. tossed["csrf"] # None => tossed'["csrf"] = tossed["csrf"]
  BY <1>1, <1>2 DEF RequestsTypeOK, Names
<1>4. /\ \A token : Backed(token) => Backed(token)'
      /\ \A r : Carries(r) => Carries(r)'
      /\ \A r : Brings(r) => Brings(r)'
  BY <1>1, <1>2, <1>3, NothingTakenBack
<1>5. RequestsTypeOK' BY <1>1, <1>2 DEF RequestsTypeOK
<1>6. Tokens'
  <2>1. tossed'["csrf"] = None => firsts' = minted' BY <1>1, <1>2, <1>3 DEF Tokens
  <2>2. QED BY <1>1, <1>2, <1>4, <2>1 DEF Tokens
<1>7. \A u \in Tabs : request'[u] # None => Carries(request[u])' BY <1>1, <1>4 DEF RequestsInv
<1>8. \A u \in Tabs : Answered(u)' => Brings(request[u])'
  BY <1>1, <1>4 DEF RequestsInv, Answered
<1>9. QED BY <1>5, <1>6, <1>7, <1>8 DEF RequestsInv

LEMMA RequestsInitially == RequestsInit => RequestsInv
<1> SUFFICES ASSUME RequestsInit PROVE RequestsInv OBVIOUS
<1>1. /\ own = [n \in Names |-> None] /\ tossed = [n \in Names |-> None]
      /\ page = [t \in Tabs |-> None] /\ request = [t \in Tabs |-> None]
      /\ requested = 0 /\ calls = 0 /\ minted = 0 /\ firsts = 0
  BY DEF RequestsInit
<1>2. RequestsTypeOK BY <1>1 DEF RequestsTypeOK, Value
<1>3. Tokens BY <1>1 DEF Tokens, Names
<1>4. QED BY <1>1, <1>2, <1>3 DEF RequestsInv, Answered

LEMMA RequestsStep == RequestsInv /\ [RequestsNext]_requestsVars => RequestsInv'
<1> SUFFICES ASSUME RequestsInv, [RequestsNext]_requestsVars PROVE RequestsInv' OBVIOUS
<1>1. CASE RequestsUser
  <2>1. ASSUME NEW t \in Tabs, NEW kind \in Kinds, Send(t, kind) PROVE RequestsInv'
    BY <2>1, SendKeeps
  <2>2. ASSUME NEW n \in Names, Toss(n) PROVE RequestsInv' BY <2>2, TossKeeps
  <2>3. QED BY <1>1, <2>1, <2>2 DEF RequestsUser
<1>2. CASE RequestsSystem
  <2> SUFFICES ASSUME NEW t \in Tabs,
                      \/ ServePage(t) \/ ServeProps(t) \/ RefusePost(t)
                      \/ ActionResponds(t) \/ ActionThrows(t) \/ ActionLoads(t)
                      \/ Deliver(t) \/ Lose(t)
      PROVE  RequestsInv'
    BY <1>2 DEF RequestsSystem
  <2>1. CASE ServePage(t) BY <2>1, ServePageKeeps
  <2>2. CASE ServeProps(t) BY <2>2, ServePropsKeeps
  <2>3. CASE RefusePost(t) BY <2>3, RefusePostKeeps
  <2>4. CASE ActionResponds(t) BY <2>4, ActionRespondsKeeps
  <2>5. CASE ActionThrows(t) BY <2>5, ActionThrowsKeeps
  <2>6. CASE ActionLoads(t) BY <2>6, ActionLoadsKeeps
  <2>7. CASE Deliver(t) BY <2>7, DeliverKeeps
  <2>8. CASE Lose(t) BY <2>8, LoseKeeps
  <2>9. QED BY <2>1, <2>2, <2>3, <2>4, <2>5, <2>6, <2>7, <2>8
<1>3. CASE UNCHANGED requestsVars
  <2>1. UNCHANGED <<own, tossed, page, request, requested, calls, minted, firsts>>
    BY <1>3 DEF requestsVars
  <2>2. RequestsTypeOK' BY <2>1 DEF RequestsInv, RequestsTypeOK
  <2>3. RequestsTypeOK BY DEF RequestsInv
  <2>4. /\ \A token : Backed(token) => Backed(token)'
        /\ \A r : Carries(r) => Carries(r)'
        /\ \A r : Brings(r) => Brings(r)'
    BY <2>1, <2>3, NothingTakenBack
  <2>5. Tokens' BY <2>1, <2>4 DEF RequestsInv, Tokens
  <2>6. \A u \in Tabs : request'[u] # None => Carries(request[u])'
    BY <2>1, <2>4 DEF RequestsInv
  <2>7. \A u \in Tabs : Answered(u)' => Brings(request[u])'
    BY <2>1, <2>4 DEF RequestsInv, Answered
  <2>8. QED BY <2>2, <2>5, <2>6, <2>7 DEF RequestsInv
<1>4. QED BY <1>1, <1>2, <1>3 DEF RequestsNext

-----------------------------------------------------------------------------
(* What the front server promises of cookies.                              *)

LEMMA CookiesReach == RequestsInv => CookiesReachBrowser
  BY DEF RequestsInv, Brings, CookiesReachBrowser

LEMMA FormsAccepted == RequestsInv => FormsAreAccepted
<1> SUFFICES ASSUME RequestsInv, NEW t \in Tabs, Answered(t),
                    request[t].answer.status = "refused"
    PROVE  Disagree(request[t].cookies["csrf"]) \/ (request[t].kind = "native" /\ firsts > 1)
  BY DEF FormsAreAccepted
<1>1. Carries(request[t]) /\ Brings(request[t]) BY DEF RequestsInv, Answered
<1>2. QED BY <1>1 DEF Carries, Excusable, Brings

LEMMA PageMatches == RequestsInv => PageMatchesJar
<1> SUFFICES ASSUME RequestsInv, NEW t \in Tabs, Answered(t),
                    request[t].answer.view # "none", request[t].cookies = Header(own)
    PROVE  LET q == request[t]
               SessionAfter(sets) == GoSession(Header(Stored(own, sets))["session"])
           IN \/ q.answer.saw = SessionAfter(q.answer.sets)
              \/ /\ q.answer.issued["session"] # q.answer.acted["session"]
                 /\ q.answer.saw = SessionAfter(q.answer.acted)
              \/ /\ q.answer.acted # NoSets
                 /\ q.answer.saw = None /\ Disagree(q.cookies["session"])
  BY DEF PageMatchesJar
<1> PICK q : q = request[t] OBVIOUS
<1> PICK a : a = q.answer OBVIOUS
<1>1. RequestsTypeOK /\ Tokens /\ q \in Asked /\ a \in Reply /\ Brings(q)
  BY DEF RequestsInv, RequestsTypeOK, Answered, Asked
<1>2. own["session"] \in Issued \cup {None} /\ tossed["session"] \in {Foreign, None}
      /\ q.cookies["session"] = Values(own["session"]) \o Values(tossed["session"])
  BY <1>1, Live DEF RequestsTypeOK, Names
<1>3. \/ a.saw = Session(own["session"], a.sets)
      \/ /\ a.issued["session"] # a.acted["session"]
         /\ a.saw = Session(own["session"], a.acted)
      \/ a.acted # NoSets /\ a.saw = None /\ Disagree(q.cookies["session"])
  BY <1>1, <1>2 DEF Brings, SawIt
<1>4. ASSUME NEW sets, sets["session"] \in Seq(Value),
             \A i \in DOMAIN sets["session"] : sets["session"][i] \in Issued \cup {None}
      PROVE  GoSession(Header(Stored(own, sets))["session"]) = Session(own["session"], sets)
  <2> PICK jar : jar = Stored(own, sets) OBVIOUS
  <2>1. jar["session"] = Session(own["session"], sets) BY DEF Stored, Session, Names
  <2>2. sets["session"] # <<>> => Last(sets["session"]) \in Issued \cup {None}
    BY <1>4 DEF Last
  <2>3. jar["session"] \in Issued \cup {None} BY <1>2, <2>1, <2>2 DEF Session
  <2>4. Header(jar)["session"] = Values(jar["session"]) \o Values(tossed["session"])
    BY DEF Header, Names
  <2>5. GoSession(Header(jar)["session"]) = jar["session"] BY <1>2, <2>3, <2>4, Reads
  <2>6. QED BY <2>1, <2>5
<1>5. GoSession(Header(Stored(own, a.sets))["session"]) = Session(own["session"], a.sets)
  <2>1. a.sets["session"] \in Seq(Value) BY <1>1, SetsAre DEF Reply
  <2>2. QED BY <1>1, <1>4, <2>1 DEF Brings
<1>6. GoSession(Header(Stored(own, a.acted))["session"]) = Session(own["session"], a.acted)
  <2>1. a.acted \in AppSets BY <1>1 DEF Reply
  <2>2. a.acted["session"] \in Seq(Value) BY <2>1, SetsAre DEF AppSets
  <2>3. QED BY <1>4, <2>1, <2>2 DEF AppSets
<1>7. QED BY <1>3, <1>5, <1>6

\* RequestsInv holds in every state that a browser, its sibling domain and the
\* front server can reach: answers, jars and tokens; util.ts:349-690, server.ts.
THEOREM RequestsInvariance == RequestsSpec => []RequestsInv
<1>1. RequestsInit => RequestsInv BY RequestsInitially
<1>2. RequestsInv /\ [RequestsNext]_requestsVars => RequestsInv' BY RequestsStep
<1>3. QED BY <1>1, <1>2, PTL DEF RequestsSpec

\* What the api sets is in the answer, unless an exception ended the request:
\* docs/auth-and-sessions.md:20, util.ts:458-460, 647-690.
THEOREM CookiesReachBrowserAlways == RequestsSpec => []CookiesReachBrowser
BY RequestsInvariance, CookiesReach, PTL

\* What a tab shows was loaded with the session that the browser has from then on,
\* but for the two cases the property names; freshCookieHeader, util.ts:553-566.
THEOREM PageMatchesJarAlways == RequestsSpec => []PageMatchesJar
BY RequestsInvariance, PageMatches, PTL

\* A post is refused only for tokens that disagree, or for two first visits:
\* csrfRejects and the token that renderPage issues; util.ts:462-467.
THEOREM FormsAreAcceptedAlways == RequestsSpec => []FormsAreAccepted
BY RequestsInvariance, FormsAccepted, PTL

-----------------------------------------------------------------------------
(* The service worker, and the tree it reads.                              *)

BuildSteps == {"wipe", "emit", "list", "compress", "mark"}

BuildTypes ==
  /\ disk \in [entry : Nat, sibling : Nat, chunks : SUBSET Nat, manifest : Nat,
               mode : {"none", "production", "dev"}]
  /\ building \in {Nothing} \cup [mode : {"production", "dev"}, next : BuildSteps]
  /\ built \in Nat

Cache == [entry : Nat, chunks : SUBSET Nat, sure : BOOLEAN]
Install == [step : {"read", "fill", "activate"}, script : Nat, stamp : Nat \cup {Nothing},
            entry : Nat, chunks : SUBSET Nat, sure : BOOLEAN]

WorkerTypes ==
  /\ caches \in [1 .. MaxBuilds -> {Nothing} \cup Cache]
  /\ script \in Nat /\ installed \in Nat \cup {Nothing}
  /\ installing \in {Nothing} \cup Install
  /\ active \in BOOLEAN /\ looked \in BOOLEAN

WorkerTypeOK == BuildTypes /\ WorkerTypes

\* The manifest goes first and comes last.
BuildOrder ==
  /\ building # Nothing /\ building.next = "emit" => disk.manifest = 0
  /\ building # Nothing /\ building.next = "list" =>
       disk.manifest = 0 /\ disk.entry = built
  /\ disk.manifest # 0 => disk.entry = disk.manifest

\* What a worker that no build disturbed has read and fetched so far.
Installing ==
  /\ At("read") => installing.entry = 0 /\ installing.chunks = {}
  /\ At("fill") =>
       /\ installing.stamp \in Nat
       /\ installing.chunks \in {{}, {ChunkOf(installing.stamp)}}
       /\ installing.sure =>
            /\ disk.manifest # 0 /\ installing.stamp = disk.manifest
            /\ installing.entry \in {0, installing.stamp}

\* Inductive.
WorkerInv == WorkerTypeOK /\ BuildOrder /\ Installing /\ CacheIsItsBuild

-----------------------------------------------------------------------------
\* A chunk's name is a number.
LEMMA ChunkIsNat == ASSUME NEW v \in Nat PROVE ChunkOf(v) \in Nat
BY DEF ChunkOf

\* A step of a build, which marks every install under way as disturbed.
LEMMA BuildStep ==
  ASSUME WorkerInv, Build
  PROVE  WorkerInv'
<1>1. /\ UNCHANGED <<caches, script, installed, active>>
      /\ looked' = FALSE
      /\ installing' = IF installing = Nothing THEN Nothing ELSE [installing EXCEPT !.sure = FALSE]
      /\ BuildsStep
  BY DEF Build
<1>2. BuildTypes' /\ BuildOrder'
  <2> USE DEF WorkerInv, WorkerTypeOK, BuildTypes, BuildOrder, BuildSteps
  <2>1. CASE \E mode \in {"production", "dev"} : StartBuild(mode)
    BY <2>1 DEF StartBuild
  <2>2. CASE Wipe BY <2>2 DEF Wipe, Step
  <2>3. CASE Emit
    <3>1. ChunkOf(built) \in Nat BY ChunkIsNat
    <3>2. disk.chunks \cup {ChunkOf(built)} \in SUBSET Nat BY <3>1
    <3> QED BY <2>3, <3>2 DEF Emit, Step
  <2>4. CASE List BY <2>4 DEF List, Step, Stamp
  <2>5. CASE Compress BY <2>5 DEF Compress, Step
  <2>6. CASE Mark BY <2>6 DEF Mark, Step
  <2>7. CASE Kill BY <2>7 DEF Kill
  <2> QED BY <1>1, <2>1, <2>2, <2>3, <2>4, <2>5, <2>6, <2>7 DEF BuildsStep
<1>3. WorkerTypes'
  BY <1>1 DEF WorkerInv, WorkerTypeOK, WorkerTypes, Install
<1>4. Installing'
  <2>1. CASE installing = Nothing BY <2>1, <1>1 DEF Installing, At
  <2>2. CASE installing # Nothing
    <3>1. installing \in Install BY <2>2 DEF WorkerInv, WorkerTypeOK, WorkerTypes
    <3>2. installing' = [installing EXCEPT !.sure = FALSE] BY <2>2, <1>1
    <3>3. /\ installing'.step = installing.step /\ installing'.stamp = installing.stamp
          /\ installing'.entry = installing.entry /\ installing'.chunks = installing.chunks
          /\ installing'.sure = FALSE
      BY <3>1, <3>2 DEF Install
    <3> QED BY <2>2, <3>3 DEF WorkerInv, Installing, At
  <2> QED BY <2>1, <2>2
<1>5. CacheIsItsBuild'
  BY <1>1 DEF WorkerInv, CacheIsItsBuild, Filled
<1> QED BY <1>2, <1>3, <1>4, <1>5 DEF WorkerInv, WorkerTypeOK

\* A step of the browser leaves the tree alone.
LEMMA TreeStays ==
  ASSUME WorkerInv, UNCHANGED <<disk, building, built>>
  PROVE  BuildTypes' /\ BuildOrder'
BY DEF WorkerInv, WorkerTypeOK, BuildTypes, BuildOrder

\* A visit starts an install of which nothing is read yet.
LEMMA VisitStep ==
  ASSUME WorkerInv, Visit
  PROVE  WorkerInv'
<1>1. /\ UNCHANGED <<disk, building, built, caches, script, installed, active>>
      /\ looked' = TRUE
      /\ \/ installing' = [step |-> "read", script |-> script, stamp |-> Nothing,
                           entry |-> 0, chunks |-> {}, sure |-> TRUE]
         \/ installing' = installing
  BY DEF Visit
<1>2. BuildTypes' /\ BuildOrder' BY <1>1, TreeStays
<1>3. installing' \in {Nothing} \cup Install
  <2>1. script \in Nat /\ installing \in {Nothing} \cup Install
    BY DEF WorkerInv, WorkerTypeOK, WorkerTypes
  <2>2. [step |-> "read", script |-> script, stamp |-> Nothing,
         entry |-> 0, chunks |-> {}, sure |-> TRUE] \in Install
    BY <2>1 DEF Install
  <2> QED BY <1>1, <2>1, <2>2
<1>4. Installing' BY <1>1 DEF WorkerInv, Installing, At
<1>5. CacheIsItsBuild' BY <1>1 DEF WorkerInv, CacheIsItsBuild, Filled
<1>6. WorkerTypes' BY <1>1, <1>3 DEF WorkerInv, WorkerTypeOK, WorkerTypes
<1> QED BY <1>2, <1>4, <1>5, <1>6 DEF WorkerInv, WorkerTypeOK

\* The stamp that is read is the one of the entry beside it.
LEMMA ReadManifestStep ==
  ASSUME WorkerInv, ReadManifest
  PROVE  WorkerInv'
<1> DEFINE m == disk.manifest
<1>1. /\ UNCHANGED <<disk, building, built, script, installed, active, looked, loaded>>
      /\ At("read") /\ m # 0
      /\ installing' = [installing EXCEPT !.step = "fill", !.stamp = m]
      /\ caches' = [caches EXCEPT ![m] = IF @ = Nothing THEN Empty ELSE @]
  BY DEF ReadManifest
<1>2. BuildTypes' /\ BuildOrder' BY <1>1, TreeStays
<1>3. m \in Nat /\ disk'.manifest = m
  BY <1>1 DEF WorkerInv, WorkerTypeOK, BuildTypes
<1> HIDE DEF m
<1>4. installing \in Install BY <1>1 DEF WorkerInv, WorkerTypeOK, WorkerTypes, At
<1>5. installing' \in Install BY <1>1, <1>3, <1>4 DEF Install
<1>6. WorkerTypes'
  BY <1>1, <1>5 DEF WorkerInv, WorkerTypeOK, WorkerTypes, Empty, Cache
<1>7. Installing'
  BY <1>1, <1>3, <1>4 DEF WorkerInv, Installing, At, Install
<1>8. CacheIsItsBuild'
  BY <1>1 DEF WorkerInv, WorkerTypeOK, WorkerTypes, CacheIsItsBuild, Filled, Empty, Cache
<1> QED BY <1>2, <1>6, <1>7, <1>8 DEF WorkerInv, WorkerTypeOK

\* The entry that is fetched is the one the manifest is of, and so is the chunk.
LEMMA FetchStep ==
  ASSUME WorkerInv, FetchEntry \/ FetchChunk
  PROVE  WorkerInv'
<1>1. /\ UNCHANGED <<disk, building, built, caches, script, installed, active, looked, loaded>>
      /\ At("fill")
      /\ \/ installing' = [installing EXCEPT !.entry = disk.entry]
         \/ installing' = [installing EXCEPT !.chunks = {ChunkOf(installing.stamp)}]
  BY DEF FetchEntry, FetchChunk
<1>2. BuildTypes' /\ BuildOrder' BY <1>1, TreeStays
<1>3. installing \in Install BY <1>1 DEF WorkerInv, WorkerTypeOK, WorkerTypes, At
<1>4. installing.stamp \in Nat BY <1>1 DEF WorkerInv, Installing
<1>5. {ChunkOf(installing.stamp)} \in SUBSET Nat BY <1>4, ChunkIsNat
<1>6. installing' \in Install
  BY <1>1, <1>3, <1>5 DEF Install, WorkerInv, WorkerTypeOK, BuildTypes
<1>7. WorkerTypes' BY <1>1, <1>6 DEF WorkerInv, WorkerTypeOK, WorkerTypes
<1>8. Installing'
  BY <1>1, <1>3 DEF WorkerInv, Installing, BuildOrder, At, Install
<1>9. CacheIsItsBuild' BY <1>1 DEF WorkerInv, CacheIsItsBuild, Filled
<1> QED BY <1>2, <1>7, <1>8, <1>9 DEF WorkerInv, WorkerTypeOK

\* What an undisturbed worker has fetched is one build.
LEMMA FillStep ==
  ASSUME WorkerInv, Fill
  PROVE  WorkerInv'
<1> DEFINE i == installing
           new == [entry |-> i.entry, chunks |-> i.chunks, sure |-> i.sure]
<1>1. /\ UNCHANGED <<disk, building, built, script, active, looked, loaded>>
      /\ At("fill") /\ i.entry # 0 /\ i.chunks # {}
      /\ caches' = [caches EXCEPT ![i.stamp] = new]
      /\ installed' = i.script
      /\ installing' = [i EXCEPT !.step = "activate"]
  BY DEF Fill
<1>2. BuildTypes' /\ BuildOrder' BY <1>1, TreeStays
<1>3. i \in Install BY <1>1 DEF WorkerInv, WorkerTypeOK, WorkerTypes, At
<1>4. new \in Cache /\ installing' \in Install /\ installed' \in Nat
  BY <1>1, <1>3 DEF Install, Cache
<1>5. i.sure => i.entry = i.stamp /\ i.chunks = {ChunkOf(i.stamp)}
  BY <1>1 DEF WorkerInv, Installing
<1>6. new.entry = i.entry /\ new.chunks = i.chunks /\ new.sure = i.sure OBVIOUS
<1>7. Installing' BY <1>1, <1>3 DEF WorkerInv, Installing, At, Install
<1> HIDE DEF new
<1>8. WorkerTypes' BY <1>1, <1>4 DEF WorkerInv, WorkerTypeOK, WorkerTypes
<1>9. CacheIsItsBuild'
  <2> SUFFICES ASSUME NEW s \in 1 .. MaxBuilds, caches'[s] # Nothing, caches'[s].entry # 0,
                      caches'[s].sure
               PROVE  caches'[s].entry = s /\ caches'[s].chunks = {ChunkOf(s)}
    BY DEF CacheIsItsBuild, Filled
  <2>1. CASE s = i.stamp
    <3>1. caches'[s] = new BY <2>1, <1>1 DEF WorkerInv, WorkerTypeOK, WorkerTypes
    <3> QED BY <2>1, <3>1, <1>5, <1>6
  <2>2. CASE s # i.stamp
    <3>1. caches'[s] = caches[s] BY <2>2, <1>1 DEF WorkerInv, WorkerTypeOK, WorkerTypes
    <3> QED BY <3>1 DEF WorkerInv, CacheIsItsBuild, Filled
  <2> QED BY <2>1, <2>2
<1> QED BY <1>2, <1>7, <1>8, <1>9 DEF WorkerInv, WorkerTypeOK

\* An install that fails, and the end of one.
LEMMA EndStep ==
  ASSUME WorkerInv, InstallFails \/ Activate
  PROVE  WorkerInv'
<1>1. /\ UNCHANGED <<disk, building, built, script, installed, looked, loaded>>
      /\ installing' = Nothing /\ active' \in BOOLEAN
  BY DEF InstallFails, Activate, WorkerInv, WorkerTypeOK, WorkerTypes
<1>2. \/ caches' = caches
      \/ caches' = [s \in 1 .. MaxBuilds |->
                      IF disk.manifest \in {0, s} THEN caches[s] ELSE Nothing]
  BY DEF InstallFails, Activate
<1>3. BuildTypes' /\ BuildOrder' BY <1>1, TreeStays
<1>4. caches' \in [1 .. MaxBuilds -> {Nothing} \cup Cache]
  <2>1. caches \in [1 .. MaxBuilds -> {Nothing} \cup Cache]
    BY DEF WorkerInv, WorkerTypeOK, WorkerTypes
  <2> DEFINE m == disk.manifest
  <2>2. CASE caches' = caches BY <2>1, <2>2
  <2>3. CASE caches' = [s \in 1 .. MaxBuilds |-> IF m \in {0, s} THEN caches[s] ELSE Nothing]
    <3> HIDE DEF m
    <3> QED BY <2>1, <2>3
  <2> QED BY <1>2, <2>2, <2>3
<1>5. WorkerTypes' BY <1>1, <1>4 DEF WorkerInv, WorkerTypeOK, WorkerTypes
<1>6. Installing' BY <1>1 DEF Installing, At
<1>7. \A s \in 1 .. MaxBuilds : caches'[s] = caches[s] \/ caches'[s] = Nothing
  BY <1>2
<1>8. CacheIsItsBuild' BY <1>7 DEF WorkerInv, CacheIsItsBuild, Filled
<1> QED BY <1>3, <1>5, <1>6, <1>8 DEF WorkerInv, WorkerTypeOK

\* An edit of sw.js, or no step at all.
LEMMA EditStep ==
  ASSUME WorkerInv, Edit \/ UNCHANGED workerVars
  PROVE  WorkerInv'
<1>1. /\ UNCHANGED <<disk, building, built, caches, installed, installing, active>>
      /\ script' \in Nat /\ looked' \in BOOLEAN
  <2>1. script \in Nat /\ looked \in BOOLEAN
    BY DEF WorkerInv, WorkerTypeOK, WorkerTypes
  <2>2. CASE Edit
    <3>1. looked' = FALSE BY <2>2 DEF Edit
    <3>2. script' \in Nat BY <2>1, <2>2 DEF Edit
    <3> QED BY <2>2, <3>1, <3>2 DEF Edit
  <2>3. CASE UNCHANGED workerVars BY <2>1, <2>3 DEF workerVars
  <2> QED BY <2>2, <2>3
<1>2. BuildTypes' /\ BuildOrder' BY <1>1, TreeStays
<1>3. WorkerTypes' BY <1>1 DEF WorkerInv, WorkerTypeOK, WorkerTypes
<1>4. Installing' /\ CacheIsItsBuild'
  BY <1>1 DEF WorkerInv, Installing, At, CacheIsItsBuild, Filled
<1> QED BY <1>2, <1>3, <1>4 DEF WorkerInv, WorkerTypeOK

-----------------------------------------------------------------------------
\* Nothing is built, nothing is cached.
LEMMA WorkerStarts == WorkerInit => WorkerInv
<1> SUFFICES ASSUME WorkerInit PROVE WorkerInv OBVIOUS
<1>1. WorkerTypeOK
  BY DEF WorkerInit, BuildsInit, WorkerTypeOK, BuildTypes, WorkerTypes
<1>2. BuildOrder /\ Installing /\ CacheIsItsBuild
  BY DEF WorkerInit, BuildsInit, BuildOrder, Installing, At, CacheIsItsBuild, Filled
<1> QED BY <1>1, <1>2 DEF WorkerInv

LEMMA WorkerSteps == WorkerInv /\ [WorkerNext]_workerVars => WorkerInv'
BY BuildStep, VisitStep, ReadManifestStep, FetchStep, FillStep, EndStep, EditStep
   DEF WorkerNext

\* The invariant of the worker and of the tree it reads, which builds keep writing;
\* pwa.ts, build.ts:303-334.
THEOREM WorkerInvariance == WorkerSpec => []WorkerInv
BY WorkerStarts, WorkerSteps, PTL DEF WorkerSpec

\* Whatever builds were killed and installs disturbed before, a cache that was
\* filled while no build wrote holds the build that its stamp names;
\* build.ts:303-307, 325-334, pwa.ts:50.
THEOREM CacheIsItsBuildAlways == WorkerSpec => []CacheIsItsBuild
<1>1. WorkerInv => CacheIsItsBuild BY DEF WorkerInv
<1> QED BY <1>1, WorkerInvariance, PTL

-----------------------------------------------------------------------------
(* Static files.                                                           *)

\* The tree as the builds leave it: the sibling is of the entry beside it.
TreeOrder ==
  /\ disk.sibling \in {0, disk.entry} /\ disk.entry <= built
  /\ building # Nothing /\ building.next = "emit" => disk.sibling = 0
  /\ building # Nothing /\ building.next \in {"list", "compress"} => disk.entry = built

\* The oldest build that the entry may be of from now on.
Horizon == IF disk.entry = 0 THEN built ELSE disk.entry

File == (Nat \X Encodings)
Index == [identity : Nat, br : Nat]
Copy == [tag : {Nothing} \cup File, parts : SUBSET File,
         whole : BOOLEAN, sure : BOOLEAN, checked : BOOLEAN]

AssetsTypeOK == BuildTypes /\ index \in {Nothing} \cup Index /\ copy \in {Nothing} \cup Copy

IndexOrder ==
  index # Nothing => index.identity <= Horizon /\ index.br \in {0, index.identity}

\* What is known of a copy, partial ones included: its bytes are of the build its tag
\* is of, unless no server will stand by that tag again.
CopyOrder ==
  copy # Nothing =>
    /\ copy.tag # Nothing =>
         /\ copy.tag[1] <= Horizon
         /\ copy.tag[1] = Horizon => \A file \in copy.parts : file[1] = copy.tag[1]
    /\ copy.sure =>
         copy.parts = {copy.tag} \/ (copy.tag = Nothing /\ \E file \in File : copy.parts = {file})
    /\ copy.checked /\ IndexIsTrue => \A file \in copy.parts : file[1] = disk.entry

\* Inductive.
AssetsInv == AssetsTypeOK /\ TreeOrder /\ IndexOrder /\ CopyOrder

\* What a step of a build keeps, and that no build goes back.
LEMMA TreeStep ==
  ASSUME BuildTypes, TreeOrder, BuildsStep
  PROVE  BuildTypes' /\ TreeOrder' /\ Horizon <= Horizon'
<1> USE DEF BuildTypes, TreeOrder, BuildSteps, Horizon
<1>1. CASE \E mode \in {"production", "dev"} : StartBuild(mode) BY <1>1 DEF StartBuild
<1>2. CASE Wipe
  <2>1. BuildTypes' BY <1>2 DEF Wipe, Step
  <2>2. disk'.entry = 0 /\ disk'.sibling = 0 /\ built' = built /\ building'.next = "emit"
    BY <1>2 DEF Wipe, Step
  <2> QED BY <2>1, <2>2
<1>3. CASE Emit
  <2>1. disk.chunks \cup {ChunkOf(built)} \in SUBSET Nat BY ChunkIsNat
  <2>2. BuildTypes' BY <1>3, <2>1 DEF Emit, Step
  <2>3. /\ disk'.entry = built /\ disk'.sibling = disk.sibling /\ disk.sibling = 0
        /\ built' = built /\ building'.next # "emit"
    BY <1>3 DEF Emit, Step
  <2> QED BY <2>2, <2>3
<1>4. CASE List BY <1>4 DEF List, Step, Stamp
<1>5. CASE Compress BY <1>5 DEF Compress, Step
<1>6. CASE Mark BY <1>6 DEF Mark, Step
<1>7. CASE Kill BY <1>7 DEF Kill
<1> QED BY <1>1, <1>2, <1>3, <1>4, <1>5, <1>6, <1>7 DEF BuildsStep

LEMMA HorizonIsNat == BuildTypes => Horizon \in Nat
BY DEF BuildTypes, Horizon

\* A copy that is not looked at again is spoilt only by later builds.
LEMMA UncheckedKeeps ==
  ASSUME AssetsInv, copy' = Unchecked, BuildTypes', Horizon <= Horizon'
  PROVE  CopyOrder' /\ copy' \in {Nothing} \cup Copy
<1>1. CASE copy = Nothing BY <1>1 DEF Unchecked, CopyOrder
<1>2. CASE copy # Nothing
  <2> PICK c \in Copy : c = copy BY <1>2 DEF AssetsInv, AssetsTypeOK
  <2> PICK d : d = copy' OBVIOUS
  <2>1. d = [c EXCEPT !.checked = FALSE] BY <1>2 DEF Unchecked
  <2>2. d.tag = c.tag /\ d.parts = c.parts /\ d.sure = c.sure /\ d.checked = FALSE /\ d \in Copy
    BY <2>1 DEF Copy
  <2>3. /\ c.tag # Nothing =>
             /\ c.tag[1] <= Horizon
             /\ c.tag[1] = Horizon => \A file \in c.parts : file[1] = c.tag[1]
        /\ c.sure =>
             \/ c.parts = {c.tag}
             \/ c.tag = Nothing /\ \E file \in File : c.parts = {file}
    BY <1>2 DEF AssetsInv, CopyOrder
  <2>4. c.tag # Nothing => c.tag[1] \in Nat BY DEF Copy, File
  <2>5. Horizon \in Nat /\ Horizon' \in Nat
    BY HorizonIsNat DEF AssetsInv, AssetsTypeOK, BuildTypes, Horizon
  <2>6. c.tag # Nothing =>
          /\ c.tag[1] <= Horizon'
          /\ c.tag[1] = Horizon' => \A file \in c.parts : file[1] = c.tag[1]
    BY <2>3, <2>4, <2>5
  <2>7. QED BY <2>2, <2>3, <2>6 DEF CopyOrder
<1>3. QED BY <1>1, <1>2

LEMMA BuildingKeeps ==
  ASSUME AssetsInv, BuildsStep, copy' = Unchecked, UNCHANGED index
  PROVE  AssetsInv'
<1>1. BuildTypes' /\ TreeOrder' /\ Horizon <= Horizon'
  BY TreeStep DEF AssetsInv, AssetsTypeOK
<1>2. CopyOrder' /\ copy' \in {Nothing} \cup Copy BY <1>1, UncheckedKeeps
<1>3. Horizon \in Nat /\ Horizon' \in Nat
  BY <1>1, HorizonIsNat DEF AssetsInv, AssetsTypeOK, BuildTypes, Horizon
<1>4. index # Nothing => index \in Index BY DEF AssetsInv, AssetsTypeOK
<1>5. IndexOrder' BY <1>1, <1>3, <1>4 DEF AssetsInv, IndexOrder, Index
<1>6. QED BY <1>1, <1>2, <1>5 DEF AssetsInv, AssetsTypeOK

LEMMA BootKeeps == ASSUME AssetsInv, Boot \/ BootDev PROVE AssetsInv'
<1>1. /\ UNCHANGED <<disk, building, built>> /\ copy' = Unchecked /\ disk.entry # 0
      /\ \/ index' = [identity |-> disk.entry, br |-> disk.sibling]
         \/ index' = [identity |-> 0, br |-> 0]
  BY DEF Boot, BootDev, buildsVars
<1>2. BuildTypes /\ TreeOrder BY DEF AssetsInv, AssetsTypeOK
<1>3. BuildTypes' /\ TreeOrder' /\ Horizon' = Horizon /\ Horizon \in Nat
  BY <1>1, <1>2, HorizonIsNat DEF BuildTypes, TreeOrder, Horizon
<1>4. CopyOrder' /\ copy' \in {Nothing} \cup Copy BY <1>1, <1>3, UncheckedKeeps
<1>5. disk.entry \in Nat /\ disk.sibling \in Nat /\ disk.sibling \in {0, disk.entry}
      /\ Horizon = disk.entry
  BY <1>1, <1>2 DEF BuildTypes, TreeOrder, Horizon
<1>6. IndexOrder' /\ index' \in Index BY <1>1, <1>3, <1>5 DEF IndexOrder, Index
<1>7. QED BY <1>3, <1>4, <1>6 DEF AssetsInv, AssetsTypeOK

-----------------------------------------------------------------------------
\* What is sent is of the entry; as long as the index is true, its tag is too.
LEMMA Chosen ==
  ASSUME AssetsInv, NEW accepted \in Encodings, disk.entry # 0, index # Nothing
  PROVE  LET encoding == Choice(accepted)
         IN /\ encoding \in Encodings
            /\ Body(encoding) \in File /\ Body(encoding)[1] = disk.entry
            /\ Tag(encoding) \in {Nothing} \cup File
            /\ Horizon = disk.entry
            /\ Indexed => /\ Tag(encoding)[1] = index.identity
                          /\ Tag(encoding)[1] <= Horizon
                          /\ IndexIsTrue <=> index.identity = disk.entry
                          /\ IndexIsTrue => Body(encoding) = Tag(encoding)
            /\ ~Indexed => Tag(encoding) = Nothing
<1> PICK encoding : encoding = Choice(accepted) OBVIOUS
<1>1. /\ encoding \in Encodings
      /\ encoding = "br" => disk.sibling # 0 /\ (Indexed => index.br # 0)
  BY DEF Choice, Encodings
<1>2. /\ disk.entry \in Nat /\ disk.sibling \in {0, disk.entry} /\ Horizon = disk.entry
      /\ index.identity \in Nat /\ index.br \in {0, index.identity} /\ index.br \in Nat
      /\ index.identity <= Horizon /\ index \in Index
  BY DEF AssetsInv, AssetsTypeOK, BuildTypes, TreeOrder, IndexOrder, Horizon, Index
<1>3. Body(encoding) = <<disk.entry, encoding>> BY <1>1, <1>2 DEF Body
<1>4. Body(encoding) \in File BY <1>1, <1>2, <1>3 DEF File
<1>5. CASE Indexed
  <2>1. index[encoding] = index.identity
    <3>1. CASE encoding = "br" BY <1>1, <1>2, <1>5, <3>1
    <3>2. CASE encoding = "identity" BY <3>2
    <3>3. QED BY <1>1, <3>1, <3>2 DEF Encodings
  <2>2. Tag(encoding) = <<index.identity, encoding>> BY <1>5, <2>1 DEF Tag
  <2>3. IndexIsTrue <=> index.identity = disk.entry BY <1>2, <1>5 DEF IndexIsTrue
  <2>4. QED BY <1>1, <1>2, <1>3, <1>4, <1>5, <2>2, <2>3 DEF File
<1>6. CASE ~Indexed BY <1>1, <1>2, <1>3, <1>4, <1>6 DEF Tag
<1>7. QED BY <1>5, <1>6

\* A copy that is kept or taken anew, while tree and index stay.
LEMMA CopyKeeps ==
  ASSUME AssetsInv, NEW c \in Copy, copy' = c, UNCHANGED <<disk, building, built, index>>,
         c.tag # Nothing =>
           /\ c.tag[1] <= Horizon
           /\ c.tag[1] = Horizon => \A file \in c.parts : file[1] = c.tag[1],
         c.sure =>
           c.parts = {c.tag} \/ (c.tag = Nothing /\ \E file \in File : c.parts = {file}),
         c.checked /\ IndexIsTrue => \A file \in c.parts : file[1] = disk.entry
  PROVE  AssetsInv'
<1>1. BuildTypes' /\ TreeOrder' /\ index' \in {Nothing} \cup Index
  BY DEF AssetsInv, AssetsTypeOK, BuildTypes, TreeOrder
<1>2. Horizon' = Horizon /\ (IndexIsTrue' <=> IndexIsTrue)
  BY DEF Horizon, IndexIsTrue, Indexed
<1>3. IndexOrder' BY <1>2 DEF AssetsInv, IndexOrder
<1>4. CopyOrder' BY <1>2 DEF CopyOrder
<1>5. QED BY <1>1, <1>3, <1>4 DEF AssetsInv, AssetsTypeOK

LEMMA ServedKeeps ==
  ASSUME AssetsInv, NEW accepted \in Encodings, index # Nothing, Served(Choice(accepted)),
         UNCHANGED <<disk, building, built, index>>
  PROVE  AssetsInv'
<1> PICK tag : tag = Tag(Choice(accepted)) OBVIOUS
<1> PICK file : file = Body(Choice(accepted)) OBVIOUS
<1>1. disk.entry # 0 BY DEF Served
<1>2. PICK whole \in BOOLEAN :
        copy' = [tag |-> tag, parts |-> {file}, whole |-> whole,
                 sure |-> IndexIsTrue, checked |-> whole]
  BY DEF Served, Sent
<1>3. /\ file \in File /\ file[1] = disk.entry /\ tag \in {Nothing} \cup File
      /\ Horizon = disk.entry
      /\ Indexed => /\ tag[1] <= Horizon /\ (IndexIsTrue => file = tag)
                    /\ tag[1] = index.identity /\ (IndexIsTrue <=> index.identity = disk.entry)
      /\ ~Indexed => tag = Nothing
  BY <1>1, Chosen
<1>4. IndexIsTrue \in BOOLEAN BY DEF IndexIsTrue
<1> PICK c : c = copy' OBVIOUS
<1>5. c \in Copy BY <1>2, <1>3, <1>4 DEF Copy
<1>6. c.tag = tag /\ c.parts = {file} /\ (c.sure <=> IndexIsTrue) /\ c.checked = whole
  BY <1>2, <1>4
<1>7. c.tag # Nothing =>
        /\ c.tag[1] <= Horizon
        /\ c.tag[1] = Horizon => \A f \in c.parts : f[1] = c.tag[1]
  BY <1>3, <1>6
<1>8. c.sure => c.parts = {c.tag} \/ (c.tag = Nothing /\ \E f \in File : c.parts = {f})
  BY <1>3, <1>6
<1>9. c.checked /\ IndexIsTrue => \A f \in c.parts : f[1] = disk.entry BY <1>3, <1>6
<1>10. QED BY <1>5, <1>7, <1>8, <1>9, CopyKeeps

LEMMA GetKeeps == ASSUME AssetsInv, Get PROVE AssetsInv'
<1>1. index # Nothing /\ UNCHANGED <<disk, building, built, index>> BY DEF Get
<1>2. PICK accepted \in Encodings :
        IF copy # Nothing /\ copy.whole /\ IsNotModified(copy.tag, Choice(accepted))
        THEN copy' = [copy EXCEPT !.checked = TRUE]
        ELSE Served(Choice(accepted))
  BY DEF Get
<1>3. CASE Served(Choice(accepted)) BY <1>1, <1>3, ServedKeeps
<1>4. CASE copy # Nothing /\ IsNotModified(copy.tag, Choice(accepted))
           /\ copy' = [copy EXCEPT !.checked = TRUE]
  <2> PICK c \in Copy : c = copy BY <1>4 DEF AssetsInv, AssetsTypeOK
  <2> PICK d : d = copy' OBVIOUS
  <2>1. d = [c EXCEPT !.checked = TRUE] BY <1>4
  <2>2. d.tag = c.tag /\ d.parts = c.parts /\ d.sure = c.sure /\ d.checked = TRUE /\ d \in Copy
    BY <2>1 DEF Copy
  <2>3. /\ c.tag # Nothing =>
             /\ c.tag[1] <= Horizon
             /\ c.tag[1] = Horizon => \A file \in c.parts : file[1] = c.tag[1]
        /\ c.sure =>
             \/ c.parts = {c.tag}
             \/ c.tag = Nothing /\ \E file \in File : c.parts = {file}
    BY <1>4 DEF AssetsInv, CopyOrder
  <2>4. Indexed /\ c.tag = Tag(Choice(accepted)) BY <1>4 DEF IsNotModified
  <2>5. IndexIsTrue => \A file \in c.parts : file[1] = disk.entry
    <3> SUFFICES ASSUME IndexIsTrue PROVE \A file \in c.parts : file[1] = disk.entry OBVIOUS
    <3>1. disk.entry # 0 BY <2>4 DEF Indexed, IndexIsTrue
    <3>2. c.tag[1] = disk.entry /\ Horizon = disk.entry
          /\ c.tag = Body(Choice(accepted)) /\ c.tag \in File
      BY <1>1, <2>4, <3>1, Chosen
    <3>3. CASE c.tag # Nothing BY <2>3, <3>2, <3>3
    <3>4. CASE c.tag = Nothing
      <4>1. Nothing \notin File BY AssetsAssumption DEF File
      <4>2. QED BY <3>2, <3>4, <4>1
    <3>5. QED BY <3>3, <3>4
  <2>6. QED BY <1>1, <2>2, <2>3, <2>5, CopyKeeps
<1>5. QED BY <1>2, <1>3, <1>4

LEMMA ResumeKeeps == ASSUME AssetsInv, Resume PROVE AssetsInv'
<1>1. /\ index # Nothing /\ copy # Nothing /\ copy.tag # Nothing
      /\ UNCHANGED <<disk, building, built, index>>
  BY DEF Resume
<1>2. PICK accepted \in Encodings :
        IF Indexed /\ IsRangeStale(copy.tag, Choice(accepted)) THEN Served(Choice(accepted))
        ELSE /\ disk.entry # 0
             /\ copy' = [copy EXCEPT !.parts = @ \cup {Body(Choice(accepted))}, !.whole = TRUE,
                           !.sure = @ /\ Indexed /\ IndexIsTrue, !.checked = Indexed]
  BY DEF Resume
<1>3. CASE Served(Choice(accepted)) BY <1>1, <1>3, ServedKeeps
<1>4. CASE ~Served(Choice(accepted))
  <2> PICK tag : tag = Tag(Choice(accepted)) OBVIOUS
  <2> PICK file : file = Body(Choice(accepted)) OBVIOUS
  <2> PICK c \in Copy : c = copy BY <1>1 DEF AssetsInv, AssetsTypeOK
  <2> PICK d : d = copy' OBVIOUS
  <2> PICK sure \in BOOLEAN : sure <=> c.sure /\ Indexed /\ IndexIsTrue OBVIOUS
  <2> PICK indexed \in BOOLEAN : indexed <=> Indexed OBVIOUS
  <2>1. disk.entry # 0 /\ (Indexed => c.tag = tag) BY <1>2, <1>4 DEF IsRangeStale
  <2>2. d = [c EXCEPT !.parts = c.parts \cup {file}, !.whole = TRUE,
                      !.sure = (c.sure /\ Indexed /\ IndexIsTrue), !.checked = Indexed]
    BY <1>2, <1>4
  <2>3. /\ file \in File /\ file[1] = disk.entry /\ Horizon = disk.entry
        /\ Indexed => /\ tag[1] = index.identity /\ (IndexIsTrue => file = tag)
                      /\ (IndexIsTrue <=> index.identity = disk.entry)
    BY <1>1, <2>1, Chosen
  <2>4. /\ d.tag = c.tag /\ d.parts = c.parts \cup {file} /\ d.whole = TRUE
        /\ d.sure = (c.sure /\ Indexed /\ IndexIsTrue) /\ d.checked = Indexed
    BY <2>2 DEF Copy
  <2>5. d \in Copy
    <3>1. Indexed \in BOOLEAN BY DEF Indexed
    <3>2. (c.sure /\ Indexed /\ IndexIsTrue) \in BOOLEAN OBVIOUS
    <3>3. c.parts \cup {file} \in SUBSET File BY <2>3 DEF Copy
    <3>4. QED BY <2>2, <3>1, <3>2, <3>3 DEF Copy
  <2>6. /\ c.tag # Nothing =>
             /\ c.tag[1] <= Horizon
             /\ c.tag[1] = Horizon => \A f \in c.parts : f[1] = c.tag[1]
        /\ c.sure =>
             \/ c.parts = {c.tag}
             \/ c.tag = Nothing /\ \E f \in File : c.parts = {f}
    BY <1>1 DEF AssetsInv, CopyOrder
  <2>7. d.tag # Nothing =>
          /\ d.tag[1] <= Horizon
          /\ d.tag[1] = Horizon => \A f \in d.parts : f[1] = d.tag[1]
    BY <2>3, <2>4, <2>6
  <2>8. d.sure => d.parts = {d.tag}
    <3> SUFFICES ASSUME c.sure, Indexed, IndexIsTrue PROVE d.parts = {d.tag} BY <2>4
    <3>1. c.parts = {c.tag} /\ c.tag = tag BY <1>1, <2>1, <2>6
    <3>2. file = tag BY <2>3
    <3>3. QED BY <2>4, <3>1, <3>2
  <2>9. d.checked /\ IndexIsTrue => \A f \in d.parts : f[1] = disk.entry
    <3> SUFFICES ASSUME Indexed, IndexIsTrue PROVE \A f \in d.parts : f[1] = disk.entry
      BY <2>4
    <3>1. c.tag[1] = Horizon BY <2>1, <2>3
    <3>2. QED BY <1>1, <2>3, <2>4, <2>7, <3>1
  <2>10. QED BY <1>1, <2>5, <2>7, <2>8, <2>9, CopyKeeps
<1>5. QED BY <1>3, <1>4

LEMMA AssetsInitially == AssetsInit => AssetsInv
<1> SUFFICES ASSUME AssetsInit PROVE AssetsInv OBVIOUS
<1>1. /\ disk = [entry |-> 0, sibling |-> 0, chunks |-> {}, manifest |-> 0, mode |-> "none"]
      /\ building = Nothing /\ built = 0 /\ index = Nothing /\ copy = Nothing
  BY DEF AssetsInit, BuildsInit
<1>2. AssetsTypeOK BY <1>1 DEF AssetsTypeOK, BuildTypes
<1>3. TreeOrder /\ IndexOrder /\ CopyOrder BY <1>1 DEF TreeOrder, IndexOrder, CopyOrder
<1>4. QED BY <1>2, <1>3 DEF AssetsInv

LEMMA AssetsStep == AssetsInv /\ [AssetsNext]_assetsVars => AssetsInv'
<1> SUFFICES ASSUME AssetsInv, [AssetsNext]_assetsVars PROVE AssetsInv' OBVIOUS
<1>1. CASE BuildsStep /\ copy' = Unchecked /\ UNCHANGED index BY <1>1, BuildingKeeps
<1>2. CASE Boot \/ BootDev BY <1>2, BootKeeps
<1>3. CASE Get BY <1>3, GetKeeps
<1>4. CASE Resume BY <1>4, ResumeKeeps
<1>5. CASE UNCHANGED assetsVars
  <2>1. UNCHANGED <<disk, building, built, index, copy>> BY <1>5 DEF assetsVars
  <2>2. CASE copy = Nothing
    <3>1. BuildTypes' /\ TreeOrder' /\ index' \in {Nothing} \cup Index
      BY <2>1 DEF AssetsInv, AssetsTypeOK, BuildTypes, TreeOrder
    <3>2. IndexOrder' /\ CopyOrder'
      BY <2>1, <2>2 DEF AssetsInv, IndexOrder, CopyOrder, Horizon
    <3>3. QED BY <2>1, <2>2, <3>1, <3>2 DEF AssetsInv, AssetsTypeOK
  <2>3. CASE copy # Nothing
    <3> PICK c \in Copy : c = copy BY <2>3 DEF AssetsInv, AssetsTypeOK
    <3>1. QED BY <2>1, <2>3, CopyKeeps DEF AssetsInv, CopyOrder
  <2>4. QED BY <2>2, <2>3
<1>6. QED BY <1>1, <1>2, <1>3, <1>4, <1>5 DEF AssetsNext

LEMMA TrueCopies == AssetsInv => CopiesAreTrue
<1> SUFFICES ASSUME AssetsInv, copy # Nothing, copy.whole
    PROVE  /\ copy.sure => IF copy.tag = Nothing THEN Cardinality(copy.parts) = 1
                                             ELSE copy.parts = {copy.tag}
           /\ copy.checked /\ IndexIsTrue => \A file \in copy.parts : file[1] = disk.entry
  BY DEF CopiesAreTrue
<1>1. copy.sure =>
        copy.parts = {copy.tag} \/ (copy.tag = Nothing /\ \E file \in File : copy.parts = {file})
  BY DEF AssetsInv, CopyOrder
<1>2. \A file : Cardinality({file}) = 1 BY FS_Singleton
<1>3. copy.sure => IF copy.tag = Nothing THEN Cardinality(copy.parts) = 1
                                        ELSE copy.parts = {copy.tag}
  BY <1>1, <1>2
<1>4. QED BY <1>3 DEF AssetsInv, CopyOrder

\* AssetsInv holds whatever builds, boots and requests follow each other: the tree,
\* the index that a server takes of it once, and a client's copy; compress.ts.
THEOREM AssetsInvariance == AssetsSpec => []AssetsInv
<1>1. AssetsInit => AssetsInv BY AssetsInitially
<1>2. AssetsInv /\ [AssetsNext]_assetsVars => AssetsInv' BY AssetsStep
<1>3. QED BY <1>1, <1>2, PTL DEF AssetsSpec

\* A complete copy is one file, the one its tag stands for, and of the current build
\* once it was checked; compress.ts:77-82, 154, 169-178.
THEOREM CopiesAreTrueAlways == AssetsSpec => []CopiesAreTrue
BY AssetsInvariance, TrueCopies, PTL

-----------------------------------------------------------------------------
(* Routes: what the operators on sequences compute.  Induction over the    *)
(* naturals is that a set with 0 and all successors has them all.          *)

LEMMA LeastOf == ASSUME NEW T \in SUBSET Nat, T # {} PROVE \E m \in T : \A k \in T : m <= k
<1> DEFINE R == OpToRel(<, Nat)
<1>1. \E m \in T : \A k \in T : ~ (<<k, m>> \in R)
  <2>1. IsWellFoundedOn(R, Nat) BY NatLessThanWellFounded
  <2> HIDE DEF R
  <2>2. QED BY <2>1, WFMin
<1>2. \A k, m \in Nat : k < m => <<k, m>> \in R BY DEF OpToRel
<1> HIDE DEF R
<1>3. PICK m \in T : \A k \in T : ~ (<<k, m>> \in R) BY <1>1
<1>4. ASSUME NEW k \in T PROVE m <= k
  <2>1. ~ (k < m) BY <1>2, <1>3
  <2>2. QED BY <2>1
<1>5. QED BY <1>4

LEMMA NatsAreInductive ==
  ASSUME NEW T, 0 \in T, \A n \in Nat : n \in T => n + 1 \in T
  PROVE  Nat \subseteq T
<1> SUFFICES ASSUME ~(Nat \subseteq T) PROVE FALSE OBVIOUS
<1> DEFINE Missing == Nat \ T
<1>1. Missing \in SUBSET Nat /\ Missing # {} OBVIOUS
<1> HIDE DEF Missing
<1>2. PICK m \in Missing : \A k \in Missing : m <= k BY <1>1, LeastOf
<1>3. m \in Nat /\ m \notin T BY <1>2 DEF Missing
<1>4. m - 1 \in Nat BY <1>3
<1>5. m - 1 \in T BY <1>2, <1>4 DEF Missing
<1>6. QED BY <1>3, <1>4, <1>5

LEMMA MinIsLeast ==
  ASSUME NEW T \in SUBSET Nat, T # {} PROVE Min(T) \in T /\ \A k \in T : Min(T) <= k
<1>1. \E m \in T : \A k \in T : m <= k BY LeastOf
<1>2. QED BY <1>1 DEF Min

\* FlattenSeq, one sequence after the other.
IsFlattening(f, s, n) ==
  f[0] = <<>> /\ \A i \in 1 .. n : f[i] = f[i - 1] \o s[i]

LEMMA FlatteningGrows ==
  ASSUME NEW X, NEW s \in Seq(Seq(X)), NEW n \in Nat, n + 1 <= Len(s),
         NEW f \in [0 .. n -> Seq(X)], IsFlattening(f, s, n)
  PROVE  \E g \in [0 .. n + 1 -> Seq(X)] : IsFlattening(g, s, n + 1)
<1> DEFINE g == [i \in 0 .. n + 1 |-> IF i = n + 1 THEN f[n] \o s[n + 1] ELSE f[i]]
<1>1. Len(s) \in Nat BY LenProperties
<1>2. s[n + 1] \in Seq(X) BY <1>1, ElementOfSeq
<1>3. f[n] \o s[n + 1] \in Seq(X) BY <1>2, ConcatProperties
<1>4. g \in [0 .. n + 1 -> Seq(X)] BY <1>3
<1>5. g[0] = <<>> BY DEF IsFlattening
<1>6. ASSUME NEW i \in 1 .. n + 1 PROVE g[i] = g[i - 1] \o s[i]
  <2>1. CASE i = n + 1
    <3>1. i \in 0 .. n + 1 /\ i - 1 \in 0 .. n + 1 /\ i - 1 # n + 1 /\ i - 1 = n BY <2>1
    <3>2. g[i] = f[n] \o s[n + 1] BY <2>1, <3>1
    <3>3. g[i - 1] = f[n] BY <3>1
    <3>4. QED BY <2>1, <3>2, <3>3
  <2>2. CASE i # n + 1
    <3>1. i \in 1 .. n BY <2>2
    <3>2. g[i] = f[i] /\ g[i - 1] = f[i - 1] BY <3>1
    <3>3. QED BY <3>1, <3>2 DEF IsFlattening
  <2>3. QED BY <2>1, <2>2
<1> HIDE DEF g
<1>7. QED BY <1>4, <1>5, <1>6 DEF IsFlattening

LEMMA FlatteningExists ==
  ASSUME NEW X, NEW s \in Seq(Seq(X))
  PROVE  \E f \in [0 .. Len(s) -> Seq(X)] : IsFlattening(f, s, Len(s))
<1> DEFINE Reached(m) == \E f \in [0 .. m -> Seq(X)] : IsFlattening(f, s, m)
           T == {m \in Nat : m <= Len(s) => Reached(m)}
<1>1. Reached(0)
  <2> DEFINE f == [i \in 0 .. 0 |-> <<>>]
  <2>1. <<>> \in Seq(X) BY EmptySeq
  <2>2. f \in [0 .. 0 -> Seq(X)] /\ IsFlattening(f, s, 0) BY <2>1 DEF IsFlattening
  <2>3. QED BY <2>2
<1>2. ASSUME NEW n \in Nat, n + 1 <= Len(s), Reached(n) PROVE Reached(n + 1)
  BY <1>2, FlatteningGrows
<1>3. Len(s) \in Nat BY LenProperties
<1>4. Reached(Len(s))
  <2> HIDE DEF Reached
  <2>1. 0 \in T BY <1>1
  <2>2. \A n \in Nat : n \in T => n + 1 \in T BY <1>2, <1>3
  <2> HIDE DEF T
  <2>3. Nat \subseteq T BY <2>1, <2>2, NatsAreInductive
  <2>4. QED BY <1>3, <2>3 DEF T
<1>5. QED BY <1>4

LEMMA Flattening ==
  ASSUME NEW X, NEW s \in Seq(Seq(X))
  PROVE  \E f \in [0 .. Len(s) -> Seq(X)] :
           IsFlattening(f, s, Len(s)) /\ FlattenSeq(s) = f[Len(s)]
<1>0. Len(s) \in Nat BY LenProperties
<1>1. PICK f \in [0 .. Len(s) -> Seq(X)] : IsFlattening(f, s, Len(s)) BY FlatteningExists
<1>2. CASE Len(s) = 0
  <2>1. s = <<>> BY <1>2, EmptySeq
  <2>2. FlattenSeq(s) = s BY <1>2 DEF FlattenSeq
  <2>3. QED BY <1>1, <1>2, <2>1, <2>2 DEF IsFlattening
<1>3. CASE Len(s) # 0
  <2> DEFINE Sum(h) == [i \in 1 .. Len(s) |-> IF i = 1 THEN s[i] ELSE h[i - 1] \o s[i]]
             h == CHOOSE g : g = Sum(g)
             g == [i \in 1 .. Len(s) |-> f[i]]
  <2>1. FlattenSeq(s) = h[Len(s)] BY <1>3, Zenon DEF FlattenSeq
  <2>2. g = Sum(g)
    <3>1. ASSUME NEW i \in 1 .. Len(s) PROVE g[i] = Sum(g)[i]
      <4>1. s[i] \in Seq(X) BY ElementOfSeq
      <4>2. f[i] = f[i - 1] \o s[i] BY <1>1 DEF IsFlattening
      <4>3. CASE i = 1
        <5>0. \A j : j = i - 1 => f[i] = f[j] \o s[i] BY <4>2
        <5>1. f[1] = f[0] \o s[1]
          <6>1. 0 = i - 1 BY <4>3
          <6>2. QED BY <4>3, <5>0, <6>1, Zenon
        <5>2. f[1] = s[1] BY <5>1, <4>1, <4>3, <1>1, ConcatEmptySeq DEF IsFlattening
        <5>3. QED BY <4>3, <5>2
      <4>4. CASE i # 1
        <5>1. i - 1 \in 1 .. Len(s) BY <1>0, <4>4
        <5>2. QED BY <4>2, <4>4, <5>1
      <4>5. QED BY <4>3, <4>4
    <3>2. DOMAIN g = DOMAIN Sum(g) OBVIOUS
    <3>3. QED BY <3>1, <3>2
  <2>3. h = Sum(h)
    <3> HIDE DEF Sum, g
    <3>1. QED BY <2>2
  <2>4. ASSUME NEW i \in 1 .. Len(s) PROVE h[i] = IF i = 1 THEN s[i] ELSE h[i - 1] \o s[i]
    <3> HIDE DEF h
    <3>1. h[i] = Sum(h)[i] BY <2>3
    <3>2. QED BY <3>1
  <2> HIDE DEF h, Sum, g
  <2>5. ASSUME NEW i \in 1 .. Len(s), i = 1 \/ h[i - 1] = f[i - 1] PROVE h[i] = f[i]
    <3>1. f[i] = f[i - 1] \o s[i] BY <1>1 DEF IsFlattening
    <3>2. s[i] \in Seq(X) BY ElementOfSeq
    <3>3. CASE i = 1
      <4>1. f[i - 1] = <<>> BY <1>1, <3>3 DEF IsFlattening
      <4>2. f[i] = s[i] BY <3>1, <3>2, <4>1, ConcatEmptySeq
      <4>3. QED BY <2>4, <3>3, <4>2
    <3>4. CASE i # 1 BY <2>4, <2>5, <3>1, <3>4
    <3>5. QED BY <3>3, <3>4
  <2> DEFINE Same(m) == m \in 1 .. Len(s) => h[m] = f[m]
             T == {m \in Nat : Same(m)}
  <2>6. Same(0) OBVIOUS
  <2>7. ASSUME NEW n \in Nat, Same(n) PROVE Same(n + 1)
    <3> SUFFICES ASSUME NEW i \in 1 .. Len(s), i = n + 1 PROVE h[i] = f[i] OBVIOUS
    <3>1. i = 1 \/ i - 1 \in 1 .. Len(s) BY <1>0
    <3>2. i - 1 = n OBVIOUS
    <3>3. i = 1 \/ h[i - 1] = f[i - 1] BY <2>7, <3>1, <3>2
    <3>4. QED BY <2>5, <3>3
  <2>8. Same(Len(s))
    <3> HIDE DEF Same
    <3>1. 0 \in T /\ \A n \in Nat : n \in T => n + 1 \in T BY <2>6, <2>7
    <3> HIDE DEF T
    <3>2. Nat \subseteq T BY <3>1, NatsAreInductive
    <3>3. QED BY <1>0, <3>2 DEF T
  <2>9. QED BY <1>0, <1>1, <1>3, <2>1, <2>8
<1>4. QED BY <1>2, <1>3

\* As much of a flattening as a set of its stages shows, by induction.
LEMMA StageByStage ==
  ASSUME NEW n \in Nat, NEW T, 0 \in T, \A m \in 0 .. n - 1 : m \in T => m + 1 \in T
  PROVE  n \in T
<1> DEFINE U == {m \in Nat : m <= n => m \in T}
<1>1. 0 \in U OBVIOUS
<1>2. \A m \in Nat : m \in U => m + 1 \in U
  <2> SUFFICES ASSUME NEW m \in Nat, m <= n => m \in T, m + 1 <= n PROVE m + 1 \in T OBVIOUS
  <2>1. m \in 0 .. n - 1 /\ m \in T OBVIOUS
  <2>2. QED BY <2>1
<1> HIDE DEF U
<1>3. Nat \subseteq U BY <1>1, <1>2, NatsAreInductive
<1>4. n \in U BY <1>3
<1>5. QED BY <1>4 DEF U

\* Units, and nothing after them.
LEMMA FlattenUnits ==
  ASSUME NEW X, NEW s \in Seq(Seq(X)), NEW k \in 0 .. Len(s),
         \A i \in 1 .. k : Len(s[i]) = 1, \A i \in k + 1 .. Len(s) : s[i] = <<>>
  PROVE  /\ FlattenSeq(s) \in Seq(X) /\ Len(FlattenSeq(s)) = k
         /\ \A i \in 1 .. k : FlattenSeq(s)[i] = s[i][1]
<1>0. Len(s) \in Nat BY LenProperties
<1>1. PICK f \in [0 .. Len(s) -> Seq(X)] :
        IsFlattening(f, s, Len(s)) /\ FlattenSeq(s) = f[Len(s)]
  BY Flattening
<1> DEFINE Least(m) == IF m <= k THEN m ELSE k
           Shown(m) == Len(f[m]) = Least(m) /\ \A i \in 1 .. Least(m) : f[m][i] = s[i][1]
           T == {m \in Nat : Shown(m)}
<1>2. Shown(0) BY <1>1 DEF IsFlattening
<1>3. ASSUME NEW m \in 0 .. Len(s) - 1, Shown(m), NEW n \in 1 .. Len(s), n = m + 1
      PROVE  Shown(n)
  <2>1. f[n] = f[m] \o s[n]
    <3>1. f[n] = f[n - 1] \o s[n] BY <1>1 DEF IsFlattening
    <3>2. n - 1 = m BY <1>3
    <3>3. QED BY <3>1, <3>2
  <2>2. s[n] \in Seq(X) /\ f[m] \in Seq(X) BY <1>0, ElementOfSeq
  <2>3. CASE n <= k
    <3>1. Len(s[n]) = 1 /\ Len(f[m]) = m /\ Least(n) = n BY <1>3, <2>3
    <3>2. /\ Len(f[m] \o s[n]) = Len(f[m]) + Len(s[n])
          /\ \A i \in 1 .. Len(f[m]) + Len(s[n]) :
               (f[m] \o s[n])[i] = IF i <= Len(f[m]) THEN f[m][i] ELSE s[n][i - Len(f[m])]
      BY <2>2, ConcatProperties
    <3>3. Len(f[n]) = n BY <1>3, <2>1, <3>1, <3>2
    <3>4. ASSUME NEW i \in 1 .. n PROVE f[n][i] = s[i][1]
      <4>1. f[n][i] = IF i <= m THEN f[m][i] ELSE s[n][i - m]
        BY <1>3, <2>1, <3>1, <3>2
      <4>2. CASE i <= m BY <1>3, <2>3, <4>1, <4>2
      <4>3. CASE ~(i <= m)
        <5>1. i = n /\ i - m = 1 BY <1>3, <4>3
        <5>2. QED BY <4>1, <4>3, <5>1
      <4>4. QED BY <4>2, <4>3
    <3>5. QED BY <3>1, <3>3, <3>4
  <2>4. CASE ~(n <= k)
    <3>1. n \in k + 1 .. Len(s) BY <2>4
    <3>2. s[n] = <<>> BY <3>1
    <3>3. f[n] = f[m] BY <2>1, <2>2, <3>2, ConcatEmptySeq
    <3>4. Least(n) = k /\ Least(m) = k BY <1>3, <2>4
    <3>5. QED BY <1>3, <3>3, <3>4
  <2>5. QED BY <2>3, <2>4
<1>4. Shown(Len(s))
  <2> HIDE DEF Shown
  <2>1. ASSUME NEW m \in 0 .. Len(s) - 1, Shown(m) PROVE Shown(m + 1)
    <3>1. m + 1 \in 1 .. Len(s) BY <1>0
    <3>2. QED BY <1>3, <2>1, <3>1
  <2>2. 0 \in T /\ \A m \in 0 .. Len(s) - 1 : m \in T => m + 1 \in T BY <1>2, <2>1
  <2> HIDE DEF T
  <2>3. Len(s) \in T BY <1>0, <2>2, StageByStage
  <2>4. QED BY <2>3 DEF T
<1>5. QED BY <1>0, <1>1, <1>4

\* What some elements are left of, in their order.
Kept(t, H) == FlattenSeq([i \in DOMAIN t |-> IF t[i] \in H THEN <<t[i]>> ELSE <<>>])

NoneIn(p, U) == \A j \in 1 .. Len(p) : p[j] \notin U
FirstIn(p, U, x) ==
  \E k \in 1 .. Len(p) : p[k] = x /\ \A j \in 1 .. k - 1 : p[j] \notin U

LEMMA KeptStep ==
  ASSUME NEW X, NEW p \in Seq(X), NEW x \in X, NEW q, q = <<x>> \/ q = <<>>, NEW U
  PROVE  /\ NoneIn(p, U) /\ x \notin U => NoneIn(p \o q, U)
         /\ NoneIn(p, U) /\ q = <<x>> => FirstIn(p \o q, U, x)
         /\ \A y : FirstIn(p, U, y) => FirstIn(p \o q, U, y)
<1>0. Len(p) \in Nat BY LenProperties
<1>1. CASE q = <<>>
  <2>1. p \o q = p BY <1>1, ConcatEmptySeq
  <2>2. q # <<x>> BY <1>1
  <2>3. QED BY <2>1, <2>2
<1>2. CASE q = <<x>>
  <2> DEFINE r == p \o q
  <2>1. r = Append(p, x) BY <1>2, AppendIsConcat
  <2>2. Len(r) = Len(p) + 1 /\ r[Len(p) + 1] = x /\ \A i \in 1 .. Len(p) : r[i] = p[i]
    BY <2>1, AppendProperties
  <2> HIDE DEF r
  <2>3. NoneIn(p, U) /\ x \notin U => NoneIn(r, U) BY <1>0, <2>2 DEF NoneIn
  <2>4. NoneIn(p, U) => FirstIn(r, U, x)
    <3> SUFFICES ASSUME NoneIn(p, U) PROVE FirstIn(r, U, x) OBVIOUS
    <3>1. Len(p) + 1 \in 1 .. Len(r) BY <1>0, <2>2
    <3>2. \A j \in 1 .. Len(p) + 1 - 1 : r[j] \notin U BY <1>0, <2>2 DEF NoneIn
    <3>3. QED BY <2>2, <3>1, <3>2 DEF FirstIn
  <2>5. ASSUME NEW y, FirstIn(p, U, y) PROVE FirstIn(r, U, y)
    <3>1. PICK k \in 1 .. Len(p) : p[k] = y /\ \A j \in 1 .. k - 1 : p[j] \notin U
      BY <2>5 DEF FirstIn
    <3>2. k \in 1 .. Len(r) /\ r[k] = y BY <1>0, <2>2, <3>1
    <3>3. ASSUME NEW j \in 1 .. k - 1 PROVE r[j] \notin U
      <4>1. j \in 1 .. Len(p) BY <1>0
      <4>2. QED BY <2>2, <3>1, <4>1
    <3>4. QED BY <3>2, <3>3 DEF FirstIn
  <2>6. QED BY <2>3, <2>4, <2>5 DEF r
<1>3. QED BY <1>1, <1>2

LEMMA KeptFirst ==
  ASSUME NEW X, NEW t \in Seq(X), NEW H, NEW U, NEW first \in 1 .. Len(t),
         t[first] \in U, t[first] \in H, \A j \in 1 .. first - 1 : t[j] \notin U
  PROVE  /\ Kept(t, H) \in Seq(X)
         /\ FirstIn(Kept(t, H), U, t[first])
<1> DEFINE s == [i \in 1 .. Len(t) |-> IF t[i] \in H THEN <<t[i]>> ELSE <<>>]
<1>1. Len(t) \in Nat /\ DOMAIN t = 1 .. Len(t) BY LenProperties
<1>2. s \in Seq(Seq(X)) /\ Len(s) = Len(t)
  <2>1. ASSUME NEW i \in 1 .. Len(t) PROVE s[i] \in Seq(X)
    <3>1. t[i] \in X BY ElementOfSeq
    <3>2. QED BY <3>1
  <2>2. s \in [1 .. Len(t) -> Seq(X)] BY <2>1
  <2> HIDE DEF s
  <2>3. QED BY <1>1, <2>2
<1>3. Kept(t, H) = FlattenSeq(s) BY <1>1 DEF Kept
<1>4. \A i \in 1 .. Len(t) : s[i] = IF t[i] \in H THEN <<t[i]>> ELSE <<>> OBVIOUS
<1> HIDE DEF s
<1>5. PICK f \in [0 .. Len(t) -> Seq(X)] :
        IsFlattening(f, s, Len(t)) /\ FlattenSeq(s) = f[Len(t)]
  BY <1>2, Flattening
<1> DEFINE Shown(m) == IF m < first THEN NoneIn(f[m], U) ELSE FirstIn(f[m], U, t[first])
           T == {m \in Nat : Shown(m)}
<1>6. Shown(0)
  <2>1. f[0] = <<>> /\ 0 < first BY <1>1, <1>5 DEF IsFlattening
  <2>2. QED BY <2>1 DEF NoneIn
<1>7. ASSUME NEW m \in 0 .. Len(t) - 1, Shown(m), NEW n \in 1 .. Len(t), n = m + 1
      PROVE  Shown(n)
  <2>1. f[n] = f[m] \o s[n]
    <3>1. f[n] = f[n - 1] \o s[n] BY <1>5 DEF IsFlattening
    <3>2. n - 1 = m BY <1>7
    <3>3. QED BY <3>1, <3>2
  <2>2. f[m] \in Seq(X) /\ t[n] \in X
    <3>1. m \in 0 .. Len(t) BY <1>1
    <3>2. QED BY <3>1, ElementOfSeq
  <2>3. s[n] = IF t[n] \in H THEN <<t[n]>> ELSE <<>> BY <1>4
  <2>4. CASE n < first
    <3>1. NoneIn(f[m], U)
      <4>1. m < first BY <1>1, <1>7, <2>4
      <4>2. QED BY <1>7, <4>1
    <3>2. t[n] \notin U
      <4>1. n \in 1 .. first - 1 BY <1>1, <2>4
      <4>2. QED BY <4>1
    <3>3. NoneIn(f[m] \o s[n], U) BY <2>2, <2>3, <3>1, <3>2, KeptStep
    <3>4. QED BY <2>1, <2>4, <3>3
  <2>5. CASE n = first
    <3>1. NoneIn(f[m], U)
      <4>1. m < first BY <1>1, <1>7, <2>5
      <4>2. QED BY <1>7, <4>1
    <3>2. s[n] = <<t[n]>> BY <2>3, <2>5
    <3>3. FirstIn(f[m] \o s[n], U, t[n]) BY <2>2, <3>1, <3>2, KeptStep
    <3>4. ~(n < first) BY <2>5
    <3>5. QED BY <2>1, <2>5, <3>3, <3>4
  <2>6. CASE n > first
    <3>1. FirstIn(f[m], U, t[first])
      <4>1. ~(m < first) BY <1>1, <1>7, <2>6
      <4>2. QED BY <1>7, <4>1
    <3>2. FirstIn(f[m] \o s[n], U, t[first]) BY <2>2, <2>3, <3>1, KeptStep
    <3>3. ~(n < first) BY <2>6
    <3>4. QED BY <2>1, <3>2, <3>3
  <2>7. QED BY <2>4, <2>5, <2>6
<1>8. Shown(Len(t))
  <2> HIDE DEF Shown
  <2>1. ASSUME NEW m \in 0 .. Len(t) - 1, Shown(m) PROVE Shown(m + 1)
    <3>1. m + 1 \in 1 .. Len(t) BY <1>1
    <3>2. QED BY <1>7, <2>1, <3>1
  <2>2. 0 \in T /\ \A m \in 0 .. Len(t) - 1 : m \in T => m + 1 \in T BY <1>6, <2>1
  <2> HIDE DEF T
  <2>3. Len(t) \in T BY <1>1, <2>2, StageByStage
  <2>4. QED BY <2>3 DEF T
<1>9. FirstIn(f[Len(t)], U, t[first]) BY <1>1, <1>8
<1>10. f[Len(t)] \in Seq(X) BY <1>1
<1>11. QED BY <1>3, <1>5, <1>9, <1>10

-----------------------------------------------------------------------------
(* Patterns and urls.                                                      *)

Part == [param : BOOLEAN, text : Seq(STRING)]
Segment == [text : Seq(STRING), encoded : BOOLEAN]
Blank == Encode(<<>>)

\* What a file name becomes: "/", or parts that each have a name.
IsPattern(pattern) ==
  /\ pattern \in Seq(Part) /\ pattern # <<>>
  /\ \/ pattern = <<Static(<<>>)>>
     \/ \A i \in 1 .. Len(pattern) : Len(pattern[i].text) = 1
  /\ \A i, j \in 1 .. Len(pattern) : pattern[i].param /\ pattern[i] = pattern[j] => i = j

\* A path as urls have it.
Coded(path) ==
  path \in Seq(Segment) /\ \A i \in 1 .. Len(path) : path[i] = Encode(path[i].text)

\* The path of "/", or one with a name in each segment: those that a pattern of the
\* app can have and a directory of a site can tell apart.
Plain(path) == path = <<Blank>> \/ \A i \in 1 .. Len(path) : Len(path[i].text) = 1

LEMMA Encoded ==
  ASSUME NEW text \in Seq(STRING) PROVE Encode(text) \in Segment /\ Encode(text).text = text
  BY DEF Encode, Segment

LEMMA BlankCoded == Coded(<<Blank>>) /\ Blank.text = <<>> /\ Len(<<Blank>>) = 1
<1>1. <<>> \in Seq(STRING) BY EmptySeq
<1>2. Blank \in Segment /\ Blank.text = <<>> BY <1>1, Encoded DEF Blank
<1>3. <<Blank>> \in Seq(Segment) /\ Len(<<Blank>>) = 1 /\ <<Blank>>[1] = Blank BY <1>2
<1>4. QED BY <1>2, <1>3 DEF Coded, Blank

LEMMA PatternShape ==
  ASSUME NEW file \in Files
  PROVE  /\ IsPattern(Pattern(file))
         /\ {part.text : part \in {p \in ToSet(file) : p.param}}
              = {Pattern(file)[i].text : i \in {j \in DOMAIN Pattern(file) : Pattern(file)[j].param}}
<1>1. /\ file \in Seq(Part) /\ file # <<>> /\ \A i \in DOMAIN file : Len(file[i].text) = 1
      /\ \A i, j \in DOMAIN file : file[i].param /\ file[i] = file[j] => i = j
  BY RoutesAssumption DEF Part
<1>2. Len(file) \in Nat \ {0} /\ DOMAIN file = 1 .. Len(file)
  BY <1>1, LenProperties, EmptySeq
<1>3. Static(<<>>) \in Part /\ ~Static(<<>>).param BY EmptySeq DEF Static, Part
<1>4. CASE Last(file) = Static(<<"index">>)
  <2>0. ~file[Len(file)].param BY <1>4 DEF Last, Static
  <2> DEFINE cleaned == Front(file)
  <2>1. /\ cleaned \in Seq(Part) /\ Len(cleaned) = Len(file) - 1
        /\ \A i \in 1 .. Len(file) - 1 : cleaned[i] = file[i]
    <3>1. \A i \in 1 .. Len(file) - 1 : file[i] \in Part BY <1>1, <1>2, ElementOfSeq
    <3>2. /\ SubSeq(file, 1, Len(file) - 1) \in Seq(Part)
          /\ Len(SubSeq(file, 1, Len(file) - 1))
               = IF 1 <= Len(file) - 1 THEN Len(file) - 1 - 1 + 1 ELSE 0
          /\ \A i \in 1 .. Len(file) - 1 - 1 + 1 : SubSeq(file, 1, Len(file) - 1)[i] = file[1 + i - 1]
      BY <1>2, <3>1, SubSeqProperties
    <3>3. QED BY <1>2, <3>2 DEF Front
  <2>2. DOMAIN cleaned = 1 .. Len(file) - 1 BY <2>1, LenProperties
  <2>3. CASE cleaned = <<>>
    <3>1. Pattern(file) = <<Static(<<>>)>> BY <1>4, <2>3 DEF Pattern
    <3>2. Len(file) = 1 BY <2>1, <2>3, <1>2
    <3>3. {p \in ToSet(file) : p.param} = {} BY <1>2, <2>0, <3>2 DEF ToSet
    <3>4. IsPattern(Pattern(file)) BY <1>3, <3>1 DEF IsPattern
    <3>5. {j \in DOMAIN Pattern(file) : Pattern(file)[j].param} = {} BY <1>3, <3>1
    <3>6. QED BY <3>3, <3>4, <3>5
  <2>4. CASE cleaned # <<>>
    <3>1. Pattern(file) = cleaned BY <1>4, <2>4 DEF Pattern
    <3> HIDE DEF cleaned
    <3>2. IsPattern(cleaned)
      <4>1. \A i \in 1 .. Len(cleaned) : i \in DOMAIN file /\ cleaned[i] = file[i]
        BY <1>2, <2>1
      <4>2. \A i \in 1 .. Len(cleaned) : Len(cleaned[i].text) = 1 BY <1>1, <4>1
      <4>3. \A i, j \in 1 .. Len(cleaned) :
              cleaned[i].param /\ cleaned[i] = cleaned[j] => i = j
        BY <1>1, <4>1
      <4>4. QED BY <2>1, <2>4, <4>2, <4>3 DEF IsPattern
    <3>3. ASSUME NEW n
          PROVE  n \in {part.text : part \in {p \in ToSet(file) : p.param}}
                   <=> n \in {cleaned[i].text : i \in {j \in DOMAIN cleaned : cleaned[j].param}}
      <4>1. n \in {part.text : part \in {p \in ToSet(file) : p.param}}
              <=> \E i \in 1 .. Len(file) : file[i].param /\ file[i].text = n
        BY <1>2 DEF ToSet
      <4>2. n \in {cleaned[i].text : i \in {j \in DOMAIN cleaned : cleaned[j].param}}
              <=> \E i \in 1 .. Len(file) - 1 : file[i].param /\ file[i].text = n
        BY <2>1, <2>2
      <4>3. ASSUME NEW i \in 1 .. Len(file) PROVE i = Len(file) \/ i \in 1 .. Len(file) - 1
        <5>1. Len(file) \in Nat BY <1>2
        <5>2. QED BY <5>1
      <4>4. \A i \in 1 .. Len(file) - 1 : i \in 1 .. Len(file) BY <1>2
      <4>5. QED BY <2>0, <4>1, <4>2, <4>3, <4>4
    <3>4. QED BY <3>1, <3>2, <3>3
  <2>5. QED BY <2>3, <2>4
<1>5. CASE Last(file) # Static(<<"index">>)
  <2>1. Pattern(file) = file BY <1>1, <1>5 DEF Pattern
  <2>2. IsPattern(file) BY <1>1, <1>2 DEF IsPattern
  <2>3. {part.text : part \in {p \in ToSet(file) : p.param}}
          = {file[i].text : i \in {j \in DOMAIN file : file[j].param}}
    BY DEF ToSet
  <2>4. QED BY <2>1, <2>2, <2>3
<1>6. QED BY <1>4, <1>5

\* Trailing slashes: what is left ends in a name, or is "/".
EndsAt(path, k) ==
  k \in 1 .. Len(path) /\ path[k].text # <<>> /\ \A i \in k + 1 .. Len(path) : path[i].text = <<>>

LEMMA StrippedCases ==
  ASSUME NEW path, Coded(path)
  PROVE  \/ Stripped(path) = <<Blank>> /\ \A i \in 1 .. Len(path) : path[i].text = <<>>
         \/ \E k \in 1 .. Len(path) : EndsAt(path, k) /\ Stripped(path) = SubSeq(path, 1, k)
<1>1. Len(path) \in Nat /\ DOMAIN path = 1 .. Len(path) BY LenProperties DEF Coded
<1> DEFINE kept == {i \in DOMAIN path : path[i].text # <<>>}
<1>2. CASE kept = {}
  <2>1. Stripped(path) = <<Blank>> BY <1>2 DEF Stripped, Blank
  <2>2. QED BY <1>1, <1>2, <2>1
<1>3. CASE kept # {}
  <2> DEFINE last == CHOOSE i \in kept : \A j \in kept : j <= i
  <2>1. Stripped(path) = SubSeq(path, 1, last) BY <1>3 DEF Stripped
  <2>2. \E i \in kept : \A j \in kept : j <= i
    <3> DEFINE T == {Len(path) - i : i \in kept}
    <3>1. T \in SUBSET Nat /\ T # {} BY <1>1, <1>3
    <3>2. PICK m \in T : \A k \in T : m <= k
      <4> HIDE DEF T
      <4>1. QED BY <3>1, LeastOf
    <3>3. PICK i \in kept : m = Len(path) - i BY <3>2
    <3>4. ASSUME NEW j \in kept PROVE j <= i
      <4>1. Len(path) - i <= Len(path) - j BY <3>2, <3>3
      <4>2. QED BY <1>1, <4>1
    <3>5. QED BY <3>4
  <2>3. last \in kept /\ \A j \in kept : j <= last
    <3> HIDE DEF kept
    <3>1. QED BY <2>2
  <2> HIDE DEF last
  <2>4. EndsAt(path, last) BY <1>1, <2>3 DEF EndsAt
  <2>5. QED BY <2>1, <2>4 DEF EndsAt
<1>4. QED BY <1>2, <1>3

LEMMA Prefix ==
  ASSUME NEW S, NEW path \in Seq(S), NEW k \in 1 .. Len(path)
  PROVE  /\ SubSeq(path, 1, k) \in Seq(S) /\ Len(SubSeq(path, 1, k)) = k
         /\ \A i \in 1 .. k : SubSeq(path, 1, k)[i] = path[i]
<1>1. Len(path) \in Nat BY LenProperties
<1>2. \A i \in 1 .. k : path[i] \in S BY <1>1, ElementOfSeq
<1>3. /\ SubSeq(path, 1, k) \in Seq(S)
      /\ Len(SubSeq(path, 1, k)) = IF 1 <= k THEN k - 1 + 1 ELSE 0
      /\ \A i \in 1 .. k - 1 + 1 : SubSeq(path, 1, k)[i] = path[1 + i - 1]
  BY <1>1, <1>2, SubSeqProperties
<1>4. QED BY <1>1, <1>3

LEMMA StrippedIsCoded ==
  ASSUME NEW path, Coded(path)
  PROVE  /\ Coded(Stripped(path)) /\ Stripped(path) # <<>>
         /\ \A i \in 1 .. Len(Stripped(path)) :
              Stripped(path)[i] = Blank \/ \E j \in 1 .. Len(path) : Stripped(path)[i] = path[j]
<1>1. CASE Stripped(path) = <<Blank>> BY <1>1, BlankCoded
<1>2. CASE \E k \in 1 .. Len(path) : EndsAt(path, k) /\ Stripped(path) = SubSeq(path, 1, k)
  <2>1. PICK k \in 1 .. Len(path) : Stripped(path) = SubSeq(path, 1, k) BY <1>2
  <2> DEFINE short == SubSeq(path, 1, k)
  <2>2. /\ short \in Seq(Segment) /\ Len(short) = k
        /\ \A i \in 1 .. k : short[i] = path[i]
    BY Prefix DEF Coded
  <2>3. Len(path) \in Nat BY LenProperties DEF Coded
  <2>4. \A i \in 1 .. k : i \in 1 .. Len(path) BY <2>3
  <2> HIDE DEF short
  <2>5. Coded(short) BY <2>2, <2>4 DEF Coded
  <2>6. short # <<>> BY <2>2
  <2>7. QED BY <2>1, <2>2, <2>4, <2>5, <2>6 DEF short
<1>3. QED BY <1>1, <1>2, StrippedCases

LEMMA StripsOnce ==
  ASSUME NEW url, Coded(url) PROVE Stripped(Stripped(url)) = Stripped(url)
<1> DEFINE path == Stripped(url)
<1>1. Coded(path) BY StrippedIsCoded
<1>2. CASE path = <<Blank>>
  <2>1. ASSUME NEW k \in 1 .. Len(path), EndsAt(path, k) PROVE FALSE
    <3>1. path[k].text = <<>> BY <1>2, BlankCoded
    <3>2. QED BY <2>1, <3>1 DEF EndsAt
  <2>2. QED BY <1>1, <1>2, <2>1, StrippedCases
<1>3. CASE \E k \in 1 .. Len(url) : EndsAt(url, k) /\ path = SubSeq(url, 1, k)
  <2>1. PICK k \in 1 .. Len(url) : EndsAt(url, k) /\ path = SubSeq(url, 1, k) BY <1>3
  <2>2. path \in Seq(Segment) /\ Len(path) = k /\ \A i \in 1 .. k : path[i] = url[i]
    BY <2>1, Prefix DEF Coded
  <2>3. k \in Nat /\ k \in 1 .. k BY <2>1
  <2>4. path[k].text # <<>> BY <2>1, <2>2, <2>3 DEF EndsAt
  <2> HIDE DEF path
  <2>5. PICK j \in 1 .. Len(path) : EndsAt(path, j) /\ Stripped(path) = SubSeq(path, 1, j)
    BY <1>1, <2>2, <2>3, <2>4, StrippedCases
  <2>6. j = k
    <3> SUFFICES ASSUME j # k PROVE FALSE OBVIOUS
    <3>1. k \in j + 1 .. Len(path) BY <2>2, <2>3
    <3>2. QED BY <2>4, <2>5, <3>1 DEF EndsAt
  <2>7. SubSeq(path, 1, k) = path BY <2>2, SubSeqFull
  <2>8. QED BY <2>5, <2>6, <2>7 DEF path
<1>4. QED BY <1>2, <1>3, StrippedCases

\* The directory of a path: its names.
LEMMA Directory ==
  ASSUME NEW path, Coded(path), Plain(Stripped(path))
  PROVE  \/ Stripped(path) = <<Blank>> /\ Len(OutputPath(path)) = 0
         \/ /\ Stripped(path) \in Seq(Segment)
            /\ Len(Stripped(path)) = Len(OutputPath(path)) /\ Len(Stripped(path)) # 0
            /\ \A i \in 1 .. Len(Stripped(path)) :
                 /\ Stripped(path)[i] = Encode(Stripped(path)[i].text)
                 /\ Stripped(path)[i].text \in Seq(STRING)
                 /\ Len(Stripped(path)[i].text) = 1
                 /\ Stripped(path)[i].text[1] = OutputPath(path)[i]
<1>0. Len(path) \in Nat /\ DOMAIN path = 1 .. Len(path) /\ path \in Seq(Segment)
  BY LenProperties DEF Coded
<1> DEFINE s == [i \in 1 .. Len(path) |-> path[i].text]
<1>1. s \in Seq(Seq(STRING)) /\ Len(s) = Len(path) /\ \A i \in 1 .. Len(path) : s[i] = path[i].text
  <2>1. ASSUME NEW i \in 1 .. Len(path) PROVE path[i].text \in Seq(STRING)
    <3>1. path[i] \in Segment BY <1>0, ElementOfSeq
    <3>2. QED BY <3>1 DEF Segment
  <2>2. s \in [1 .. Len(path) -> Seq(STRING)] BY <2>1
  <2>3. \A i \in 1 .. Len(path) : s[i] = path[i].text OBVIOUS
  <2> HIDE DEF s
  <2>4. QED BY <1>0, <2>2, <2>3
<1>2. OutputPath(path) = FlattenSeq(s) BY <1>0 DEF OutputPath, SafeDecode
<1> HIDE DEF s
<1>3. CASE Stripped(path) = <<Blank>> /\ \A i \in 1 .. Len(path) : path[i].text = <<>>
  <2>1. 0 \in 0 .. Len(s) /\ \A i \in 1 .. 0 : Len(s[i]) = 1 BY <1>0, <1>1
  <2>2. \A i \in 0 + 1 .. Len(s) : s[i] = <<>> BY <1>1, <1>3
  <2>3. Len(FlattenSeq(s)) = 0 BY <1>1, <2>1, <2>2, FlattenUnits
  <2>4. QED BY <1>2, <1>3, <2>3
<1>4. CASE \E k \in 1 .. Len(path) : EndsAt(path, k) /\ Stripped(path) = SubSeq(path, 1, k)
  <2>1. PICK k \in 1 .. Len(path) : EndsAt(path, k) /\ Stripped(path) = SubSeq(path, 1, k)
    BY <1>4
  <2> DEFINE short == Stripped(path)
  <2>2. short \in Seq(Segment) /\ Len(short) = k /\ \A i \in 1 .. k : short[i] = path[i]
    BY <1>0, <2>1, Prefix
  <2>3. k \in Nat /\ k \in 1 .. k /\ \A i \in 1 .. k : i \in 1 .. Len(path) BY <1>0
  <2>4. short # <<Blank>>
    <3> SUFFICES ASSUME short = <<Blank>> PROVE FALSE OBVIOUS
    <3>1. k = 1 /\ short[1] = Blank BY <2>2, BlankCoded
    <3>2. path[k].text = <<>> BY <2>2, <2>3, <3>1, BlankCoded
    <3>3. QED BY <2>1, <3>2 DEF EndsAt
  <2>5. \A i \in 1 .. k : Len(short[i].text) = 1 BY <2>2, <2>4 DEF Plain
  <2> HIDE DEF short
  <2>6. \A i \in 1 .. k : Len(s[i]) = 1 BY <1>1, <2>2, <2>3, <2>5
  <2>7. \A i \in k + 1 .. Len(s) : s[i] = <<>>
    <3>1. \A i \in k + 1 .. Len(s) : i \in 1 .. Len(path) BY <1>1, <2>3
    <3>2. QED BY <1>1, <2>1, <3>1 DEF EndsAt
  <2>8. k \in 0 .. Len(s) BY <1>0, <1>1
  <2>9. Len(FlattenSeq(s)) = k /\ \A i \in 1 .. k : FlattenSeq(s)[i] = s[i][1]
    BY <1>1, <2>6, <2>7, <2>8, FlattenUnits
  <2>10. ASSUME NEW i \in 1 .. k
         PROVE  /\ short[i] = Encode(short[i].text) /\ short[i].text \in Seq(STRING)
                /\ Len(short[i].text) = 1 /\ short[i].text[1] = FlattenSeq(s)[i]
    <3>1. short[i] = path[i] /\ s[i] = path[i].text BY <1>1, <2>2, <2>3
    <3>2. path[i] = Encode(path[i].text) BY <2>3 DEF Coded
    <3>3. s[i] \in Seq(STRING) BY <1>1, <2>3, ElementOfSeq
    <3>4. QED BY <2>5, <2>9, <3>1, <3>2, <3>3
  <2>11. QED BY <1>2, <2>2, <2>3, <2>9, <2>10 DEF short
<1>5. QED BY <1>3, <1>4, StrippedCases

\* Two paths with one directory are one path, but for slashes at their end.
LEMMA SameDirectory ==
  ASSUME NEW p, NEW q, Coded(p), Coded(q), Plain(Stripped(p)), Plain(Stripped(q)),
         OutputPath(p) = OutputPath(q)
  PROVE  Stripped(p) = Stripped(q)
<1>1. CASE Len(OutputPath(p)) = 0
  <2>1. Stripped(p) = <<Blank>> BY <1>1, Directory
  <2>2. Stripped(q) = <<Blank>> BY <1>1, Directory
  <2>3. QED BY <2>1, <2>2
<1>2. CASE Len(OutputPath(p)) # 0
  <2> DEFINE a == Stripped(p)  b == Stripped(q)  dir == OutputPath(p)
             HasNames(c) == /\ c \in Seq(Segment) /\ Len(c) = Len(dir)
                          /\ \A i \in 1 .. Len(c) :
                               /\ c[i] = Encode(c[i].text) /\ c[i].text \in Seq(STRING)
                               /\ Len(c[i].text) = 1 /\ c[i].text[1] = dir[i]
  <2>1. HasNames(a) BY <1>2, Directory
  <2>2. HasNames(b)
    <3>1. Len(OutputPath(q)) # 0 BY <1>2
    <3>2. QED BY <3>1, Directory
  <2> HIDE DEF a, b, dir
  <2>3. ASSUME NEW i \in 1 .. Len(a) PROVE a[i] = b[i]
    <3>1. a[i].text = b[i].text BY <2>1, <2>2, SeqEqual
    <3>2. QED BY <2>1, <2>2, <3>1
  <2>4. a = b BY <2>1, <2>2, <2>3, SeqEqual
  <2>5. QED BY <2>4 DEF a, b
<1>3. QED BY <1>1, <1>2

-----------------------------------------------------------------------------
(* Matching.                                                               *)

LEMMA Matched ==
  ASSUME NEW file \in Files, NEW path, Coded(path), MatchPattern(Pattern(file), path)
  PROVE  /\ FillPattern(Pattern(file), Params(Pattern(file), path)) = path
         /\ (\A i \in 1 .. Len(path) : path[i].text \in Texts \cup {<<>>})
              => path \in Addresses(file)
         /\ (\A i \in 1 .. Len(path) : Len(path[i].text) <= 1) => Plain(path)
<1> DEFINE pattern == Pattern(file)
<1>1. IsPattern(pattern) BY PatternShape
<1>2. /\ Len(path) \in Nat /\ DOMAIN path = 1 .. Len(path) /\ path \in Seq(Segment)
      /\ pattern \in Seq(Part) /\ DOMAIN pattern = 1 .. Len(pattern)
  BY <1>1, LenProperties DEF Coded, IsPattern
<1>3. Len(pattern) = Len(path) /\ \A i \in 1 .. Len(path) : Fits(pattern[i], path[i])
  BY <1>2 DEF MatchPattern
<1>4. \A i \in 1 .. Len(path) : path[i] \in Segment /\ path[i].text \in Seq(STRING)
  <2> SUFFICES ASSUME NEW i \in 1 .. Len(path) PROVE path[i] \in Segment /\ path[i].text \in Seq(STRING)
    OBVIOUS
  <2>1. path[i] \in Segment BY <1>2, ElementOfSeq
  <2>2. QED BY <2>1 DEF Segment
<1>5. \A i \in 1 .. Len(path) : pattern[i] \in Part
  <2> SUFFICES ASSUME NEW i \in 1 .. Len(path) PROVE pattern[i] \in Part OBVIOUS
  <2>1. QED BY <1>2, <1>3, ElementOfSeq
<1>6. ASSUME NEW i \in 1 .. Len(path), ~pattern[i].param PROVE path[i].text = pattern[i].text
  <2>1. \/ path[i] = [text |-> pattern[i].text, encoded |-> FALSE]
        \/ pattern[i].text = path[i].text
    BY <1>3, <1>6 DEF Fits, SafeDecode
  <2>2. [text |-> pattern[i].text, encoded |-> FALSE].text = pattern[i].text OBVIOUS
  <2>3. QED BY <2>1, <2>2
<1>7. ASSUME NEW i \in 1 .. Len(path), pattern[i].param PROVE path[i].text # <<>>
  BY <1>3, <1>7 DEF Fits
<1> HIDE DEF pattern
<1> DEFINE names == {pattern[i].text : i \in {j \in DOMAIN pattern : pattern[j].param}}
           place(n) == CHOOSE i \in DOMAIN pattern : pattern[i] = [param |-> TRUE, text |-> n]
           params == Params(pattern, path)
<1>8. ASSUME NEW i \in 1 .. Len(path), pattern[i].param
      PROVE  pattern[i].text \in names /\ place(pattern[i].text) = i
  <2>1. pattern[i] = [param |-> TRUE, text |-> pattern[i].text] BY <1>5, <1>8 DEF Part
  <2>2. ASSUME NEW j \in 1 .. Len(path), pattern[j] = [param |-> TRUE, text |-> pattern[i].text]
        PROVE  j = i
    <3>1. pattern[i] = pattern[j] BY <2>1, <2>2
    <3>2. QED BY <1>1, <1>3, <1>8, <3>1 DEF IsPattern
  <2>3. \E j \in DOMAIN pattern : pattern[j] = [param |-> TRUE, text |-> pattern[i].text]
    BY <1>2, <1>3, <2>1
  <2>4. /\ place(pattern[i].text) \in DOMAIN pattern
        /\ pattern[place(pattern[i].text)] = [param |-> TRUE, text |-> pattern[i].text]
    BY <2>3
  <2>5. place(pattern[i].text) = i
    <3> HIDE DEF place
    <3>1. QED BY <1>2, <1>3, <2>2, <2>4
  <2>6. QED BY <1>2, <1>3, <1>8, <2>5
<1>9. params = [n \in names |-> path[place(n)].text] BY DEF Params, SafeDecode
<1> HIDE DEF params
<1>10. ASSUME NEW i \in 1 .. Len(path), pattern[i].param
       PROVE  params[pattern[i].text] = path[i].text
  <2> HIDE DEF place, names
  <2>1. QED BY <1>8, <1>9, <1>10
<1>11. FillPattern(pattern, params) = path
  <2> DEFINE fill == FillPattern(pattern, params)
  <2>1. fill = [i \in 1 .. Len(path) |->
                 Encode(IF pattern[i].param THEN params[pattern[i].text] ELSE pattern[i].text)]
    BY <1>2, <1>3 DEF FillPattern
  <2>2. ASSUME NEW i \in 1 .. Len(path) PROVE fill[i] = path[i]
    <3>1. fill[i] = Encode(path[i].text)
      <4> HIDE DEF fill
      <4>1. CASE pattern[i].param BY <1>10, <2>1, <4>1
      <4>2. CASE ~pattern[i].param BY <1>6, <2>1, <4>2
      <4>3. QED BY <4>1, <4>2
    <3>2. QED BY <3>1 DEF Coded
  <2> HIDE DEF fill
  <2>3. path \in [1 .. Len(path) -> Segment] BY <1>2, LenProperties
  <2>4. QED BY <2>1, <2>2, <2>3 DEF fill
<1>12. ASSUME \A i \in 1 .. Len(path) : path[i].text \in Texts \cup {<<>>}
       PROVE  path \in Addresses(file)
  <2>1. ASSUME NEW n \in names PROVE params[n] \in Texts \ {<<>>}
    <3>1. PICK i \in 1 .. Len(path) : pattern[i].param /\ n = pattern[i].text
      BY <1>2, <1>3
    <3>2. params[n] = path[i].text BY <1>10, <3>1
    <3>3. QED BY <1>7, <1>12, <3>1, <3>2
  <2>2. params \in [names -> Texts \ {<<>>}]
    <3>1. DOMAIN params = names /\ params = [n \in DOMAIN params |-> params[n]] BY <1>9
    <3> HIDE DEF names
    <3>2. QED BY <2>1, <3>1
  <2>3. names = {part.text : part \in {p \in ToSet(file) : p.param}}
    BY PatternShape DEF pattern
  <2> HIDE DEF names
  <2>4. QED BY <1>11, <2>2, <2>3 DEF Addresses, pattern
<1>13. ASSUME \A i \in 1 .. Len(path) : Len(path[i].text) <= 1 PROVE Plain(path)
  <2>1. CASE pattern = <<Static(<<>>)>>
    <3>1. Len(path) = 1 /\ pattern[1] = Static(<<>>) BY <1>3, <2>1
    <3>2. path[1].text = <<>> BY <1>6, <3>1 DEF Static
    <3>3. path[1] = Blank BY <3>1, <3>2 DEF Coded, Blank
    <3>4. path = <<Blank>> BY <1>2, <3>1, <3>3
    <3>5. QED BY <3>4 DEF Plain
  <2>2. CASE \A i \in 1 .. Len(pattern) : Len(pattern[i].text) = 1
    <3>1. ASSUME NEW i \in 1 .. Len(path) PROVE Len(path[i].text) = 1
      <4>1. CASE pattern[i].param
        <5>1. path[i].text # <<>> BY <1>7, <4>1
        <5>2. Len(path[i].text) \in Nat \ {0} BY <1>4, <5>1, EmptySeq
        <5>3. Len(path[i].text) <= 1 BY <1>13
        <5>4. \A n \in Nat \ {0} : n <= 1 => n = 1 OBVIOUS
        <5>5. QED BY <5>2, <5>3, <5>4
      <4>2. CASE ~pattern[i].param BY <1>3, <1>6, <2>2, <4>2
      <4>3. QED BY <4>1, <4>2
    <3>2. QED BY <3>1 DEF Plain
  <2>3. QED BY <1>1, <2>1, <2>2 DEF IsPattern
<1>14. QED BY <1>11, <1>12, <1>13 DEF pattern, params

LEMMA Addressed ==
  ASSUME NEW file \in Files, NEW path, path \in Addresses(file)
  PROVE  MatchPattern(Pattern(file), path)
<1> DEFINE pattern == Pattern(file)
           names == {part.text : part \in {p \in ToSet(file) : p.param}}
<1>1. IsPattern(pattern) /\ names = {pattern[i].text : i \in {j \in DOMAIN pattern : pattern[j].param}}
  BY PatternShape
<1>2. PICK params \in [names -> Texts \ {<<>>}] : path = FillPattern(pattern, params)
  BY DEF Addresses
<1>3. pattern \in Seq(Part) /\ Len(pattern) \in Nat /\ DOMAIN pattern = 1 .. Len(pattern)
  BY <1>1, LenProperties DEF IsPattern
<1> HIDE DEF pattern, names
<1>4. path = [i \in 1 .. Len(pattern) |->
               Encode(IF pattern[i].param THEN params[pattern[i].text] ELSE pattern[i].text)]
  BY <1>2, <1>3 DEF FillPattern
<1>5. DOMAIN path = 1 .. Len(pattern) /\ Len(path) = Len(pattern) BY <1>3, <1>4
<1>6. ASSUME NEW i \in 1 .. Len(pattern) PROVE Fits(pattern[i], path[i])
  <2>1. pattern[i] \in Part BY <1>3, ElementOfSeq
  <2>2. CASE pattern[i].param
    <3>1. pattern[i].text \in names BY <1>1, <1>3, <2>2
    <3>2. params[pattern[i].text] \in Texts \ {<<>>} BY <1>2, <3>1
    <3>3. path[i].text = params[pattern[i].text] BY <1>4, <2>2 DEF Encode
    <3>4. QED BY <2>2, <3>2, <3>3 DEF Fits
  <2>3. CASE ~pattern[i].param
    <3>1. path[i].text = pattern[i].text BY <1>4, <2>3 DEF Encode
    <3>2. QED BY <2>3, <3>1 DEF Fits, SafeDecode
  <2>4. QED BY <2>2, <2>3
<1>7. QED BY <1>5, <1>6 DEF MatchPattern, pattern

\* The first page of a table that matches, if there is one.
LEMMA MatchRouteCases ==
  ASSUME NEW table \in Seq(Files), NEW url
  PROVE  \/ /\ MatchRoute(url, table) = NotFound
            /\ \A i \in 1 .. Len(table) : ~MatchPattern(Pattern(table[i]), Stripped(url))
         \/ \E i \in 1 .. Len(table) :
              /\ MatchPattern(Pattern(table[i]), Stripped(url))
              /\ \A j \in 1 .. i - 1 : ~MatchPattern(Pattern(table[j]), Stripped(url))
              /\ MatchRoute(url, table) =
                   [page |-> table[i], params |-> Params(Pattern(table[i]), Stripped(url))]
<1> DEFINE path == Stripped(url)
           I == {i \in 1 .. Len(table) : MatchPattern(Pattern(table[i]), path)}
           at == IF I # {} THEN Min(I) ELSE 0
<1>1. MatchRoute(url, table) =
        IF at = 0 THEN NotFound
        ELSE [page |-> table[at], params |-> Params(Pattern(table[at]), path)]
  BY DEF MatchRoute, SelectInSeq
<1>2. Len(table) \in Nat BY LenProperties
<1>3. CASE I = {} BY <1>1, <1>3
<1>4. CASE I # {}
  <2>1. at \in I /\ \A k \in I : at <= k
    <3>1. I \in SUBSET Nat OBVIOUS
    <3> HIDE DEF I
    <3>2. QED BY <1>4, <3>1, MinIsLeast
  <2> HIDE DEF at
  <2>2. at \in 1 .. Len(table) /\ at # 0 BY <2>1
  <2>3. MatchPattern(Pattern(table[at]), path) BY <2>1
  <2>4. ASSUME NEW j \in 1 .. at - 1 PROVE ~MatchPattern(Pattern(table[j]), path)
    <3>1. j \in 1 .. Len(table) /\ ~(at <= j) BY <1>2, <2>2
    <3>2. QED BY <2>1, <3>1
  <2> HIDE DEF I, path
  <2>5. MatchRoute(url, table) = [page |-> table[at], params |-> Params(Pattern(table[at]), path)]
    BY <1>1, <2>2
  <2>6. QED BY <2>2, <2>3, <2>4, <2>5 DEF path
<1>5. QED BY <1>3, <1>4

-----------------------------------------------------------------------------
(* The table, the browser and the site.                                    *)

RoutesTypeOK ==
  /\ routes \in Seq(Files) /\ Ordered(routes) /\ hydrated \subseteq Files
  /\ \A path \in DOMAIN plans : Coded(path) /\ \A i \in 1 .. Len(path) : Len(path[i].text) <= 1
  /\ routes = <<>> => screen = <<>> /\ DOMAIN plans = {}

ShowsItsPage ==
  screen # <<>> /\ screen.answer.page \in hydrated => screen.component = screen.answer.page

\* What the site has was written for some path, and any path that leads there is
\* answered alike.
SiteIsServed ==
  /\ \A path \in DOMAIN plans : plans[path] = "written" =>
       /\ OutputPath(path) \in DOMAIN site /\ site[OutputPath(path)] = Serve(path)
       /\ Serve(path) # NotFound
  /\ \A dir \in DOMAIN site : \E path \in DOMAIN plans :
       plans[path] = "written" /\ OutputPath(path) = dir

RoutesInv == RoutesTypeOK /\ ShowsItsPage /\ SiteIsServed

LEMMA CodedTexts ==
  ASSUME NEW n \in Nat, NEW texts \in [1 .. n -> Seq(STRING)]
  PROVE  LET path == [i \in DOMAIN texts |-> Encode(texts[i])]
         IN Coded(path) /\ Len(path) = n /\ \A i \in 1 .. n : path[i].text = texts[i]
<1> DEFINE path == [i \in DOMAIN texts |-> Encode(texts[i])]
<1>1. ASSUME NEW i \in 1 .. n
      PROVE  path[i] \in Segment /\ path[i].text = texts[i] /\ path[i] = Encode(texts[i])
  BY Encoded
<1>2. path \in [1 .. n -> Segment] BY <1>1
<1> HIDE DEF path
<1>3. path \in Seq(Segment) /\ Len(path) = n BY <1>2
<1>4. QED BY <1>1, <1>3 DEF Coded, path

LEMMA UrlsAreCoded ==
  ASSUME NEW url \in Urls
  PROVE  Coded(url) /\ \A i \in 1 .. Len(url) : url[i].text \in Texts \cup {<<>>}
<1> DEFINE paths == {[i \in DOMAIN texts |-> Encode(texts[i])] :
                       texts \in UNION {[1 .. n -> Texts] : n \in 1 .. MaxSegments}}
<1>1. ASSUME NEW path \in paths
      PROVE  Coded(path) /\ \A i \in 1 .. Len(path) : path[i].text \in Texts
  <2>1. PICK n \in 1 .. MaxSegments : \E texts \in [1 .. n -> Texts] :
               path = [i \in DOMAIN texts |-> Encode(texts[i])]
    OBVIOUS
  <2>2. PICK texts \in [1 .. n -> Texts] : path = [i \in DOMAIN texts |-> Encode(texts[i])]
    BY <2>1
  <2>3. n \in Nat /\ texts \in [1 .. n -> Seq(STRING)] BY RoutesAssumption
  <2>4. Coded(path) /\ Len(path) = n /\ \A i \in 1 .. n : path[i].text = texts[i]
    BY <2>2, <2>3, CodedTexts
  <2>5. QED BY <2>4
<1> HIDE DEF paths
<1>2. url \in paths \/ \E path \in paths : url = path \o <<Blank>> BY DEF Urls, paths, Blank
<1>3. CASE url \in paths BY <1>1, <1>3
<1>4. CASE \E path \in paths : url = path \o <<Blank>>
  <2>1. PICK path \in paths : url = path \o <<Blank>> BY <1>4
  <2>2. Coded(path) /\ \A i \in 1 .. Len(path) : path[i].text \in Texts BY <1>1
  <2>3. Blank \in Segment /\ Blank = Encode(Blank.text) /\ Blank.text = <<>>
    BY Encoded, EmptySeq DEF Blank
  <2>4. url = Append(path, Blank) BY <2>1, <2>2, <2>3, AppendIsConcat DEF Coded
  <2>5. /\ url \in Seq(Segment) /\ Len(url) = Len(path) + 1
        /\ \A i \in 1 .. Len(path) : url[i] = path[i]
        /\ url[Len(path) + 1] = Blank
    BY <2>2, <2>3, <2>4, AppendProperties DEF Coded
  <2>6. Len(path) \in Nat BY <2>2, LenProperties DEF Coded
  <2>7. ASSUME NEW i \in 1 .. Len(url)
        PROVE  url[i] = Encode(url[i].text) /\ url[i].text \in Texts \cup {<<>>}
    <3>1. i \in 1 .. Len(path) \/ i = Len(path) + 1 BY <2>5, <2>6
    <3>2. QED BY <2>2, <2>3, <2>5, <3>1 DEF Coded
  <2>8. QED BY <2>5, <2>7 DEF Coded
<1>5. QED BY <1>2, <1>3, <1>4

LEMMA DynamicIsNat == ASSUME NEW file \in Files PROVE DynamicSegments(file) \in Nat
<1> DEFINE pattern == Pattern(file)
           dynamic == {i \in DOMAIN pattern : pattern[i].param}
<1>1. Len(pattern) \in Nat /\ DOMAIN pattern = 1 .. Len(pattern)
  BY PatternShape, LenProperties DEF IsPattern
<1> HIDE DEF pattern
<1>2. IsFiniteSet(1 .. Len(pattern)) BY <1>1, FS_Interval
<1>3. dynamic \subseteq 1 .. Len(pattern) BY <1>1
<1>4. IsFiniteSet(dynamic) BY <1>2, <1>3, FS_Subset
<1>5. Cardinality(dynamic) \in Nat BY <1>4, FS_CardinalityType
<1>6. QED BY <1>5 DEF DynamicSegments, pattern

LEMMA TheMostSpecific ==
  ASSUME RoutesTypeOK, NEW url \in Urls PROVE MostSpecific(url)
<1> DEFINE path == Stripped(url)
           there == {file \in ToSet(routes) : path \in Addresses(file)}
<1>1. Coded(url) /\ Coded(path) /\ \A i \in 1 .. Len(path) : path[i].text \in Texts \cup {<<>>}
  <2>1. Coded(url) /\ \A i \in 1 .. Len(url) : url[i].text \in Texts \cup {<<>>} BY UrlsAreCoded
  <2>2. QED BY <2>1, StrippedIsCoded, BlankCoded
<1>2. /\ routes \in Seq(Files) /\ Len(routes) \in Nat /\ DOMAIN routes = 1 .. Len(routes)
      /\ \A i \in 1 .. Len(routes) : routes[i] \in Files
  BY LenProperties, ElementOfSeq DEF RoutesTypeOK
<1>3. \A file \in there : \E j \in 1 .. Len(routes) :
        routes[j] = file /\ MatchPattern(Pattern(routes[j]), path)
  <2> SUFFICES ASSUME NEW file \in there
               PROVE  \E j \in 1 .. Len(routes) :
                        routes[j] = file /\ MatchPattern(Pattern(routes[j]), path)
    OBVIOUS
  <2>1. PICK j \in 1 .. Len(routes) : routes[j] = file BY <1>2 DEF ToSet
  <2>2. path \in Addresses(file) /\ file \in Files BY <1>2, <2>1
  <2>3. QED BY <2>1, <2>2, Addressed
<1>4. CASE /\ Serve(url) = NotFound
           /\ \A i \in 1 .. Len(routes) : ~MatchPattern(Pattern(routes[i]), path)
  <2>1. there = {} BY <1>3, <1>4
  <2>2. QED BY <1>4, <2>1 DEF MostSpecific
<1>5. ASSUME NEW i \in 1 .. Len(routes), MatchPattern(Pattern(routes[i]), path),
             \A j \in 1 .. i - 1 : ~MatchPattern(Pattern(routes[j]), path),
             Serve(url) = [page |-> routes[i], params |-> Params(Pattern(routes[i]), path)]
      PROVE  MostSpecific(url)
  <2>1. Serve(url).page = routes[i] /\ Serve(url).params = Params(Pattern(routes[i]), path)
    BY <1>5
  <2>2. FillPattern(Pattern(routes[i]), Params(Pattern(routes[i]), path)) = path
        /\ path \in Addresses(routes[i])
    BY <1>1, <1>2, <1>5, Matched
  <2>3. routes[i] \in there BY <1>2, <2>2 DEF ToSet
  <2>4. ASSUME NEW file \in there PROVE DynamicSegments(routes[i]) <= DynamicSegments(file)
    <3>1. PICK j \in 1 .. Len(routes) :
            routes[j] = file /\ MatchPattern(Pattern(routes[j]), path)
      BY <1>3
    <3>2. j = i \/ i < j
      <4>1. ~(j \in 1 .. i - 1) BY <1>5, <3>1
      <4>2. QED BY <1>2, <4>1
    <3>3. CASE j = i
      <4>1. DynamicSegments(routes[i]) \in Nat BY <1>2, DynamicIsNat
      <4>2. QED BY <3>1, <3>3, <4>1
    <3>4. CASE i < j BY <1>2, <3>1, <3>4 DEF RoutesTypeOK, Ordered
    <3>5. QED BY <3>2, <3>3, <3>4
  <2> HIDE DEF there, path
  <2>5. QED BY <2>1, <2>2, <2>3, <2>4 DEF MostSpecific, there, path
<1>6. QED BY <1>2, <1>4, <1>5, MatchRouteCases DEF Serve

\* Two urls of one path have one answer.
LEMMA ServedByPath ==
  ASSUME NEW p, NEW q, Stripped(p) = Stripped(q) PROVE Serve(p) = Serve(q)
  BY DEF Serve, MatchRoute

\* A path whose page answers, and whose directory is not shared.
LEMMA AnsweredIsPlain ==
  ASSUME RoutesTypeOK, NEW path \in DOMAIN plans, Serve(path) # NotFound
  PROVE  Coded(path) /\ Plain(Stripped(path))
<1> DEFINE short == Stripped(path)
<1>1. Coded(path) /\ \A i \in 1 .. Len(path) : Len(path[i].text) <= 1 BY DEF RoutesTypeOK
<1>2. Coded(short) /\ \A i \in 1 .. Len(short) : Len(short[i].text) <= 1
  <2>1. Len(Blank.text) <= 1 BY BlankCoded
  <2>2. QED BY <1>1, <2>1, StrippedIsCoded
<1>3. routes \in Seq(Files) BY DEF RoutesTypeOK
<1>4. PICK i \in 1 .. Len(routes) : MatchPattern(Pattern(routes[i]), short)
  BY <1>3, MatchRouteCases DEF Serve
<1>5. routes[i] \in Files BY <1>3, ElementOfSeq
<1> HIDE DEF short
<1>6. Plain(short) BY <1>2, <1>4, <1>5, Matched
<1>7. QED BY <1>1, <1>6 DEF short

LEMMA TheSameOnSite ==
  ASSUME RoutesInv, NEW url \in Urls PROVE SameOnSite(url)
<1> DEFINE path == Stripped(url)
<1> SUFFICES ASSUME OutputPath(path) \in DOMAIN site,
                    Len(path) = 1 \/ <<>> \notin {s.text : s \in ToSet(path)},
                    \A s \in ToSet(path) : Len(s.text) <= 1
             PROVE  site[OutputPath(path)] = Serve(url)
  BY DEF SameOnSite
<1>1. Coded(url) BY UrlsAreCoded
<1>2. Coded(path) /\ path # <<>> /\ Stripped(path) = path BY <1>1, StrippedIsCoded, StripsOnce
<1> HIDE DEF path
<1>3. /\ path \in Seq(Segment) /\ Len(path) \in Nat /\ DOMAIN path = 1 .. Len(path)
      /\ \A i \in 1 .. Len(path) : path[i] \in ToSet(path) /\ path[i].text \in Seq(STRING)
  <2>1. /\ path \in Seq(Segment) /\ Len(path) \in Nat /\ DOMAIN path = 1 .. Len(path)
        /\ \A i \in 1 .. Len(path) : path[i] \in Segment
    BY <1>2, LenProperties, ElementOfSeq DEF Coded
  <2>2. QED BY <2>1 DEF ToSet, Segment
<1>4. Plain(path)
  <2>1. CASE path = <<Blank>> BY <2>1 DEF Plain
  <2>2. CASE path # <<Blank>>
    <3>1. ASSUME NEW i \in 1 .. Len(path), path[i].text = <<>> PROVE FALSE
      <4>1. Len(path) = 1 BY <1>3, <3>1
      <4>2. i = 1 BY <4>1
      <4>3. path[1] = Blank BY <1>2, <3>1, <4>2 DEF Coded, Blank
      <4>4. path = <<Blank>> BY <1>3, <4>1, <4>3
      <4>5. QED BY <2>2, <4>4
    <3>2. ASSUME NEW i \in 1 .. Len(path) PROVE Len(path[i].text) = 1
      <4>1. Len(path[i].text) \in Nat \ {0} BY <1>3, <3>1, EmptySeq
      <4>2. Len(path[i].text) <= 1 BY <1>3
      <4>3. \A n \in Nat \ {0} : n <= 1 => n = 1 OBVIOUS
      <4>4. QED BY <4>1, <4>2, <4>3
    <3>3. QED BY <3>2 DEF Plain
  <2>3. QED BY <2>1, <2>2
<1>5. PICK p \in DOMAIN plans : plans[p] = "written" /\ OutputPath(p) = OutputPath(path)
  BY DEF RoutesInv, SiteIsServed
<1>6. site[OutputPath(p)] = Serve(p) /\ Serve(p) # NotFound BY <1>5 DEF RoutesInv, SiteIsServed
<1>7. Coded(p) /\ Plain(Stripped(p)) BY <1>6, AnsweredIsPlain DEF RoutesInv
<1>8. Stripped(p) = Stripped(path) BY <1>2, <1>4, <1>5, <1>7, SameDirectory
<1>9. Serve(p) = Serve(url)
  <2>1. Stripped(p) = Stripped(url) BY <1>2, <1>8 DEF path
  <2>2. QED BY <2>1, ServedByPath
<1>10. QED BY <1>5, <1>6, <1>9

LEMMA ReadersAgree == RoutesInv => RoutesAgree
<1> SUFFICES ASSUME RoutesInv PROVE RoutesAgree OBVIOUS
<1>1. \A url \in Urls : MostSpecific(url) BY TheMostSpecific DEF RoutesInv
<1>2. \A url \in Urls : SameOnSite(url) BY TheSameOnSite
<1>3. QED BY <1>1, <1>2 DEF RoutesAgree, RoutesInv, ShowsItsPage, SiteIsServed

\* The client finds the page that the server answered with, if it has that page.
LEMMA ClientFindsIt ==
  ASSUME RoutesTypeOK, NEW url, Serve(url).page \in hydrated
  PROVE  MatchRoute(url, ClientRoutes).page = Serve(url).page
<1> DEFINE path == Stripped(url)
           table == ClientRoutes
           U == {file \in Files : MatchPattern(Pattern(file), path)}
<1>1. routes \in Seq(Files) /\ hydrated \subseteq Files /\ Len(routes) \in Nat
      /\ \A i \in 1 .. Len(routes) : routes[i] \in Files
  BY LenProperties, ElementOfSeq DEF RoutesTypeOK
<1>2. Serve(url) # NotFound BY <1>1, RoutesAssumption DEF NotFound
<1>3. PICK i \in 1 .. Len(routes) :
        /\ MatchPattern(Pattern(routes[i]), path)
        /\ \A j \in 1 .. i - 1 : ~MatchPattern(Pattern(routes[j]), path)
        /\ Serve(url) = [page |-> routes[i], params |-> Params(Pattern(routes[i]), path)]
  BY <1>1, <1>2, MatchRouteCases DEF Serve
<1>4. Serve(url).page = routes[i] /\ routes[i] \in hydrated BY <1>3
<1>5. table = Kept(routes, hydrated) BY DEF ClientRoutes, Kept
<1>6. routes[i] \in U /\ \A j \in 1 .. i - 1 : routes[j] \notin U BY <1>1, <1>3
<1> HIDE DEF U, table
<1>7. table \in Seq(Files) /\ FirstIn(table, U, routes[i]) BY <1>1, <1>4, <1>5, <1>6, KeptFirst
<1>8. PICK k \in 1 .. Len(table) : table[k] = routes[i] /\ \A j \in 1 .. k - 1 : table[j] \notin U
  BY <1>7 DEF FirstIn
<1>9. Len(table) \in Nat /\ \A j \in 1 .. Len(table) :
        table[j] \in Files /\ (table[j] \in U <=> MatchPattern(Pattern(table[j]), path))
  BY <1>7, LenProperties, ElementOfSeq DEF U
<1>10. PICK n \in 1 .. Len(table) :
         /\ MatchPattern(Pattern(table[n]), path)
         /\ \A j \in 1 .. n - 1 : ~MatchPattern(Pattern(table[j]), path)
         /\ MatchRoute(url, table)
              = [page |-> table[n], params |-> Params(Pattern(table[n]), path)]
  BY <1>6, <1>7, <1>8, <1>9, MatchRouteCases
<1>11. n = k
  <2>1. ~(n \in 1 .. k - 1) BY <1>8, <1>9, <1>10
  <2>2. ~(k \in 1 .. n - 1) BY <1>6, <1>8, <1>9, <1>10
  <2>3. QED BY <1>9, <2>1, <2>2
<1>12. MatchRoute(url, table).page = routes[i] BY <1>8, <1>10, <1>11
<1>13. QED BY <1>4, <1>12 DEF table

-----------------------------------------------------------------------------
(* The steps.                                                              *)

LEMMA RoutesStart == RoutesInit => RoutesInv
<1> SUFFICES ASSUME RoutesInit PROVE RoutesInv OBVIOUS
<1>1. routes = <<>> /\ hydrated = {} /\ screen = <<>> /\ plans = <<>> /\ site = <<>>
  BY DEF RoutesInit
<1>2. RoutesTypeOK BY <1>1, EmptySeq DEF RoutesTypeOK, Ordered
<1>3. ShowsItsPage /\ SiteIsServed BY <1>1 DEF ShowsItsPage, SiteIsServed
<1>4. QED BY <1>2, <1>3 DEF RoutesInv

LEMMA ManifestKeeps == ASSUME RoutesInv, GenerateManifest PROVE RoutesInv'
<1>1. /\ routes = <<>> /\ screen = <<>> /\ DOMAIN plans = {}
      /\ UNCHANGED <<screen, plans, site>>
  BY DEF RoutesInv, RoutesTypeOK, GenerateManifest
<1>2. PICK files \in UNION {kSubset(n, Files) : n \in 1 .. MaxPages} :
        \E table \in SetToSeqs(files), hydrating \in SUBSET files :
          Ordered(table) /\ routes' = table /\ hydrated' = hydrating
  BY DEF GenerateManifest
<1>3. files \subseteq Files /\ Cardinality(files) \in Nat \ {0}
  <2>1. PICK n \in 1 .. MaxPages : files \in kSubset(n, Files) BY <1>2
  <2>2. n \in Nat \ {0} BY RoutesAssumption
  <2>3. QED BY <2>1, <2>2 DEF kSubset
<1>4. PICK table \in SetToSeqs(files), hydrating \in SUBSET files :
        Ordered(table) /\ routes' = table /\ hydrated' = hydrating
  BY <1>2
<1>5. table \in [1 .. Cardinality(files) -> files] BY DEF SetToSeqs
<1>6. routes' \in Seq(Files) /\ routes' # <<>>
  <2>1. table \in Seq(files) /\ Len(table) = Cardinality(files) BY <1>3, <1>5
  <2>2. table \in Seq(Files) BY <1>3, <2>1, SeqMonotonic
  <2>3. QED BY <1>3, <1>4, <2>1, <2>2
<1>7. RoutesTypeOK' BY <1>1, <1>3, <1>4, <1>6 DEF RoutesTypeOK, Ordered, DynamicSegments
<1>8. ShowsItsPage' BY <1>1 DEF ShowsItsPage
<1>9. SiteIsServed' BY <1>1 DEF RoutesInv, SiteIsServed
<1>10. QED BY <1>7, <1>8, <1>9 DEF RoutesInv

\* What the browser does concerns the screen only.
LEMMA ScreenKeeps ==
  ASSUME RoutesInv, UNCHANGED <<routes, hydrated, plans, site>>, ShowsItsPage',
         routes # <<>> \/ screen' = screen
  PROVE  RoutesInv'
<1>1. RoutesTypeOK' BY DEF RoutesInv, RoutesTypeOK, Ordered, DynamicSegments
<1>2. SiteIsServed' BY DEF RoutesInv, SiteIsServed, Serve
<1>3. QED BY <1>1, <1>2 DEF RoutesInv

LEMMA LoadShows == ASSUME RoutesInv, NEW url, Load(url), hydrated' = hydrated PROVE ShowsItsPage'
<1>1. screen'.answer = Serve(url)
      /\ screen'.component = IF Serve(url).page \in hydrated
                             THEN MatchRoute(url, ClientRoutes).page ELSE Serve(url).page
  BY DEF Load
<1>2. Serve(url).page \in hydrated => MatchRoute(url, ClientRoutes).page = Serve(url).page
  BY ClientFindsIt DEF RoutesInv
<1>3. QED BY <1>1, <1>2 DEF ShowsItsPage

LEMMA MountKeeps == ASSUME RoutesInv, NEW url, Mount(url) PROVE RoutesInv'
<1>1. ShowsItsPage' BY LoadShows DEF Mount
<1>2. QED BY <1>1, ScreenKeeps DEF Mount

LEMMA NavigateKeeps == ASSUME RoutesInv, NEW url, Navigate(url) PROVE RoutesInv'
<1> DEFINE matched == MatchRoute(url, ClientRoutes)
<1>1. screen # <<>> /\ UNCHANGED <<routes, hydrated, plans, site>> BY DEF Navigate
<1>2. routes # <<>> BY <1>1 DEF RoutesInv, RoutesTypeOK
<1>3. ShowsItsPage'
  <2>1. CASE matched = NotFound
    <3>1. Load(url) BY <2>1 DEF Navigate
    <3>2. QED BY <1>1, <3>1, LoadShows
  <2>2. CASE matched # NotFound
    <3>1. screen'.answer = Serve(url) /\ screen'.component = matched.page
      BY <2>2 DEF Navigate
    <3>2. Serve(url).page \in hydrated => matched.page = Serve(url).page
      BY ClientFindsIt DEF RoutesInv
    <3>3. QED BY <1>1, <3>1, <3>2 DEF ShowsItsPage
  <2>3. QED BY <2>1, <2>2
<1>4. QED BY <1>1, <1>2, <1>3, ScreenKeeps

LEMMA FilledIsCoded ==
  ASSUME NEW file \in Files, NEW params, params = <<>> \/ params \in ParamSets,
         Fills(Pattern(file), params)
  PROVE  /\ Coded(FillPattern(Pattern(file), params))
         /\ \A i \in 1 .. Len(FillPattern(Pattern(file), params)) :
              Len(FillPattern(Pattern(file), params)[i].text) <= 1
<1> DEFINE pattern == Pattern(file)
           texts == [i \in 1 .. Len(pattern) |->
                      IF pattern[i].param THEN params[pattern[i].text] ELSE pattern[i].text]
<1>1. IsPattern(pattern) BY PatternShape
<1>2. pattern \in Seq(Part) /\ Len(pattern) \in Nat /\ DOMAIN pattern = 1 .. Len(pattern)
  BY <1>1, LenProperties DEF IsPattern
<1>3. \A n \in DOMAIN params : params[n] \in Texts BY DEF ParamSets
<1>4. Fills(pattern, params) OBVIOUS
<1> HIDE DEF pattern
<1>5. ASSUME NEW i \in 1 .. Len(pattern) PROVE texts[i] \in Seq(STRING) /\ Len(texts[i]) <= 1
  <2>1. pattern[i] \in Part BY <1>2, ElementOfSeq
  <2>2. CASE pattern[i].param
    <3>1. pattern[i].text \in DOMAIN params /\ Len(params[pattern[i].text]) <= 1
      BY <1>2, <1>4, <2>2 DEF Fills
    <3>2. QED BY <1>3, <2>2, <3>1, RoutesAssumption
  <2>3. CASE ~pattern[i].param
    <3>1. pattern[i].text \in Seq(STRING) BY <2>1 DEF Part
    <3>2. Len(pattern[i].text) <= 1
      <4>1. CASE pattern = <<Static(<<>>)>> BY <1>2, <4>1 DEF Static
      <4>2. CASE \A j \in 1 .. Len(pattern) : Len(pattern[j].text) = 1
        <5>1. Len(pattern[i].text) = 1 BY <4>2
        <5>2. QED BY <5>1
      <4>3. QED BY <1>1, <4>1, <4>2 DEF IsPattern
    <3>3. QED BY <2>3, <3>1, <3>2
  <2>4. QED BY <2>2, <2>3
<1>6. texts \in [1 .. Len(pattern) -> Seq(STRING)] BY <1>5
<1>7. FillPattern(pattern, params) = [i \in DOMAIN texts |-> Encode(texts[i])]
  BY <1>2 DEF FillPattern
<1> HIDE DEF texts
<1>8. LET path == [i \in DOMAIN texts |-> Encode(texts[i])]
      IN Coded(path) /\ Len(path) = Len(pattern) /\ \A i \in 1 .. Len(pattern) : path[i].text = texts[i]
  BY <1>2, <1>6, CodedTexts
<1>9. QED BY <1>5, <1>7, <1>8 DEF pattern

LEMMA PlanKeeps == ASSUME RoutesInv, PlanExport PROVE RoutesInv'
<1>1. routes # <<>> /\ screen = <<>> /\ UNCHANGED <<routes, hydrated, screen>> /\ site' = <<>>
  BY DEF PlanExport
<1>2. PICK exported \in SUBSET ToSet(routes) :
        \E lists \in [exported -> UNION {kSubset(n, ParamSets) : n \in 0 .. MaxSets}] :
          LET params(file) == IF DynamicSegments(file) > 0 THEN lists[file] ELSE {<<>>}
              paths == UNION {{FillPattern(Pattern(file), p) : p \in params(file)} : file \in exported}
          IN /\ \A file \in exported : \A p \in params(file) : Fills(Pattern(file), p)
             /\ plans' = [path \in paths |-> "planned"]
  BY DEF PlanExport
<1>3. PICK lists \in [exported -> UNION {kSubset(n, ParamSets) : n \in 0 .. MaxSets}] :
        LET params(file) == IF DynamicSegments(file) > 0 THEN lists[file] ELSE {<<>>}
            paths == UNION {{FillPattern(Pattern(file), p) : p \in params(file)} : file \in exported}
        IN /\ \A file \in exported : \A p \in params(file) : Fills(Pattern(file), p)
           /\ plans' = [path \in paths |-> "planned"]
  BY <1>2
<1> DEFINE params(file) == IF DynamicSegments(file) > 0 THEN lists[file] ELSE {<<>>}
           paths == UNION {{FillPattern(Pattern(file), p) : p \in params(file)} : file \in exported}
<1>4. /\ \A file \in exported : \A p \in params(file) : Fills(Pattern(file), p)
      /\ plans' = [path \in paths |-> "planned"]
  BY <1>3
<1>5. exported \subseteq Files
  <2>1. routes \in Seq(Files) BY DEF RoutesInv, RoutesTypeOK
  <2>2. DOMAIN routes = 1 .. Len(routes) /\ \A i \in 1 .. Len(routes) : routes[i] \in Files
    BY <2>1, LenProperties, ElementOfSeq
  <2>3. QED BY <2>2 DEF ToSet
<1>6. ASSUME NEW file \in exported, NEW p \in params(file) PROVE p = <<>> \/ p \in ParamSets
  <2>1. lists[file] \subseteq ParamSets BY DEF kSubset
  <2>2. QED BY <1>6, <2>1
<1> HIDE DEF params
<1>7. ASSUME NEW path \in paths
      PROVE  Coded(path) /\ \A i \in 1 .. Len(path) : Len(path[i].text) <= 1
  <2>1. PICK file \in exported : \E p \in params(file) : path = FillPattern(Pattern(file), p)
    OBVIOUS
  <2>2. PICK p \in params(file) : path = FillPattern(Pattern(file), p) BY <2>1
  <2>3. (p = <<>> \/ p \in ParamSets) /\ Fills(Pattern(file), p) /\ file \in Files
    BY <1>4, <1>5, <1>6
  <2>4. QED BY <2>2, <2>3, FilledIsCoded
<1> HIDE DEF paths
<1>8. DOMAIN plans' = paths /\ \A path \in paths : plans'[path] # "written" BY <1>4
<1>9. RoutesTypeOK' BY <1>1, <1>7, <1>8 DEF RoutesInv, RoutesTypeOK, Ordered, DynamicSegments
<1>10. ShowsItsPage' BY <1>1 DEF ShowsItsPage
<1>11. SiteIsServed' BY <1>1, <1>8 DEF SiteIsServed
<1>12. QED BY <1>9, <1>10, <1>11 DEF RoutesInv

LEMMA ExportKeeps == ASSUME RoutesInv, NEW path \in DOMAIN plans, ExportPage(path) PROVE RoutesInv'
<1>1. plans[path] = "planned" /\ UNCHANGED <<routes, hydrated, screen>> BY DEF ExportPage
<1>2. DOMAIN plans' = DOMAIN plans BY DEF ExportPage
<1>3. RoutesTypeOK' BY <1>1, <1>2 DEF RoutesInv, RoutesTypeOK, Ordered, DynamicSegments
<1>4. ShowsItsPage' BY <1>1 DEF RoutesInv, ShowsItsPage
<1>5. \A p : Serve(p)' = Serve(p) BY <1>1 DEF Serve
<1>6. CASE plans' = [plans EXCEPT ![path] = "failed"] /\ UNCHANGED site
  <2>1. \A p \in DOMAIN plans : plans'[p] = "written" <=> plans[p] = "written" BY <1>1, <1>6
  <2>2. SiteIsServed' BY <1>2, <1>5, <1>6, <2>1 DEF RoutesInv, SiteIsServed
  <2>3. QED BY <1>3, <1>4, <2>2 DEF RoutesInv
<1>7. CASE /\ Serve(path) # NotFound
           /\ site' = [dir \in DOMAIN site \cup {OutputPath(path)} |->
                        IF dir = OutputPath(path) THEN Serve(path) ELSE site[dir]]
           /\ plans' = [plans EXCEPT ![path] = "written"]
  <2> DEFINE dir == OutputPath(path)
  <2>1. /\ DOMAIN site' = {dir} \cup DOMAIN site
        /\ \A d \in DOMAIN site' : site'[d] = IF d = dir THEN Serve(path) ELSE site[d]
    BY <1>7
  <2>2. \A p \in DOMAIN plans : plans'[p] = IF p = path THEN "written" ELSE plans[p] BY <1>7
  <2>3. Coded(path) /\ Plain(Stripped(path)) BY <1>7, AnsweredIsPlain DEF RoutesInv
  <2>4. ASSUME NEW p \in DOMAIN plans', plans'[p] = "written"
        PROVE  /\ OutputPath(p) \in DOMAIN site' /\ site'[OutputPath(p)] = Serve(p)
               /\ Serve(p) # NotFound
    <3>1. CASE p = path BY <1>7, <2>1, <3>1
    <3>2. CASE p # path
      <4>1. /\ OutputPath(p) \in DOMAIN site /\ site[OutputPath(p)] = Serve(p)
            /\ Serve(p) # NotFound /\ p \in DOMAIN plans
        BY <1>2, <2>2, <2>4, <3>2 DEF RoutesInv, SiteIsServed
      <4>2. CASE OutputPath(p) = dir
        <5>1. Coded(p) /\ Plain(Stripped(p)) BY <4>1, AnsweredIsPlain DEF RoutesInv
        <5>2. Stripped(p) = Stripped(path) BY <2>3, <4>2, <5>1, SameDirectory
        <5>3. Serve(p) = Serve(path) BY <5>2, ServedByPath
        <5>4. QED BY <1>7, <2>1, <4>2, <5>3
      <4>3. CASE OutputPath(p) # dir BY <2>1, <4>1, <4>3
      <4>4. QED BY <4>2, <4>3
    <3>3. QED BY <3>1, <3>2
  <2>5. ASSUME NEW d \in DOMAIN site'
        PROVE  \E p \in DOMAIN plans' : plans'[p] = "written" /\ OutputPath(p) = d
    <3>1. CASE d = dir BY <1>2, <2>2, <3>1
    <3>2. CASE d # dir
      <4>1. d \in DOMAIN site BY <2>1, <3>2
      <4>2. PICK p \in DOMAIN plans : plans[p] = "written" /\ OutputPath(p) = d
        BY <4>1 DEF RoutesInv, SiteIsServed
      <4>3. QED BY <1>2, <2>2, <4>2
    <3>3. QED BY <3>1, <3>2
  <2>6. SiteIsServed' BY <1>5, <2>4, <2>5 DEF SiteIsServed
  <2>7. QED BY <1>3, <1>4, <2>6 DEF RoutesInv
<1>8. QED BY <1>6, <1>7 DEF ExportPage

LEMMA RoutesStep == RoutesInv /\ [RoutesNext]_routesVars => RoutesInv'
<1> SUFFICES ASSUME RoutesInv, [RoutesNext]_routesVars PROVE RoutesInv' OBVIOUS
<1>1. CASE GenerateManifest BY <1>1, ManifestKeeps
<1>2. CASE PlanExport BY <1>2, PlanKeeps
<1>3. CASE \E url \in Urls : Mount(url) \/ Navigate(url) BY <1>3, MountKeeps, NavigateKeeps
<1>4. CASE \E path \in DOMAIN plans : ExportPage(path) BY <1>4, ExportKeeps
<1>5. CASE UNCHANGED routesVars
  <2>1. ShowsItsPage' BY <1>5 DEF RoutesInv, ShowsItsPage, routesVars
  <2>2. QED BY <1>5, <2>1, ScreenKeeps DEF routesVars
<1>6. QED BY <1>1, <1>2, <1>3, <1>4, <1>5 DEF RoutesNext

\* What the readers of the table know of it is invariant: router.ts, build.ts,
\* runtime.ts, export.ts.
THEOREM RoutesInvariance == RoutesSpec => []RoutesInv
<1>1. QED BY RoutesStart, RoutesStep, PTL DEF RoutesSpec

\* The server, the browser and the exported site agree on the page of a url, in an
\* app of any size; router.ts:44-51, runtime.ts:294, export.ts:188-237.
THEOREM RoutesAgreeAlways == RoutesSpec => []RoutesAgree
<1>1. QED BY RoutesInvariance, ReadersAgree, PTL

-----------------------------------------------------------------------------
(* The front server.                                                       *)

\* A step of the server is a step of one topic, or leaves it alone; so with cookies,
\* the /api hop and routes.
LEMMA FrontSteps ==
  [FrontNext]_frontVars =>
    /\ [RealtimeNext]_realtimeVars /\ [RequestsNext]_requestsVars
    /\ [ProxyNext]_proxyVars /\ [RoutesNext]_routesVars
<1> SUFFICES ASSUME [FrontNext]_frontVars
    PROVE  /\ [RealtimeNext]_realtimeVars /\ [RequestsNext]_requestsVars
           /\ [ProxyNext]_proxyVars /\ [RoutesNext]_routesVars
  OBVIOUS
<1>1. CASE UNCHANGED frontVars BY <1>1 DEF frontVars
<1>2. CASE FrontNext BY <1>2 DEF FrontNext
<1>3. QED BY <1>1, <1>2

\* The part that has work keeps what it promises, and the other of the two that read
\* the tree never began: what follows for the tree from one holds for both.
FilesInv ==
  IF workload = "worker" THEN WorkerInv /\ copy = Nothing
  ELSE AssetsInv /\ \A s \in 1 .. MaxBuilds : caches[s] = Nothing

LEMMA FilesStart == FrontInit => FilesInv
<1> SUFFICES ASSUME FrontInit PROVE FilesInv OBVIOUS
<1>1. AssetsInit /\ WorkerInit BY DEF FrontInit
<1>2. AssetsInv /\ WorkerInv BY <1>1, AssetsInitially, WorkerStarts
<1>3. copy = Nothing /\ \A s \in 1 .. MaxBuilds : caches[s] = Nothing
  BY <1>1 DEF AssetsInit, WorkerInit
<1>4. QED BY <1>2, <1>3 DEF FilesInv

LEMMA FilesStep == FilesInv /\ [FrontNext]_frontVars => FilesInv'
<1> SUFFICES ASSUME FilesInv, [FrontNext]_frontVars PROVE FilesInv' OBVIOUS
<1>1. workload' = workload BY DEF FrontNext, frontVars
<1>2. CASE workload = "worker"
  <2>1. [WorkerNext]_workerVars /\ copy' = copy
    <3>1. CASE UNCHANGED frontVars BY <3>1 DEF frontVars, filesVars, assetsVars
    <3>2. CASE FrontNext BY <1>2, <3>2 DEF FrontNext, filesVars
    <3>3. QED BY <3>1, <3>2
  <2>2. WorkerInv' BY <1>2, <2>1, WorkerSteps DEF FilesInv
  <2>3. QED BY <1>1, <1>2, <2>1, <2>2 DEF FilesInv
<1>3. CASE workload # "worker"
  <2>1. [AssetsNext]_assetsVars /\ caches' = caches
    <3>1. CASE UNCHANGED frontVars BY <3>1 DEF frontVars, filesVars, workerVars
    <3>2. CASE FrontNext BY <1>3, <3>2 DEF FrontNext, filesVars, workerVars
    <3>3. QED BY <3>1, <3>2
  <2>2. AssetsInv' BY <1>3, <2>1, AssetsStep DEF FilesInv
  <2>3. QED BY <1>1, <1>3, <2>1, <2>2 DEF FilesInv
<1>4. QED BY <1>2, <1>3

LEMMA FilesPromise == FilesInv => CopiesAreTrue /\ CacheIsItsBuild
<1> SUFFICES ASSUME FilesInv PROVE CopiesAreTrue /\ CacheIsItsBuild OBVIOUS
<1>1. CASE workload = "worker"
  <2>1. CopiesAreTrue BY <1>1 DEF FilesInv, CopiesAreTrue
  <2>2. QED BY <1>1, <2>1 DEF FilesInv, WorkerInv
<1>2. CASE workload # "worker"
  <2>1. CacheIsItsBuild BY <1>2 DEF FilesInv, CacheIsItsBuild, Filled
  <2>2. QED BY <1>2, <2>1, TrueCopies DEF FilesInv
<1>3. QED BY <1>1, <1>2

\* Whatever else the front server serves, a topic in it is a topic as specified, and
\* fair to its channels; server.ts:262-329.
THEOREM FrontRunsTopics == FrontSpec => RealtimeSpec
<1>1. FrontInit => RealtimeInit BY DEF FrontInit
<1>2. [FrontNext]_frontVars => [RealtimeNext]_realtimeVars BY FrontSteps
<1>3. QED BY <1>1, <1>2, PTL DEF FrontSpec, RealtimeSpec

\* Whatever else the front server serves, cookies go through it as specified.
THEOREM FrontRunsRequests == FrontSpec => RequestsSpec
<1>1. FrontInit => RequestsInit BY DEF FrontInit
<1>2. [FrontNext]_frontVars => [RequestsNext]_requestsVars BY FrontSteps
<1>3. QED BY <1>1, <1>2, PTL DEF FrontSpec, RequestsSpec

\* Whatever else the front server serves, it forwards requests to the api as
\* specified, and no request that has a step waits for the other parts; util.ts:755-872.
THEOREM FrontRunsProxy == FrontSpec => ProxySpec
<1>1. FrontInit => ProxyInit BY DEF FrontInit
<1>2. [FrontNext]_frontVars => [ProxyNext]_proxyVars BY FrontSteps
<1>3. QED BY <1>1, <1>2, PTL DEF FrontSpec, ProxySpec

\* Whatever else the front server serves, its table of pages is built, matched and
\* exported as specified.
THEOREM FrontRunsRoutes == FrontSpec => RoutesSpec
<1>1. FrontInit => RoutesInit BY DEF FrontInit
<1>2. [FrontNext]_frontVars => [RoutesNext]_routesVars BY FrontSteps
<1>3. QED BY <1>1, <1>2, PTL DEF FrontSpec, RoutesSpec

\* What the parts promise holds of the server that runs them: topics in
\* order, cookies that reach the browser and pages that match them, forms that
\* are accepted, requests that reach the api once and answers that are true of them,
\* static files and caches of one build, and one page for a url;
\* server.ts, util.ts, compress.ts, pwa.ts, router.ts.
THEOREM FrontServerSafe ==
  FrontSpec => [](/\ PublishedInOrder
                  /\ CookiesReachBrowser /\ PageMatchesJar /\ FormsAreAccepted
                  /\ ReceivedOnce /\ AnswerIsTrue
                  /\ CopiesAreTrue /\ CacheIsItsBuild /\ RoutesAgree)
<1>1. FrontInit => FilesInv BY FilesStart
<1>2. FilesInv /\ [FrontNext]_frontVars => FilesInv' BY FilesStep
<1>3. FilesInv => CopiesAreTrue /\ CacheIsItsBuild BY FilesPromise
<1>4. FrontSpec => [](CopiesAreTrue /\ CacheIsItsBuild) BY <1>1, <1>2, <1>3, PTL DEF FrontSpec
<1>5. FrontSpec => []PublishedInOrder
  BY FrontRunsTopics, PublishedInOrderAlways, PTL
<1>6. FrontSpec => [](CookiesReachBrowser /\ PageMatchesJar /\ FormsAreAccepted)
  BY FrontRunsRequests, CookiesReachBrowserAlways, PageMatchesJarAlways,
     FormsAreAcceptedAlways, PTL
<1>7. FrontSpec => []RoutesAgree BY FrontRunsRoutes, RoutesAgreeAlways, PTL
<1>8. FrontSpec => [](ReceivedOnce /\ AnswerIsTrue)
  BY FrontRunsProxy, ReceivedOnceAlways, AnswerIsTrueAlways, PTL
<1>9. QED BY <1>4, <1>5, <1>6, <1>7, <1>8, PTL
=============================================================================
