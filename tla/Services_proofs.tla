--------------------------- MODULE Services_proofs ---------------------------
(***************************************************************************)
(* AccountsInvariant, SpentCodesAreDead, CatalogInvariant and              *)
(* DeletionScope hold for any mailboxes, datasets and models and any       *)
(* number of overlapping requests, codes, users and faults.                *)
(***************************************************************************)
EXTENDS Accounts, Catalog, TLAPS

-----------------------------------------------------------------------------
(* Accounts.                                                               *)

LoggingIn == {"find", "findAgain", "create", "delete"}
Visit ==
  [op : {"none", "send", "login", "close"},
   at : {"end", "turnstile", "mail", "put", "verify", "me", "row"} \cup LoggingIn,
   email : Normal, code : Input, id : Nat, token : [id : Nat, by : Boxes, code : Input]]

\* A code is mailed once, and used after that.
MailInPlace ==
  /\ \A p \in inbox : p[2] <= lastCode
  /\ \A c \in spent : c <= lastCode
  /\ \A p, q \in inbox : p[2] = q[2] => p = q

\* A stored code was mailed to the address, and has signed nobody in.
CodesInPlace ==
  \A e \in Typed : codes[e] # NoCode => <<e[1], codes[e]>> \in inbox /\ codes[e] \notin spent

Putting(s) == VisitAt(s, "send", "put")

\* A code on its way to the cache was mailed, is not there yet, and has signed
\* nobody in; it is the newest of its mailbox, unless sends have overlapped.
SendsInPlace ==
  \A s \in Visitors : Putting(s) =>
    /\ visit[s].code \in 1..lastCode /\ <<BoxOf(s), visit[s].code>> \in inbox
    /\ visit[s].code \notin spent
    /\ \A e \in Typed : codes[e] # visit[s].code
    /\ \A t \in Visitors : Putting(t) /\ visit[t].code = visit[s].code => t = s
    /\ BoxOf(s) \notin crossed =>
         /\ \A p \in inbox : p[1] = BoxOf(s) => p[2] <= visit[s].code
         /\ \A t \in Visitors : Putting(t) /\ BoxOf(t) = BoxOf(s) => t = s

\* A login that has passed the check has proved its mailbox with a code that is
\* on its way nowhere, and names the account of the mailbox once it has found it.
Verified(s) ==
  \/ visit[s].code = DevCode /\ ~prod
  \/ /\ visit[s].code \in 1..lastCode /\ <<BoxOf(s), visit[s].code>> \in inbox
     /\ \A t \in Visitors : Putting(t) => visit[t].code # visit[s].code

Found(s) ==
  visit[s].id \in UserIds /\ users[visit[s].id].state # "unused"
    /\ users[visit[s].id].email = Email(s)

LoginsInPlace ==
  \A s \in Visitors :
    /\ visit[s].at \in LoggingIn => Verified(s)
    /\ visit[s].at = "delete" => Found(s)

\* Tokens name accounts that have been created.
TokensInPlace ==
  \A t \in tokens : users[t.id].state # "unused" /\ users[t.id].email[1] = t.by

AccountsStrong ==
  /\ AccountsTypeOK /\ OneAccountPerMailbox /\ CodeProvesMailbox /\ NewestCodeCounts
  /\ prod \in BOOLEAN /\ visit \in [Visitors -> Visit]
  /\ MailInPlace /\ CodesInPlace /\ SendsInPlace /\ LoginsInPlace /\ TokensInPlace

\* There is a mailbox, and a visit that is none is typed.
LEMMA NoVisitTyped ==
  /\ SomeBox \in Boxes /\ <<SomeBox, "plain">> \in Normal
  /\ NoVisit \in Visit /\ NoVisit.op = "none" /\ NoVisit.at = "end"
<1>1. SomeBox \in Boxes
  BY AccountsAssumption DEF SomeBox
<1>2. <<SomeBox, "plain">> \in Normal
  BY <1>1 DEF Normal
<1>3. NoCode \in Input
  BY AccountsAssumption DEF NoCode, Input
<1>4. NoVisit \in Visit /\ NoVisit.op = "none" /\ NoVisit.at = "end"
  BY <1>1, <1>2, <1>3 DEF NoVisit, Visit
<1> QED
  BY <1>1, <1>2, <1>4

\* At the start there are no codes, no users and no visits.
LEMMA AccountsStart == AccountsInit => AccountsStrong
<1> SUFFICES ASSUME AccountsInit PROVE AccountsStrong
  OBVIOUS
<1> USE AccountsAssumption, FaultAssumption DEF AccountsInit, FaultInit, NoCode
<1>1. users \in [UserIds -> [state : {"unused", "active", "gone"}, email : Normal]]
  BY NoVisitTyped
<1>2. AccountsTypeOK
  BY <1>1 DEF AccountsTypeOK, Typed, Normal, Spellings, Token, Input
<1>3. visit \in [Visitors -> Visit] /\ \A s \in Visitors : visit[s].at = "end"
  BY NoVisitTyped
<1>4. SendsInPlace /\ LoginsInPlace
  BY <1>3 DEF SendsInPlace, LoginsInPlace, Putting, VisitAt, LoggingIn
<1>5. MailInPlace /\ CodesInPlace /\ TokensInPlace /\ CodeProvesMailbox
  BY DEF MailInPlace, CodesInPlace, TokensInPlace, CodeProvesMailbox
<1>6. NewestCodeCounts
  BY DEF NewestCodeCounts
<1>7. OneAccountPerMailbox
  BY DEF OneAccountPerMailbox, Active
<1>8. prod \in BOOLEAN
  OBVIOUS
<1> QED
  BY <1>2, <1>3, <1>4, <1>5, <1>6, <1>7, <1>8 DEF AccountsStrong

\* A request that goes on or ends leaves codes, users and tokens as they are.
LEMMA VisitKeeps ==
  ASSUME AccountsStrong, NEW s \in Visitors, NEW v \in Visit,
         visit' = [visit EXCEPT ![s] = v],
         UNCHANGED <<service, spent, crossed>>,
         visits' \in 0..MaxVisits, faults' \in 0..MaxFaults, faults' >= faults,
         ~(v.op = "send" /\ v.at = "put"),
         Putting(s) => faults' > 0,
         v.at \in LoggingIn => Verified(s) /\ v.code = visit[s].code /\ v.email = visit[s].email,
         v.at = "delete" => v.id \in UserIds /\ users[v.id].state # "unused" /\ users[v.id].email = v.email
  PROVE  AccountsStrong'
<1> USE AccountsAssumption DEF AccountsStrong
<1>1. UNCHANGED <<prod, turnstile, codes, inbox, lastCode, users, tokens>>
  BY DEF service
<1>2. /\ visit' \in [Visitors -> Visit] /\ visit'[s] = v
      /\ \A t \in Visitors \ {s} : visit'[t] = visit[t]
  OBVIOUS
<1>3. AccountsTypeOK'
  BY <1>1 DEF AccountsTypeOK, Typed, Normal, Token, UserIds, Input
<1>4. \A t \in Visitors : Putting(t)' => /\ t # s /\ Putting(t) /\ visit'[t] = visit[t] /\ BoxOf(t)' = BoxOf(t)
  BY <1>2 DEF Putting, VisitAt, BoxOf
<1>5. SendsInPlace'
  BY <1>1, <1>4 DEF SendsInPlace, Typed
<1>6. LoginsInPlace'
  <2> SUFFICES ASSUME NEW t \in Visitors
               PROVE  /\ visit'[t].at \in LoggingIn => Verified(t)'
                      /\ visit'[t].at = "delete" => Found(t)'
    BY DEF LoginsInPlace
  <2>1. CASE t = s
    <3>1. v.at \in LoggingIn => Verified(s)'
      BY <1>1, <1>2, <1>4 DEF Verified, BoxOf
    <3>2. v.at = "delete" => Found(s)'
      BY <1>1, <1>2 DEF Found, Email, UserIds
    <3> QED
      BY <1>2, <2>1, <3>1, <3>2
  <2>2. CASE t # s
    <3>1. visit'[t] = visit[t] /\ BoxOf(t)' = BoxOf(t) /\ Email(t)' = Email(t)
      BY <1>2, <2>2 DEF BoxOf, Email
    <3>2. Verified(t) => Verified(t)'
      BY <1>1, <1>4, <3>1 DEF Verified
    <3>3. Found(t) => Found(t)'
      BY <1>1, <3>1 DEF Found, UserIds
    <3> QED
      BY <3>1, <3>2, <3>3 DEF LoginsInPlace
  <2> QED
    BY <2>1, <2>2
<1>7. MailInPlace' /\ CodesInPlace' /\ TokensInPlace' /\ CodeProvesMailbox' /\ OneAccountPerMailbox'
  BY <1>1 DEF MailInPlace, CodesInPlace, TokensInPlace, CodeProvesMailbox, OneAccountPerMailbox, Active,
     UserIds, Typed
<1>8. NewestCodeCounts'
  <2> SUFFICES ASSUME NEW b \in Boxes \ crossed, codes[<<b, "plain">>] # NoCode,
                      NEW c \in 1..MaxCodes, <<b, c>> \in inbox, ~(c <= codes[<<b, "plain">>]), ~(faults' > 0)
               PROVE  \E t \in Visitors : Putting(t)' /\ <<b, c>> = <<BoxOf(t), visit[t].code>>'
    BY <1>1 DEF NewestCodeCounts, Putting
  <2>1. ~(faults > 0)
    BY DEF AccountsTypeOK
  <2>2. PICK t \in Visitors : Putting(t) /\ <<b, c>> = <<BoxOf(t), visit[t].code>>
    BY <2>1 DEF NewestCodeCounts, Putting
  <2>3. t # s
    BY <2>2
  <2>4. visit'[t] = visit[t]
    BY <1>2, <2>3
  <2> QED
    BY <2>2, <2>4 DEF Putting, VisitAt, BoxOf
<1> QED
  BY <1>1, <1>2, <1>3, <1>5, <1>6, <1>7, <1>8

\* A visit that goes on keeps its type.
LEMMA VisitOnTyped ==
  ASSUME NEW v \in Visit, NEW a \in {"turnstile", "mail", "put", "verify", "me", "row"} \cup LoggingIn
  PROVE  /\ [v EXCEPT !.at = a] \in Visit /\ [v EXCEPT !.at = a].at = a
         /\ [v EXCEPT !.at = a].op = v.op /\ [v EXCEPT !.at = a].code = v.code
         /\ [v EXCEPT !.at = a].email = v.email /\ [v EXCEPT !.at = a].id = v.id
BY DEF Visit

\* A fault is counted.
LEMMA FaultCounts == ASSUME NEW k, Fault(k), faults \in 0..MaxFaults
                     PROVE faults' \in 0..MaxFaults /\ faults' >= faults /\ faults' > 0
BY FaultAssumption DEF Fault

\* The visit of s moves on to a step outside the login, or inside it once it
\* has proved its mailbox.
LEMMA VisitGoesOn ==
  ASSUME AccountsStrong, NEW s \in Visitors, UNCHANGED <<service, visits, spent, crossed, faults>>,
         ~Putting(s),
         NEW a \in {"turnstile", "mail", "verify", "me", "row"} \cup LoggingIn,
         visit' = [visit EXCEPT ![s].at = a],
         a \in LoggingIn => Verified(s), a # "delete"
  PROVE  AccountsStrong'
<1> DEFINE v == [visit[s] EXCEPT !.at = a]
<1>1. visit[s] \in Visit
  BY DEF AccountsStrong
<1>2. v \in Visit /\ v.at = a /\ v.op = visit[s].op /\ v.code = visit[s].code /\ v.email = visit[s].email
  BY <1>1, VisitOnTyped
<1>3. visit' = [visit EXCEPT ![s] = v]
  OBVIOUS
<1>4. faults' \in 0..MaxFaults /\ visits' \in 0..MaxVisits /\ faults' >= faults
  BY FaultAssumption DEF AccountsStrong, AccountsTypeOK
<1>5. a # "put"
  BY DEF LoggingIn
<1> HIDE DEF v
<1> QED
  BY <1>2, <1>3, <1>4, <1>5, VisitKeeps

\* A visit that ends.
LEMMA VisitEnds ==
  ASSUME AccountsStrong, NEW s \in Visitors, UNCHANGED <<service, visits, spent, crossed>>,
         EndVisit(s), faults' \in 0..MaxFaults, faults' >= faults, Putting(s) => faults' > 0
  PROVE  AccountsStrong'
<1>1. visit' = [visit EXCEPT ![s] = NoVisit] /\ visits' \in 0..MaxVisits
  BY DEF EndVisit, AccountsStrong, AccountsTypeOK
<1>2. NoVisit.at \notin LoggingIn
  BY NoVisitTyped DEF LoggingIn
<1> QED
  BY <1>1, <1>2, NoVisitTyped, VisitKeeps DEF LoggingIn

\* Requests begin, fail, are challenged, are checked, look for a user or for
\* their token; the database and the cache stay as they are.
LEMMA ReadsKeep ==
  ASSUME AccountsStrong, NEW s \in Visitors,
         BeginVisit(s) \/ VisitFails(s) \/ VerifyTurnstile(s) \/ VerifyCode(s) \/ lookupUser(s) \/ Me(s)
  PROVE  AccountsStrong'
<1>0. /\ visit[s] \in Visit /\ faults \in 0..MaxFaults /\ visits \in 0..MaxVisits
      /\ tokens \subseteq Token /\ faults >= faults
  BY FaultAssumption DEF AccountsStrong, AccountsTypeOK
<1>1. CASE BeginVisit(s)
  <2>1. PICK v \in Visit : visit' = [visit EXCEPT ![s] = v] /\ v.at \in {"turnstile", "verify", "me"}
    <3>1. CASE \E e \in Typed, op \in {"send", "login"}, c \in Input :
                 visit' = [visit EXCEPT ![s] = [NoVisit EXCEPT
                   !.op = op, !.email = requireEmail(e), !.code = c,
                   !.at = IF op = "send" THEN "turnstile" ELSE "verify"]]
      <4>1. PICK e \in Typed, op \in {"send", "login"}, c \in Input :
                 visit' = [visit EXCEPT ![s] = [NoVisit EXCEPT
                   !.op = op, !.email = requireEmail(e), !.code = c,
                   !.at = IF op = "send" THEN "turnstile" ELSE "verify"]]
        BY <3>1
      <4>2. requireEmail(e) \in Normal
        BY DEF requireEmail, Typed, Normal
      <4> DEFINE v == [NoVisit EXCEPT !.op = op, !.email = requireEmail(e), !.code = c,
                   !.at = IF op = "send" THEN "turnstile" ELSE "verify"]
      <4>3. v \in Visit /\ v.at \in {"turnstile", "verify", "me"}
        BY <4>2, NoVisitTyped DEF Visit
      <4> QED
        BY <4>1, <4>3
    <3>2. CASE \E t \in tokens :
                 visit' = [visit EXCEPT ![s] = [NoVisit EXCEPT !.op = "close", !.token = t, !.at = "me"]]
      <4>1. PICK t \in tokens :
                 visit' = [visit EXCEPT ![s] = [NoVisit EXCEPT !.op = "close", !.token = t, !.at = "me"]]
        BY <3>2
      <4>2. t \in [id : Nat, by : Boxes, code : Input]
        BY <1>0, AccountsAssumption DEF Token, UserIds
      <4> DEFINE v == [NoVisit EXCEPT !.op = "close", !.token = t, !.at = "me"]
      <4>3. v \in Visit /\ v.at \in {"turnstile", "verify", "me"}
        BY <4>2, NoVisitTyped DEF Visit
      <4> QED
        BY <4>1, <4>3
    <3> QED
      BY ONLY <1>1, <3>1, <3>2, Zenon DEF BeginVisit
  <2>2. visits' \in 0..MaxVisits /\ UNCHANGED <<service, spent, crossed, faults>>
    <3>1. visits \in 0..MaxVisits /\ visits < MaxVisits /\ visits' = visits + 1 /\ MaxVisits \in Nat
      BY <1>0, <1>1, AccountsAssumption DEF BeginVisit
    <3>2. visits' \in 0..MaxVisits
      BY ONLY <3>1
    <3> QED
      BY <1>1, <3>2 DEF BeginVisit
  <2>3. ~Putting(s)
    BY <1>1, NoVisitTyped DEF BeginVisit, Putting, VisitAt
  <2> QED
    BY <1>0, <2>1, <2>2, <2>3, VisitKeeps DEF LoggingIn
<1>2. CASE VisitFails(s)
  <2>1. faults' \in 0..MaxFaults /\ faults' >= faults /\ faults' > 0
    BY <1>0, <1>2, FaultCounts DEF VisitFails
  <2> QED
    BY <1>2, <2>1, VisitEnds DEF VisitFails
<1>3. CASE VerifyTurnstile(s)
  <2>1. ~Putting(s) /\ faults' = faults
    BY <1>3 DEF VerifyTurnstile, Putting, VisitAt
  <2>2. CASE VisitTo(s, "mail")
    BY <1>3, <2>1, <2>2, VisitGoesOn DEF VerifyTurnstile, VisitTo, LoggingIn
  <2>3. CASE EndVisit(s)
    BY <1>0, <1>3, <2>1, <2>3, VisitEnds DEF VerifyTurnstile
  <2> QED
    BY <1>3, <2>2, <2>3 DEF VerifyTurnstile
<1>4. CASE VerifyCode(s)
  <2>1. ~Putting(s) /\ faults' = faults
    BY <1>4 DEF VerifyCode, Putting, VisitAt
  <2>2. CASE EndVisit(s)
    BY <1>0, <1>4, <2>1, <2>2, VisitEnds DEF VerifyCode
  <2>3. CASE VisitTo(s, "find") /\ verifyCode(Email(s), visit[s].code)
    <3>1. Email(s) \in Typed /\ BoxOf(s) = Email(s)[1]
      BY <1>0 DEF Visit, Normal, Typed, Spellings, Email, BoxOf
    <3>2. CASE devCode # NoCode /\ visit[s].code = devCode
      <4>1. Verified(s)
        BY <3>2 DEF Verified, devCode
      <4> QED
        BY <1>4, <2>1, <2>3, <4>1, VisitGoesOn DEF VerifyCode, VisitTo, LoggingIn
    <3>3. CASE codes[Email(s)] # NoCode /\ visit[s].code = codes[Email(s)]
      <4>1. <<BoxOf(s), visit[s].code>> \in inbox
        BY <3>1, <3>3 DEF AccountsStrong, CodesInPlace
      <4>2. visit[s].code \in 1..lastCode
        <5>1. visit[s].code \in 1..MaxCodes /\ lastCode \in Nat /\ MaxCodes \in Nat
          BY <4>1, AccountsAssumption DEF AccountsStrong, AccountsTypeOK
        <5>2. visit[s].code <= lastCode
          BY <4>1 DEF AccountsStrong, MailInPlace
        <5> QED
          BY <5>1, <5>2
      <4>3. \A t \in Visitors : Putting(t) => visit[t].code # visit[s].code
        BY <3>1, <3>3 DEF AccountsStrong, SendsInPlace
      <4>4. Verified(s)
        BY <4>1, <4>2, <4>3 DEF Verified
      <4> QED
        BY <1>4, <2>1, <2>3, <4>4, VisitGoesOn DEF VerifyCode, VisitTo, LoggingIn
    <3> QED
      BY <2>3, <3>2, <3>3 DEF verifyCode
  <2> QED
    BY <1>4, <2>2, <2>3 DEF VerifyCode
<1>5. CASE lookupUser(s)
  <2>1. ~Putting(s) /\ faults' = faults /\ visit[s].at \in LoggingIn
    BY <1>5 DEF lookupUser, Putting, VisitAt, LoggingIn
  <2>2. Verified(s)
    BY <2>1 DEF AccountsStrong, LoginsInPlace
  <2>3. ASSUME NEW i \in Accounts(Email(s)),
               visit' = [visit EXCEPT ![s].at = "delete", ![s].id = i]
        PROVE  AccountsStrong'
    <3> DEFINE v == [visit[s] EXCEPT !.at = "delete", !.id = i]
    <3>1. i \in UserIds /\ users[i].state = "active" /\ users[i].email = Email(s) /\ i \in Nat
      BY AccountsAssumption DEF Accounts, Active, UserIds
    <3>2. /\ v \in Visit /\ v.at = "delete" /\ v.id = i
          /\ v.code = visit[s].code /\ v.email = visit[s].email
      BY <1>0, <3>1 DEF Visit, LoggingIn
    <3>3. visit' = [visit EXCEPT ![s] = v]
      BY <2>3
    <3>4. users[i].state # "unused" /\ users[i].email = v.email
      BY <3>1, <3>2 DEF Email
    <3> HIDE DEF v
    <3> QED
      BY <1>0, <1>5, <2>1, <2>2, <3>1, <3>2, <3>3, <3>4, VisitKeeps DEF lookupUser
  <2>4. CASE VisitTo(s, "create")
    BY <1>5, <2>1, <2>2, <2>4, VisitGoesOn DEF lookupUser, VisitTo, LoggingIn
  <2>5. CASE EndVisit(s)
    BY <1>0, <1>5, <2>1, <2>5, VisitEnds DEF lookupUser
  <2> QED
    BY <1>5, <2>3, <2>4, <2>5 DEF lookupUser
<1>6. CASE Me(s)
  <2>1. ~Putting(s) /\ faults' = faults
    BY <1>6 DEF Me, Putting, VisitAt
  <2>2. CASE VisitTo(s, "row")
    BY <1>6, <2>1, <2>2, VisitGoesOn DEF Me, VisitTo, LoggingIn
  <2>3. CASE EndVisit(s)
    BY <1>0, <1>6, <2>1, <2>3, VisitEnds DEF Me
  <2> QED
    BY <1>6, <2>2, <2>3 DEF Me
<1> QED
  BY <1>1, <1>2, <1>3, <1>4, <1>5, <1>6

\* What every step of a visit does to the others.
LEMMA OthersStay ==
  ASSUME visit \in [Visitors -> Visit], NEW s \in Visitors, NEW v \in Visit,
         visit' = [visit EXCEPT ![s] = v]
  PROVE  /\ visit' \in [Visitors -> Visit] /\ visit'[s] = v
         /\ \A t \in Visitors \ {s} :
              /\ visit'[t] = visit[t] /\ BoxOf(t)' = BoxOf(t) /\ Email(t)' = Email(t)
              /\ Putting(t)' = Putting(t)
BY DEF BoxOf, Email, Putting, VisitAt

\* A visit's address is normal, and its mailbox one of the mailboxes.
LEMMA AddressOf ==
  ASSUME visit \in [Visitors -> Visit], NEW s \in Visitors
  PROVE  /\ Email(s) \in Normal /\ Email(s) \in Typed /\ BoxOf(s) \in Boxes
         /\ Email(s) = <<BoxOf(s), "plain">>
<1>1. Email(s) \in Normal
  BY DEF Email, Visit
<1> QED
  BY <1>1 DEF Email, BoxOf, Normal, Typed, Spellings

\* A code is mailed: it is new, and its send overlaps those still on their way
\* to the cache.
LEMMA MailKeeps == ASSUME AccountsStrong, NEW s \in Visitors, Mail(s) PROVE AccountsStrong'
<1> DEFINE c == lastCode + 1
           v == [visit[s] EXCEPT !.at = "put", !.code = c]
<1>1. /\ VisitAt(s, "send", "mail") /\ lastCode < MaxCodes /\ lastCode' = c
      /\ inbox' = inbox \cup {<<BoxOf(s), c>>}
      /\ UNCHANGED <<prod, turnstile, codes, users, tokens, visits, spent, faults>>
      /\ visit' = [visit EXCEPT ![s] = v]
  BY DEF Mail
<1>2. /\ crossed \subseteq crossed' /\ crossed' \subseteq crossed \cup {BoxOf(s)}
      /\ (\E t \in Visitors : Putting(t) /\ BoxOf(t) = BoxOf(s)) => BoxOf(s) \in crossed'
  BY DEF Mail, Putting
<1>3. /\ visit \in [Visitors -> Visit] /\ visit[s] \in Visit
      /\ AccountsTypeOK /\ MailInPlace /\ CodesInPlace /\ SendsInPlace /\ LoginsInPlace
  BY DEF AccountsStrong
<1>4. lastCode \in 0..MaxCodes /\ MaxCodes \in Nat
  BY <1>3, AccountsAssumption DEF AccountsTypeOK
<1>5. c \in 1..MaxCodes /\ c \in Input /\ c > lastCode /\ c \in Nat
  BY <1>1, <1>4 DEF Input
<1>6. v \in Visit /\ v.at = "put" /\ v.op = "send" /\ v.code = c /\ v.email = visit[s].email
  BY <1>1, <1>3, <1>5 DEF Visit, VisitAt
<1> HIDE DEF v, c
<1>7. /\ visit' \in [Visitors -> Visit] /\ visit'[s] = v
      /\ \A t \in Visitors \ {s} :
           /\ visit'[t] = visit[t] /\ BoxOf(t)' = BoxOf(t) /\ Email(t)' = Email(t)
           /\ Putting(t)' = Putting(t)
  BY <1>1, <1>3, <1>6, OthersStay
<1>8. BoxOf(s)' = BoxOf(s) /\ BoxOf(s) \in Boxes /\ ~Putting(s)
  BY <1>1, <1>3, <1>6, <1>7, AddressOf DEF BoxOf, Putting, VisitAt
<1>9. AccountsTypeOK'
  <2>1. inbox' \subseteq Boxes \X (1..MaxCodes) /\ lastCode' \in 0..MaxCodes /\ crossed' \subseteq Boxes
    BY <1>1, <1>2, <1>3, <1>4, <1>5, <1>8 DEF AccountsTypeOK
  <2> QED
    BY <1>1, <1>3, <2>1 DEF AccountsTypeOK, UserIds, Token, Input
<1>10. \A p \in inbox : p[2] \in Nat /\ p[2] <= lastCode /\ p[2] # c
  <2>1. \A p \in inbox : p[2] \in Nat /\ p[2] <= lastCode
    BY <1>3, <1>4 DEF MailInPlace, AccountsTypeOK
  <2> QED
    BY <1>4, <1>5, <2>1
<1>11. MailInPlace'
  <2>1. \A p \in inbox' : p[2] <= c
    BY <1>1, <1>4, <1>5, <1>10
  <2>2. \A k \in spent' : k <= c
    <3>1. spent \subseteq Int /\ \A k \in spent : k <= lastCode
      BY <1>3, <1>4 DEF MailInPlace, AccountsTypeOK, Input
    <3> QED
      BY <1>1, <1>4, <1>5, <3>1
  <2>3. \A p, q \in inbox' : p[2] = q[2] => p = q
    BY <1>1, <1>3, <1>10 DEF MailInPlace
  <2> QED
    BY <1>1, <2>1, <2>2, <2>3 DEF MailInPlace
<1>12. CodesInPlace'
  BY <1>1, <1>3 DEF CodesInPlace, Typed
<1>13. SendsInPlace'
  <2> SUFFICES ASSUME NEW t \in Visitors, Putting(t)'
               PROVE  /\ visit'[t].code \in 1..lastCode' /\ <<BoxOf(t)', visit'[t].code>> \in inbox'
                      /\ visit'[t].code \notin spent'
                      /\ \A e \in Typed : codes'[e] # visit'[t].code
                      /\ \A u \in Visitors : Putting(u)' /\ visit'[u].code = visit'[t].code => u = t
                      /\ BoxOf(t)' \notin crossed' =>
                           /\ \A p \in inbox' : p[1] = BoxOf(t)' => p[2] <= visit'[t].code
                           /\ \A u \in Visitors : Putting(u)' /\ BoxOf(u)' = BoxOf(t)' => u = t
    BY DEF SendsInPlace, Typed
  <2>1. \A u \in Visitors \ {s} : Putting(u) => visit[u].code # c /\ visit[u].code \in 1..lastCode
    <3>1. \A k \in 1..lastCode : k # c
      BY <1>4, <1>5
    <3> QED
      BY <1>3, <3>1 DEF SendsInPlace
  <2>2. CASE t = s
    <3>1. c \notin spent
      <4>1. spent \subseteq Int /\ \A k \in spent : k <= lastCode
        BY <1>3, <1>4 DEF MailInPlace, AccountsTypeOK, Input
      <4> QED
        BY <1>4, <1>5, <4>1
    <3>2. \A e \in Typed : codes[e] # c
      <4> TAKE e \in Typed
      <4>1. CASE codes[e] = NoCode
        BY <1>5, <4>1 DEF NoCode
      <4>2. CASE codes[e] # NoCode
        BY <1>3, <1>10, <4>2 DEF CodesInPlace
      <4> QED
        BY <4>1, <4>2
    <3>3. c \in 1..lastCode' /\ <<BoxOf(s), c>> \in inbox'
      BY <1>1, <1>4, <1>5
    <3>4. \A p \in inbox' : p[2] <= c
      BY <1>1, <1>4, <1>5, <1>10
    <3>5. BoxOf(s) \notin crossed' => \A u \in Visitors \ {s} : ~(Putting(u) /\ BoxOf(u) = BoxOf(s))
      BY <1>2
    <3> QED
      BY <1>1, <1>6, <1>7, <1>8, <2>1, <2>2, <3>1, <3>2, <3>3, <3>4, <3>5
  <2>3. CASE t # s
    <3>1. Putting(t) /\ visit'[t] = visit[t] /\ BoxOf(t)' = BoxOf(t)
      BY <1>7, <2>3
    <3>2. /\ visit[t].code \in 1..lastCode' /\ <<BoxOf(t), visit[t].code>> \in inbox'
          /\ visit[t].code \notin spent' /\ \A e \in Typed : codes'[e] # visit[t].code
      <4>1. \A k \in 1..lastCode : k \in 1..lastCode'
        BY <1>1, <1>4, <1>5
      <4> QED
        BY <1>1, <1>3, <3>1, <4>1 DEF SendsInPlace
    <3>3. \A u \in Visitors : Putting(u)' /\ visit'[u].code = visit[t].code => u = t
      BY <1>3, <1>6, <1>7, <2>1, <2>3, <3>1 DEF SendsInPlace
    <3>4. ASSUME BoxOf(t) \notin crossed'
          PROVE  /\ \A p \in inbox' : p[1] = BoxOf(t) => p[2] <= visit[t].code
                 /\ \A u \in Visitors : Putting(u)' /\ BoxOf(u)' = BoxOf(t) => u = t
      <4>1. BoxOf(t) # BoxOf(s) /\ BoxOf(t) \notin crossed
        BY <1>2, <3>1, <3>4
      <4>2. /\ \A p \in inbox : p[1] = BoxOf(t) => p[2] <= visit[t].code
            /\ \A u \in Visitors : Putting(u) /\ BoxOf(u) = BoxOf(t) => u = t
        BY <1>3, <3>1, <4>1 DEF SendsInPlace
      <4>3. \A p \in inbox' : p[1] = BoxOf(t) => p \in inbox
        BY <1>1, <4>1
      <4>4. \A u \in Visitors : Putting(u)' /\ BoxOf(u)' = BoxOf(t) => Putting(u) /\ BoxOf(u) = BoxOf(t)
        BY <1>7, <1>8, <4>1
      <4> QED
        BY <4>2, <4>3, <4>4
    <3> QED
      BY <3>1, <3>2, <3>3, <3>4
  <2> QED
    BY <2>2, <2>3
<1>14. LoginsInPlace'
  <2> SUFFICES ASSUME NEW t \in Visitors
               PROVE  /\ visit'[t].at \in LoggingIn => Verified(t)'
                      /\ visit'[t].at = "delete" => Found(t)'
    BY DEF LoginsInPlace
  <2>1. CASE t = s
    BY <1>6, <1>7, <2>1 DEF LoggingIn
  <2>2. CASE t # s
    <3>1. visit'[t] = visit[t] /\ BoxOf(t)' = BoxOf(t) /\ Email(t)' = Email(t)
      BY <1>7, <2>2
    <3>2. \A k \in 1..lastCode : k \in 1..lastCode' /\ k # c
      BY <1>1, <1>4, <1>5
    <3>3. Verified(t) => Verified(t)'
      BY <1>1, <1>6, <1>7, <3>1, <3>2 DEF Verified
    <3>4. Found(t) => Found(t)'
      BY <1>1, <3>1 DEF Found, UserIds
    <3> QED
      BY <1>3, <3>1, <3>3, <3>4 DEF LoginsInPlace
  <2> QED
    BY <2>1, <2>2
<1>15. TokensInPlace' /\ CodeProvesMailbox' /\ OneAccountPerMailbox'
  BY <1>1 DEF AccountsStrong, TokensInPlace, CodeProvesMailbox, OneAccountPerMailbox, Active, UserIds
<1>16. NewestCodeCounts'
  <2> SUFFICES ASSUME NEW b \in Boxes, b \notin crossed', codes[<<b, "plain">>] # NoCode,
                      NEW k \in 1..MaxCodes, <<b, k>> \in inbox',
                      ~(k <= codes[<<b, "plain">>]), ~(faults > 0)
               PROVE  \E t \in Visitors : Putting(t)' /\ <<b, k>> = <<BoxOf(t)', visit'[t].code>>
    BY <1>1 DEF NewestCodeCounts, Putting
  <2>1. CASE <<b, k>> \in inbox
    <3>1. PICK t \in Visitors : Putting(t) /\ <<b, k>> = <<BoxOf(t), visit[t].code>>
      BY <1>2, <2>1 DEF AccountsStrong, NewestCodeCounts, Putting
    <3> QED
      BY <1>7, <1>8, <3>1
  <2>2. CASE <<b, k>> = <<BoxOf(s), c>>
    <3>1. Putting(s)'
      BY <1>6, <1>7 DEF Putting, VisitAt
    <3> QED
      BY <1>6, <1>7, <1>8, <2>2, <3>1
  <2> QED
    BY <1>1, <2>1, <2>2
<1> QED
  BY <1>1, <1>3, <1>7, <1>9, <1>11, <1>12, <1>13, <1>14, <1>15, <1>16 DEF AccountsStrong

\* The code that was mailed is stored, and is on its way no longer.
LEMMA PutKeeps == ASSUME AccountsStrong, NEW s \in Visitors, putCode(s) PROVE AccountsStrong'
<1> DEFINE c == visit[s].code
<1>1. /\ Putting(s) /\ codes' = [codes EXCEPT ![Email(s)] = c]
      /\ visit' = [visit EXCEPT ![s] = NoVisit]
      /\ UNCHANGED <<prod, inbox, lastCode, users, tokens, visits, spent, crossed, faults>>
  BY DEF putCode, EndVisit, Putting
<1>2. /\ visit \in [Visitors -> Visit]
      /\ AccountsTypeOK /\ MailInPlace /\ CodesInPlace /\ SendsInPlace /\ LoginsInPlace
  BY DEF AccountsStrong
<1>3. /\ visit' \in [Visitors -> Visit] /\ visit'[s] = NoVisit
      /\ \A t \in Visitors \ {s} :
           /\ visit'[t] = visit[t] /\ BoxOf(t)' = BoxOf(t) /\ Email(t)' = Email(t)
           /\ Putting(t)' = Putting(t)
  BY <1>1, <1>2, NoVisitTyped, OthersStay
<1>4. ~Putting(s)'
  BY <1>3, NoVisitTyped DEF Putting, VisitAt
<1>5. Email(s) \in Normal /\ Email(s) \in Typed /\ BoxOf(s) \in Boxes /\ Email(s) = <<BoxOf(s), "plain">>
  BY <1>2, AddressOf
<1>6. /\ c \in 1..lastCode /\ <<BoxOf(s), c>> \in inbox /\ c \notin spent
      /\ \A t \in Visitors : Putting(t) /\ visit[t].code = c => t = s
      /\ BoxOf(s) \notin crossed => \A p \in inbox : p[1] = BoxOf(s) => p[2] <= c
  BY <1>1, <1>2 DEF SendsInPlace
<1>7. c \in 0..MaxCodes
  BY <1>2, <1>6, AccountsAssumption DEF AccountsTypeOK
<1> HIDE DEF c
<1>8. codes \in [Typed -> 0..MaxCodes]
  BY <1>2 DEF AccountsTypeOK
<1>9. \A e \in Typed : codes'[e] = IF e = Email(s) THEN c ELSE codes[e]
  BY <1>1, <1>8
<1>10. AccountsTypeOK'
  <2>1. codes' \in [Typed -> 0..MaxCodes]
    BY <1>1, <1>7, <1>8
  <2>2. \A e \in Typed \ Normal : codes'[e] = NoCode
    BY <1>2, <1>5, <1>9 DEF AccountsTypeOK
  <2> QED
    BY <1>1, <1>2, <2>1, <2>2 DEF AccountsTypeOK, Typed, Normal, UserIds, Token, Input
<1>11. CodesInPlace'
  <2>1. \A e \in Typed : codes'[e] # NoCode => <<e[1], codes'[e]>> \in inbox /\ codes'[e] \notin spent
    BY <1>2, <1>5, <1>6, <1>9 DEF CodesInPlace
  <2> QED
    BY <1>1, <2>1 DEF CodesInPlace, Typed
<1>12. SendsInPlace'
  <2> SUFFICES ASSUME NEW t \in Visitors, Putting(t)'
               PROVE  /\ visit'[t].code \in 1..lastCode' /\ <<BoxOf(t)', visit'[t].code>> \in inbox'
                      /\ visit'[t].code \notin spent'
                      /\ \A e \in Typed : codes'[e] # visit'[t].code
                      /\ \A u \in Visitors : Putting(u)' /\ visit'[u].code = visit'[t].code => u = t
                      /\ BoxOf(t)' \notin crossed' =>
                           /\ \A p \in inbox' : p[1] = BoxOf(t)' => p[2] <= visit'[t].code
                           /\ \A u \in Visitors : Putting(u)' /\ BoxOf(u)' = BoxOf(t)' => u = t
    BY DEF SendsInPlace, Typed
  <2>1. t # s
    BY <1>4
  <2>2. Putting(t) /\ visit'[t] = visit[t] /\ BoxOf(t)' = BoxOf(t)
    BY <1>3, <2>1
  <2>3. \A e \in Typed : codes'[e] # visit[t].code
    BY <1>2, <1>6, <1>9, <2>1, <2>2 DEF SendsInPlace
  <2>4. \A u \in Visitors : Putting(u)' => Putting(u) /\ visit'[u] = visit[u] /\ BoxOf(u)' = BoxOf(u)
    BY <1>3, <1>4
  <2> QED
    BY <1>1, <1>2, <2>2, <2>3, <2>4 DEF SendsInPlace
<1>13. LoginsInPlace'
  <2> SUFFICES ASSUME NEW t \in Visitors
               PROVE  /\ visit'[t].at \in LoggingIn => Verified(t)'
                      /\ visit'[t].at = "delete" => Found(t)'
    BY DEF LoginsInPlace
  <2>1. CASE t = s
    BY <1>3, <2>1, NoVisitTyped DEF LoggingIn
  <2>2. CASE t # s
    <3>1. visit'[t] = visit[t] /\ BoxOf(t)' = BoxOf(t) /\ Email(t)' = Email(t)
      BY <1>3, <2>2
    <3>2. Verified(t) => Verified(t)'
      BY <1>1, <1>3, <1>4, <3>1 DEF Verified
    <3>3. Found(t) => Found(t)'
      BY <1>1, <3>1 DEF Found, UserIds
    <3> QED
      BY <1>2, <3>1, <3>2, <3>3 DEF LoginsInPlace
  <2> QED
    BY <2>1, <2>2
<1>14. MailInPlace' /\ TokensInPlace' /\ CodeProvesMailbox' /\ OneAccountPerMailbox'
  BY <1>1 DEF AccountsStrong, MailInPlace, TokensInPlace, CodeProvesMailbox, OneAccountPerMailbox, Active, UserIds
<1>15. NewestCodeCounts'
  <2> SUFFICES ASSUME NEW b \in Boxes, b \notin crossed', codes'[<<b, "plain">>] # NoCode,
                      NEW k \in 1..MaxCodes, <<b, k>> \in inbox',
                      ~(k <= codes'[<<b, "plain">>]), ~(faults' > 0)
               PROVE  \E t \in Visitors : Putting(t)' /\ <<b, k>> = <<BoxOf(t)', visit'[t].code>>
    BY Zenon DEF NewestCodeCounts, Putting
  <2>1. b # BoxOf(s)
    BY <1>1, <1>5, <1>6, <1>9
  <2>2. codes'[<<b, "plain">>] = codes[<<b, "plain">>]
    BY <1>5, <1>9, <2>1 DEF Typed, Spellings
  <2>3. PICK t \in Visitors : Putting(t) /\ <<b, k>> = <<BoxOf(t), visit[t].code>>
    BY <1>1, <2>2 DEF AccountsStrong, NewestCodeCounts, Putting
  <2> QED
    BY <1>3, <2>1, <2>3
<1> QED
  BY <1>1, <1>3, <1>10, <1>11, <1>12, <1>13, <1>14, <1>15 DEF AccountsStrong

\* A code is forgotten: no code counts.
LEMMA ForgetKeeps == ASSUME AccountsStrong, NEW e \in Typed, Forget(e) PROVE AccountsStrong'
<1>1. /\ codes' = [codes EXCEPT ![e] = NoCode]
      /\ UNCHANGED <<prod, inbox, lastCode, users, tokens, visit, visits, spent, crossed, faults>>
  BY DEF Forget
<1>2. codes \in [Typed -> 0..MaxCodes] /\ NoCode \in 0..MaxCodes
  BY AccountsAssumption DEF AccountsStrong, AccountsTypeOK, NoCode
<1>3. \A d \in Typed : codes'[d] = codes[d] \/ codes'[d] = NoCode
  BY <1>1, <1>2
<1>4. AccountsTypeOK'
  <2>1. codes' \in [Typed -> 0..MaxCodes]
    BY <1>1, <1>2
  <2>2. \A d \in Typed \ Normal : codes'[d] = NoCode
    BY <1>3 DEF AccountsStrong, AccountsTypeOK
  <2> QED
    BY <1>1, <2>1, <2>2 DEF AccountsStrong, AccountsTypeOK, Typed, Normal, UserIds, Token, Input
<1>5. CodesInPlace'
  <2>1. \A d \in Typed : codes'[d] # NoCode => <<d[1], codes'[d]>> \in inbox /\ codes'[d] \notin spent
    BY <1>3 DEF AccountsStrong, CodesInPlace
  <2> QED
    BY <1>1, <2>1 DEF CodesInPlace, Typed
<1>6. SendsInPlace'
  <2>1. \A s \in Visitors : Putting(s) => \A d \in Typed : codes'[d] # visit[s].code
    <3>1. \A k \in 1..lastCode : k # NoCode
      BY DEF NoCode
    <3> QED
      BY <1>3, <3>1 DEF AccountsStrong, SendsInPlace
  <2> QED
    BY <1>1, <2>1 DEF AccountsStrong, SendsInPlace, Putting, VisitAt, BoxOf, Typed
<1>7. LoginsInPlace'
  BY <1>1 DEF AccountsStrong, LoginsInPlace, Verified, Found, Putting, VisitAt, BoxOf, Email, UserIds
<1>8. MailInPlace' /\ TokensInPlace' /\ CodeProvesMailbox' /\ OneAccountPerMailbox'
  BY <1>1 DEF AccountsStrong, MailInPlace, TokensInPlace, CodeProvesMailbox, OneAccountPerMailbox, Active, UserIds
<1>9. NewestCodeCounts'
  <2>1. \A b \in Boxes : <<b, "plain">> \in Typed
    BY DEF Typed, Spellings
  <2> SUFFICES ASSUME NEW b \in Boxes, b \notin crossed', codes'[<<b, "plain">>] # NoCode,
                      NEW k \in 1..MaxCodes, <<b, k>> \in inbox',
                      ~(k <= codes'[<<b, "plain">>]), ~(faults' > 0)
               PROVE  \E t \in Visitors : Putting(t)' /\ <<b, k>> = <<BoxOf(t)', visit'[t].code>>
    BY Zenon DEF NewestCodeCounts, Putting
  <2>2. codes'[<<b, "plain">>] = codes[<<b, "plain">>]
    BY <1>3, <2>1
  <2>3. PICK t \in Visitors : Putting(t) /\ <<b, k>> = <<BoxOf(t), visit[t].code>>
    BY <1>1, <2>2 DEF AccountsStrong, NewestCodeCounts, Putting
  <2> QED
    BY <1>1, <2>3 DEF Putting, VisitAt, BoxOf
<1> QED
  BY <1>1, <1>4, <1>5, <1>6, <1>7, <1>8, <1>9 DEF AccountsStrong

\* A user is created where there is none: the address was free.
LEMMA CreateKeeps == ASSUME AccountsStrong, NEW s \in Visitors, CreateUser(s) PROVE AccountsStrong'
<1>1. /\ visit \in [Visitors -> Visit] /\ visit[s] \in Visit
      /\ AccountsTypeOK /\ LoginsInPlace /\ OneAccountPerMailbox
      /\ VisitAt(s, "login", "create") /\ ~Putting(s)
      /\ UNCHANGED <<prod, turnstile, codes, inbox, lastCode, tokens, visits, spent, crossed, faults>>
  BY DEF AccountsStrong, CreateUser, Putting, VisitAt
<1>2. Verified(s) /\ visit[s].at \in LoggingIn
  BY <1>1 DEF LoginsInPlace, VisitAt, LoggingIn
<1>3. CASE EmailExists(Email(s))
  <2>1. VisitTo(s, "findAgain") /\ users' = users
    BY <1>3 DEF CreateUser
  <2> QED
    BY <1>1, <1>2, <2>1, VisitGoesOn DEF VisitTo, LoggingIn, service
<1>4. CASE ~EmailExists(Email(s))
  <2>1. PICK i \in NextUserId :
          /\ users' = [users EXCEPT ![i] = [state |-> "active", email |-> Email(s)]]
          /\ visit' = [visit EXCEPT ![s].at = "delete", ![s].id = i]
    BY <1>4 DEF CreateUser
  <2>2. i \in UserIds /\ i \in Nat /\ users[i].state = "unused"
    BY <2>1, AccountsAssumption DEF NextUserId, UserIds
  <2> DEFINE v == [visit[s] EXCEPT !.at = "delete", !.id = i]
  <2>3. /\ v \in Visit /\ v.at = "delete" /\ v.id = i
        /\ v.code = visit[s].code /\ v.email = visit[s].email
    BY <1>1, <2>2 DEF Visit, LoggingIn
  <2>4. visit' = [visit EXCEPT ![s] = v]
    BY <2>1
  <2> HIDE DEF v
  <2>5. /\ visit' \in [Visitors -> Visit] /\ visit'[s] = v
        /\ \A t \in Visitors \ {s} :
             /\ visit'[t] = visit[t] /\ BoxOf(t)' = BoxOf(t) /\ Email(t)' = Email(t)
             /\ Putting(t)' = Putting(t)
    BY <1>1, <2>3, <2>4, OthersStay
  <2>6. ~Putting(s)' /\ BoxOf(s)' = BoxOf(s) /\ Email(s)' = Email(s)
    BY <2>3, <2>5 DEF Putting, VisitAt, BoxOf, Email
  <2>7. Email(s) \in Normal /\ BoxOf(s) \in Boxes /\ Email(s) = <<BoxOf(s), "plain">>
    BY <1>1, AddressOf
  <2>8. users \in [UserIds -> [state : {"unused", "active", "gone"}, email : Normal]]
    BY <1>1 DEF AccountsTypeOK
  <2>9. /\ users'[i].state = "active" /\ users'[i].email = Email(s)
        /\ \A j \in UserIds \ {i} : users'[j] = users[j]
    BY <2>1, <2>2, <2>8
  <2>10. AccountsTypeOK'
    <3>1. [state |-> "active", email |-> Email(s)] \in [state : {"unused", "active", "gone"}, email : Normal]
      BY <2>7
    <3>2. users' \in [UserIds -> [state : {"unused", "active", "gone"}, email : Normal]]
      BY <2>1, <2>8, <3>1
    <3> QED
      BY <1>1, <3>2 DEF AccountsTypeOK, Typed, Normal, UserIds, Token, Input
  <2>11. SendsInPlace'
    <3>1. \A t \in Visitors : Putting(t)' => Putting(t) /\ visit'[t] = visit[t] /\ BoxOf(t)' = BoxOf(t)
      BY <2>5, <2>6
    <3> QED
      BY <1>1, <3>1 DEF AccountsStrong, SendsInPlace, Typed
  <2>12. LoginsInPlace'
    <3> SUFFICES ASSUME NEW t \in Visitors
                 PROVE  /\ visit'[t].at \in LoggingIn => Verified(t)'
                        /\ visit'[t].at = "delete" => Found(t)'
      BY DEF LoginsInPlace
    <3>1. \A u \in Visitors : Putting(u)' => Putting(u) /\ visit'[u] = visit[u]
      BY <2>5, <2>6
    <3>2. CASE t = s
      <4>1. Verified(s)'
        BY <1>1, <1>2, <2>3, <2>5, <2>6, <3>1 DEF Verified
      <4>2. Found(s)'
        BY <2>2, <2>3, <2>5, <2>6, <2>9 DEF Found, UserIds
      <4> QED
        BY <3>2, <4>1, <4>2
    <3>3. CASE t # s
      <4>1. visit'[t] = visit[t] /\ BoxOf(t)' = BoxOf(t) /\ Email(t)' = Email(t)
        BY <2>5, <3>3
      <4>2. Verified(t) => Verified(t)'
        BY <1>1, <3>1, <4>1 DEF Verified
      <4>3. Found(t) => Found(t)'
        BY <2>2, <2>9, <4>1 DEF Found, UserIds
      <4> QED
        BY <1>1, <4>1, <4>2, <4>3 DEF LoginsInPlace
    <3> QED
      BY <3>2, <3>3
  <2>13. TokensInPlace'
    <3>1. \A t \in tokens : t.id \in UserIds /\ t.id # i /\ users[t.id].state # "unused" /\ users[t.id].email[1] = t.by
      BY <1>1, <2>2 DEF AccountsStrong, TokensInPlace, AccountsTypeOK, Token
    <3> QED
      BY <1>1, <2>9, <3>1 DEF TokensInPlace
  <2>14. OneAccountPerMailbox'
    <3>1. \A j \in UserIds : Active(j) => users[j].email[1] # BoxOf(s)
      <4> SUFFICES ASSUME NEW j \in UserIds, Active(j), users[j].email[1] = BoxOf(s) PROVE FALSE
        OBVIOUS
      <4>1. users[j].email \in Normal
        BY <2>8
      <4>2. users[j].email = Email(s)
        BY <2>7, <4>1 DEF Normal
      <4> QED
        BY <1>4, <4>2 DEF EmailExists, Accounts
    <3>2. Email(s)[1] = BoxOf(s)
      BY <2>7
    <3>3. \A j \in UserIds \ {i} : Active(j)' = Active(j) /\ users'[j] = users[j]
      BY <2>9 DEF Active
    <3> SUFFICES ASSUME NEW j \in UserIds, NEW k \in UserIds, Active(j)', Active(k)',
                        users'[j].email[1] = users'[k].email[1]
                 PROVE  j = k
      BY DEF OneAccountPerMailbox, UserIds
    <3> QED
      BY <1>1, <2>9, <3>1, <3>2, <3>3 DEF OneAccountPerMailbox
  <2>15. MailInPlace' /\ CodesInPlace' /\ CodeProvesMailbox'
    BY <1>1 DEF AccountsStrong, MailInPlace, CodesInPlace, CodeProvesMailbox, Typed
  <2>16. NewestCodeCounts'
    <3> SUFFICES ASSUME NEW b \in Boxes, b \notin crossed', codes'[<<b, "plain">>] # NoCode,
                        NEW k \in 1..MaxCodes, <<b, k>> \in inbox',
                        ~(k <= codes'[<<b, "plain">>]), ~(faults' > 0)
                 PROVE  \E t \in Visitors : Putting(t)' /\ <<b, k>> = <<BoxOf(t)', visit'[t].code>>
      BY Zenon DEF NewestCodeCounts, Putting
    <3>1. PICK t \in Visitors : Putting(t) /\ <<b, k>> = <<BoxOf(t), visit[t].code>>
      BY <1>1 DEF AccountsStrong, NewestCodeCounts, Putting
    <3> QED
      BY <1>1, <2>5, <3>1
  <2> QED
    BY <1>1, <2>5, <2>10, <2>11, <2>12, <2>13, <2>14, <2>15, <2>16 DEF AccountsStrong
<1> QED
  BY <1>3, <1>4

\* The login returns: whatever code is stored for the address goes, and the
\* code that was typed was mailed to no other address.
LEMMA FinishKeeps == ASSUME AccountsStrong, NEW s \in Visitors, FinishLogin(s) PROVE AccountsStrong'
<1> DEFINE c == visit[s].code
           token == [id |-> visit[s].id, by |-> BoxOf(s), code |-> c]
<1>1. /\ VisitAt(s, "login", "delete") /\ codes' = [codes EXCEPT ![Email(s)] = NoCode]
      /\ tokens' = tokens \cup {token} /\ spent' = spent \cup {c}
      /\ visit' = [visit EXCEPT ![s] = NoVisit]
      /\ UNCHANGED <<prod, inbox, lastCode, users, visits, crossed, faults>>
  BY DEF FinishLogin, deleteCode, EndVisit
<1>2. /\ visit \in [Visitors -> Visit] /\ visit[s] \in Visit
      /\ AccountsTypeOK /\ MailInPlace /\ CodesInPlace /\ SendsInPlace /\ LoginsInPlace
      /\ TokensInPlace /\ CodeProvesMailbox
  BY DEF AccountsStrong
<1>3. Verified(s) /\ Found(s) /\ ~Putting(s)
  BY <1>1, <1>2 DEF LoginsInPlace, VisitAt, LoggingIn, Putting
<1>4. Email(s) \in Normal /\ Email(s) \in Typed /\ BoxOf(s) \in Boxes /\ Email(s) = <<BoxOf(s), "plain">>
  BY <1>2, AddressOf
<1>5. /\ token \in Token /\ token.id = visit[s].id /\ token.by = BoxOf(s) /\ token.code = c /\ c \in Input
  BY <1>2, <1>3, <1>4 DEF Token, Found, Visit
<1>6. lastCode \in 0..MaxCodes /\ MaxCodes \in Nat /\ codes \in [Typed -> 0..MaxCodes]
  BY <1>2, AccountsAssumption DEF AccountsTypeOK
<1>7. c \in Int /\ c <= lastCode
  <2>1. c \in Int
    BY <1>2, <1>6 DEF Visit, Input
  <2>2. c = -1 \/ c \in 1..lastCode
    BY <1>3 DEF Verified, DevCode
  <2> QED
    BY <1>6, <2>1, <2>2
<1>8. /\ visit' \in [Visitors -> Visit] /\ visit'[s] = NoVisit
      /\ \A t \in Visitors \ {s} :
           /\ visit'[t] = visit[t] /\ BoxOf(t)' = BoxOf(t) /\ Email(t)' = Email(t)
           /\ Putting(t)' = Putting(t)
  BY <1>1, <1>2, NoVisitTyped, OthersStay
<1>9. \A t \in Visitors : Putting(t)' => Putting(t) /\ t # s /\ visit'[t] = visit[t] /\ BoxOf(t)' = BoxOf(t)
  BY <1>8, NoVisitTyped DEF Putting, VisitAt
<1>10. (c = DevCode /\ ~prod) \/ (<<BoxOf(s), c>> \in inbox /\ c \in 1..lastCode)
  BY <1>3 DEF Verified
<1>11. \A t \in Visitors : Putting(t) => visit[t].code # c
  <2>1. \A t \in Visitors : Putting(t) => visit[t].code # DevCode
    <3>1. \A k \in 1..lastCode : k # DevCode
      BY <1>6 DEF DevCode
    <3> QED
      BY <1>2, <3>1 DEF SendsInPlace
  <2> QED
    BY <1>3, <2>1 DEF Verified
<1> HIDE DEF c, token
<1>12. \A e \in Typed : codes'[e] = IF e = Email(s) THEN NoCode ELSE codes[e]
  BY <1>1, <1>6
<1>13. AccountsTypeOK'
  <2>1. codes' \in [Typed -> 0..MaxCodes]
    <3>1. NoCode \in 0..MaxCodes
      BY <1>6 DEF NoCode
    <3> QED
      BY <1>1, <1>6, <3>1
  <2>2. \A e \in Typed \ Normal : codes'[e] = NoCode
    BY <1>2, <1>12 DEF AccountsTypeOK
  <2>3. tokens' \subseteq Token /\ spent' \subseteq Input
    BY <1>1, <1>2, <1>5 DEF AccountsTypeOK
  <2> QED
    BY <1>1, <1>2, <2>1, <2>2, <2>3 DEF AccountsTypeOK, Typed, Normal, UserIds, Token, Input
<1>14. MailInPlace'
  <2>1. \A k \in spent' : k <= lastCode
    BY <1>1, <1>2, <1>7 DEF MailInPlace
  <2> QED
    BY <1>1, <1>2, <2>1 DEF MailInPlace
<1>15. CodesInPlace'
  <2> SUFFICES ASSUME NEW e \in Typed, codes'[e] # NoCode
               PROVE  <<e[1], codes'[e]>> \in inbox' /\ codes'[e] \notin spent'
    BY DEF CodesInPlace, Typed
  <2>1. e # Email(s) /\ codes'[e] = codes[e] /\ codes[e] # NoCode
    BY <1>12
  <2>2. <<e[1], codes[e]>> \in inbox /\ codes[e] \notin spent
    BY <1>2, <2>1 DEF CodesInPlace
  <2>3. codes[e] # c
    <3>1. CASE c = DevCode
      <4>1. codes[e] \in 0..MaxCodes
        BY <1>6
      <4> QED
        BY <3>1, <4>1 DEF DevCode
    <3>2. CASE <<BoxOf(s), c>> \in inbox
      <4>1. e \in Normal
        BY <1>2, <2>1 DEF AccountsTypeOK
      <4>2. e[1] # BoxOf(s)
        BY <1>4, <2>1, <4>1 DEF Normal
      <4> QED
        BY <1>2, <2>2, <3>2, <4>2 DEF MailInPlace
    <3> QED
      BY <1>10, <3>1, <3>2
  <2> QED
    BY <1>1, <2>1, <2>2, <2>3
<1>16. SendsInPlace'
  <2> SUFFICES ASSUME NEW t \in Visitors, Putting(t)'
               PROVE  /\ visit'[t].code \in 1..lastCode' /\ <<BoxOf(t)', visit'[t].code>> \in inbox'
                      /\ visit'[t].code \notin spent'
                      /\ \A e \in Typed : codes'[e] # visit'[t].code
                      /\ \A u \in Visitors : Putting(u)' /\ visit'[u].code = visit'[t].code => u = t
                      /\ BoxOf(t)' \notin crossed' =>
                           /\ \A p \in inbox' : p[1] = BoxOf(t)' => p[2] <= visit'[t].code
                           /\ \A u \in Visitors : Putting(u)' /\ BoxOf(u)' = BoxOf(t)' => u = t
    BY DEF SendsInPlace, Typed
  <2>1. Putting(t) /\ visit'[t] = visit[t] /\ BoxOf(t)' = BoxOf(t)
    BY <1>9
  <2>2. visit[t].code # NoCode /\ visit[t].code \notin spent'
    <3>1. \A k \in 1..lastCode : k # NoCode
      BY DEF NoCode
    <3> QED
      BY <1>1, <1>2, <1>11, <2>1, <3>1 DEF SendsInPlace
  <2>3. \A e \in Typed : codes'[e] # visit[t].code
    BY <1>2, <1>12, <2>1, <2>2 DEF SendsInPlace
  <2> QED
    BY <1>1, <1>2, <1>9, <2>1, <2>2, <2>3 DEF SendsInPlace
<1>17. LoginsInPlace'
  <2> SUFFICES ASSUME NEW t \in Visitors
               PROVE  /\ visit'[t].at \in LoggingIn => Verified(t)'
                      /\ visit'[t].at = "delete" => Found(t)'
    BY DEF LoginsInPlace
  <2>1. CASE t = s
    BY <1>8, <2>1, NoVisitTyped DEF LoggingIn
  <2>2. CASE t # s
    <3>1. visit'[t] = visit[t] /\ BoxOf(t)' = BoxOf(t) /\ Email(t)' = Email(t)
      BY <1>8, <2>2
    <3>2. Verified(t) => Verified(t)'
      BY <1>1, <1>9, <3>1 DEF Verified
    <3>3. Found(t) => Found(t)'
      BY <1>1, <3>1 DEF Found, UserIds
    <3> QED
      BY <1>2, <3>1, <3>2, <3>3 DEF LoginsInPlace
  <2> QED
    BY <2>1, <2>2
<1>18. TokensInPlace' /\ CodeProvesMailbox'
  <2>1. users[token.id].state # "unused" /\ users[token.id].email[1] = token.by
    BY <1>3, <1>4, <1>5 DEF Found
  <2>2. TokensInPlace'
    BY <1>1, <1>2, <2>1 DEF TokensInPlace
  <2>3. (token.code = DevCode /\ ~prod) \/ <<token.by, token.code>> \in inbox
    BY <1>5, <1>10
  <2>4. CodeProvesMailbox'
    BY <1>1, <1>2, <2>3 DEF CodeProvesMailbox
  <2> QED
    BY <2>2, <2>4
<1>19. OneAccountPerMailbox'
  BY <1>1 DEF AccountsStrong, OneAccountPerMailbox, Active, UserIds
<1>20. NewestCodeCounts'
  <2> SUFFICES ASSUME NEW b \in Boxes, b \notin crossed', codes'[<<b, "plain">>] # NoCode,
                      NEW k \in 1..MaxCodes, <<b, k>> \in inbox',
                      ~(k <= codes'[<<b, "plain">>]), ~(faults' > 0)
               PROVE  \E t \in Visitors : Putting(t)' /\ <<b, k>> = <<BoxOf(t)', visit'[t].code>>
    BY Zenon DEF NewestCodeCounts, Putting
  <2>1. codes'[<<b, "plain">>] = codes[<<b, "plain">>]
    BY <1>12 DEF Typed, Spellings
  <2>2. PICK t \in Visitors : Putting(t) /\ <<b, k>> = <<BoxOf(t), visit[t].code>>
    BY <1>1, <2>1 DEF AccountsStrong, NewestCodeCounts, Putting
  <2> QED
    BY <1>3, <1>8, <2>2
<1> QED
  BY <1>1, <1>8, <1>13, <1>14, <1>15, <1>16, <1>17, <1>18, <1>19, <1>20 DEF AccountsStrong

\* A token expires.
LEMMA ExpireKeeps == ASSUME AccountsStrong, NEW x \in tokens, ExpireToken(x) PROVE AccountsStrong'
<1>1. /\ tokens' \subseteq tokens
      /\ UNCHANGED <<prod, codes, inbox, lastCode, users, visit, visits, spent, crossed, faults>>
  BY DEF ExpireToken
<1>2. AccountsTypeOK'
  BY <1>1 DEF AccountsStrong, AccountsTypeOK, Typed, Normal, UserIds, Token, Input
<1>3. LoginsInPlace' /\ SendsInPlace'
  BY <1>1 DEF AccountsStrong, LoginsInPlace, SendsInPlace, Verified, Found, Putting, VisitAt, BoxOf, Email,
     UserIds, Typed
<1>4. MailInPlace' /\ CodesInPlace' /\ OneAccountPerMailbox'
  BY <1>1 DEF AccountsStrong, MailInPlace, CodesInPlace, OneAccountPerMailbox, Active, UserIds, Typed
<1>5. TokensInPlace' /\ CodeProvesMailbox'
  BY <1>1 DEF AccountsStrong, TokensInPlace, CodeProvesMailbox
<1>6. NewestCodeCounts'
  BY <1>1 DEF AccountsStrong, NewestCodeCounts, VisitAt, BoxOf
<1> QED
  BY <1>1, <1>2, <1>3, <1>4, <1>5, <1>6 DEF AccountsStrong

\* An account is closed: its row stays, so that no one is given its id.
LEMMA CloseKeeps == ASSUME AccountsStrong, NEW s \in Visitors, CloseUser(s) PROVE AccountsStrong'
<1> DEFINE id == visit[s].token.id
<1>1. /\ VisitAt(s, "close", "row")
      /\ users' = IF Active(id) THEN [users EXCEPT ![id].state = "gone"] ELSE users
      /\ visit' = [visit EXCEPT ![s] = NoVisit]
      /\ UNCHANGED <<prod, codes, inbox, lastCode, tokens, visits, spent, crossed, faults>>
  BY DEF CloseUser, EndVisit
<1>2. /\ visit \in [Visitors -> Visit] /\ LoginsInPlace /\ SendsInPlace /\ TokensInPlace
      /\ AccountsTypeOK /\ OneAccountPerMailbox /\ ~Putting(s)
  BY <1>1 DEF AccountsStrong, Putting, VisitAt
<1>3. users \in [UserIds -> [state : {"unused", "active", "gone"}, email : Normal]]
  BY <1>2 DEF AccountsTypeOK
<1>4. /\ users' \in [UserIds -> [state : {"unused", "active", "gone"}, email : Normal]]
      /\ \A i \in UserIds : /\ users'[i].email = users[i].email
                            /\ users'[i].state = users[i].state \/ users'[i].state = "gone"
                            /\ users'[i].state = "unused" => users[i].state = "unused"
  <2>1. CASE Active(id)
    <3>1. users' = [users EXCEPT ![id].state = "gone"]
      BY <1>1, <2>1
    <3>2. \A i \in UserIds : users'[i] = IF i = id THEN [users[i] EXCEPT !.state = "gone"] ELSE users[i]
      BY <1>3, <3>1
    <3>3. \A r \in [state : {"unused", "active", "gone"}, email : Normal] :
            LET g == [r EXCEPT !.state = "gone"] IN
              /\ g \in [state : {"unused", "active", "gone"}, email : Normal]
              /\ g.state = "gone" /\ g.email = r.email
      OBVIOUS
    <3>4. \A i \in UserIds : users[i] \in [state : {"unused", "active", "gone"}, email : Normal]
      BY <1>3
    <3>5. users' \in [UserIds -> [state : {"unused", "active", "gone"}, email : Normal]]
      BY <1>3, <3>1, <3>3, <3>4
    <3> QED
      BY <2>1, <3>2, <3>3, <3>4, <3>5 DEF Active
  <2>2. CASE ~Active(id)
    BY <1>1, <1>3, <2>2
  <2> QED
    BY <2>1, <2>2
<1>5. /\ visit' \in [Visitors -> Visit] /\ visit'[s] = NoVisit
      /\ \A t \in Visitors \ {s} :
           /\ visit'[t] = visit[t] /\ BoxOf(t)' = BoxOf(t) /\ Email(t)' = Email(t)
           /\ Putting(t)' = Putting(t)
  BY <1>1, <1>2, NoVisitTyped, OthersStay
<1>6. \A t \in Visitors : Putting(t)' => Putting(t) /\ t # s /\ visit'[t] = visit[t] /\ BoxOf(t)' = BoxOf(t)
  BY <1>5, NoVisitTyped DEF Putting, VisitAt
<1>7. AccountsTypeOK'
  BY <1>1, <1>2, <1>4 DEF AccountsTypeOK, Typed, Normal, UserIds, Token, Input
<1>8. SendsInPlace'
  BY <1>1, <1>2, <1>6 DEF SendsInPlace, Typed
<1>9. LoginsInPlace'
  <2> SUFFICES ASSUME NEW t \in Visitors
               PROVE  /\ visit'[t].at \in LoggingIn => Verified(t)'
                      /\ visit'[t].at = "delete" => Found(t)'
    BY DEF LoginsInPlace
  <2>1. CASE t = s
    BY <1>5, <2>1, NoVisitTyped DEF LoggingIn
  <2>2. CASE t # s
    <3>1. visit'[t] = visit[t] /\ BoxOf(t)' = BoxOf(t) /\ Email(t)' = Email(t)
      BY <1>5, <2>2
    <3>2. Verified(t) => Verified(t)'
      BY <1>1, <1>6, <3>1 DEF Verified
    <3>3. Found(t) => Found(t)'
      BY <1>4, <3>1 DEF Found, UserIds
    <3> QED
      BY <1>2, <3>1, <3>2, <3>3 DEF LoginsInPlace
  <2> QED
    BY <2>1, <2>2
<1>10. TokensInPlace'
  <2>1. \A t \in tokens : t.id \in UserIds
    BY <1>2 DEF AccountsTypeOK, Token
  <2> QED
    BY <1>1, <1>2, <1>4, <2>1 DEF TokensInPlace
<1>11. OneAccountPerMailbox'
  <2>1. \A i \in UserIds : Active(i)' => Active(i) /\ users'[i].email = users[i].email
    BY <1>4 DEF Active
  <2> SUFFICES ASSUME NEW j \in UserIds, NEW k \in UserIds, Active(j)', Active(k)',
                      users'[j].email[1] = users'[k].email[1]
               PROVE  j = k
    BY DEF OneAccountPerMailbox, UserIds
  <2> QED
    BY <1>2, <2>1 DEF OneAccountPerMailbox
<1>12. MailInPlace' /\ CodesInPlace' /\ CodeProvesMailbox'
  BY <1>1 DEF AccountsStrong, MailInPlace, CodesInPlace, CodeProvesMailbox, Typed
<1>13. NewestCodeCounts'
  <2> SUFFICES ASSUME NEW b \in Boxes, b \notin crossed', codes'[<<b, "plain">>] # NoCode,
                      NEW k \in 1..MaxCodes, <<b, k>> \in inbox',
                      ~(k <= codes'[<<b, "plain">>]), ~(faults' > 0)
               PROVE  \E t \in Visitors : Putting(t)' /\ <<b, k>> = <<BoxOf(t)', visit'[t].code>>
    BY Zenon DEF NewestCodeCounts, Putting
  <2>1. PICK t \in Visitors : Putting(t) /\ <<b, k>> = <<BoxOf(t), visit[t].code>>
    BY <1>1 DEF AccountsStrong, NewestCodeCounts, Putting
  <2> QED
    BY <1>2, <1>5, <2>1
<1> QED
  BY <1>1, <1>5, <1>7, <1>8, <1>9, <1>10, <1>11, <1>12, <1>13 DEF AccountsStrong

\* Every step keeps the strengthening.
LEMMA AccountsStep == AccountsStrong /\ [AccountsNext]_accountVars => AccountsStrong'
<1> SUFFICES ASSUME AccountsStrong, [AccountsNext]_accountVars PROVE AccountsStrong'
  OBVIOUS
<1>1. ASSUME NEW s \in Visitors,
             BeginVisit(s) \/ VisitFails(s) \/ VerifyTurnstile(s) \/ VerifyCode(s) \/ lookupUser(s) \/ Me(s)
      PROVE  AccountsStrong'
  BY <1>1, ReadsKeep
<1>2. ASSUME NEW s \in Visitors, Mail(s) PROVE AccountsStrong'
  BY <1>2, MailKeeps
<1>3. ASSUME NEW s \in Visitors, putCode(s) PROVE AccountsStrong'
  BY <1>3, PutKeeps
<1>4. ASSUME NEW s \in Visitors, CreateUser(s) PROVE AccountsStrong'
  BY <1>4, CreateKeeps
<1>5. ASSUME NEW s \in Visitors, FinishLogin(s) PROVE AccountsStrong'
  BY <1>5, FinishKeeps
<1>6. ASSUME NEW s \in Visitors, CloseUser(s) PROVE AccountsStrong'
  BY <1>6, CloseKeeps
<1>7. ASSUME NEW e \in Typed, Forget(e) PROVE AccountsStrong'
  BY <1>7, ForgetKeeps
<1>8. ASSUME NEW x \in tokens, ExpireToken(x) PROVE AccountsStrong'
  BY <1>8, ExpireKeeps
<1>9. CASE UNCHANGED accountVars
  <2>1. UNCHANGED <<prod, codes, inbox, lastCode, users, tokens, visit, visits, spent, crossed, faults>>
    BY <1>9 DEF accountVars, service
  <2>2. AccountsTypeOK'
    BY <2>1 DEF AccountsStrong, AccountsTypeOK, Typed, Normal, UserIds, Token, Input
  <2>3. LoginsInPlace' /\ SendsInPlace'
    BY <2>1 DEF AccountsStrong, LoginsInPlace, SendsInPlace, Verified, Found, Putting, VisitAt, BoxOf, Email,
       UserIds, Typed
  <2>4. /\ MailInPlace' /\ CodesInPlace' /\ OneAccountPerMailbox' /\ TokensInPlace'
        /\ CodeProvesMailbox' /\ NewestCodeCounts'
    BY <2>1 DEF AccountsStrong, MailInPlace, CodesInPlace, OneAccountPerMailbox, Active, UserIds, Typed,
       TokensInPlace, CodeProvesMailbox, NewestCodeCounts, VisitAt, BoxOf
  <2> QED
    BY <2>1, <2>2, <2>3, <2>4 DEF AccountsStrong
<1> QED
  BY <1>1, <1>2, <1>3, <1>4, <1>5, <1>6, <1>7, <1>8, <1>9 DEF AccountsNext

\* The strengthening says what the runs check: a token names an account of the
\* mailbox it was obtained with.
LEMMA StrongSays == AccountsStrong => AccountsInvariant
BY DEF AccountsStrong, AccountsInvariant, TokensInPlace, TokenNamesOwner

\* A login passes the check with the code of the developers or with a stored
\* code, and a stored code has signed nobody in.
LEMMA CheckedIsUnspent ==
  ASSUME AccountsStrong, [AccountsNext]_accountVars, NEW s \in Visitors,
         VisitAt(s, "login", "verify"), visit'[s].at = "find"
  PROVE  visit[s].code \notin spent \ {DevCode}
<1>1. visit \in [Visitors -> Visit] /\ visit[s].at = "verify" /\ visit[s].op = "login"
  BY DEF AccountsStrong, VisitAt
<1>2. VerifyCode(s)
  <2>1. ASSUME NEW t \in Visitors,
               \E v \in Visit : visit' = [visit EXCEPT ![t] = v] /\ v.at # "find"
        PROVE  FALSE
    BY <1>1, <2>1
  <2>2. \A t \in Visitors : EndVisit(t) => FALSE
    BY <2>1, NoVisitTyped DEF EndVisit
  <2>3. ASSUME NEW t \in Visitors, t # s, visit'[s] = visit[s] PROVE FALSE
    BY <1>1, <2>3
  <2>4. visit' # visit
    BY <1>1
  <2>5. ASSUME NEW t \in Visitors, t # s,
               BeginVisit(t) \/ VerifyTurnstile(t) \/ Mail(t) \/ VerifyCode(t) \/ lookupUser(t)
                 \/ CreateUser(t) \/ Me(t)
        PROVE  FALSE
    BY <1>1, <2>2, <2>5 DEF BeginVisit, VerifyTurnstile, Mail, VerifyCode, lookupUser, CreateUser, Me, VisitTo
  <2>6. ASSUME NEW t \in Visitors, VisitFails(t) \/ putCode(t) \/ FinishLogin(t) \/ CloseUser(t)
        PROVE  FALSE
    BY <2>2, <2>6 DEF VisitFails, putCode, FinishLogin, CloseUser
  <2>7. ~(BeginVisit(s) \/ VerifyTurnstile(s) \/ Mail(s) \/ lookupUser(s) \/ CreateUser(s) \/ Me(s))
    BY <1>1, NoVisitTyped DEF BeginVisit, VerifyTurnstile, Mail, lookupUser, CreateUser, Me, VisitAt
  <2>8. ASSUME \E e \in Typed : Forget(e) PROVE FALSE
    BY <2>4, <2>8 DEF Forget
  <2>9. ASSUME \E x \in tokens : ExpireToken(x) PROVE FALSE
    BY <2>4, <2>9 DEF ExpireToken
  <2>10. ~UNCHANGED accountVars
    BY <2>4 DEF accountVars
  <2> QED
    BY <2>5, <2>6, <2>7, <2>8, <2>9, <2>10 DEF AccountsNext
<1>3. verifyCode(Email(s), visit[s].code)
  <2>1. CASE EndVisit(s)
    BY <1>1, <2>1, NoVisitTyped DEF EndVisit
  <2> QED
    BY <1>2, <2>1 DEF VerifyCode
<1>4. CASE devCode # NoCode /\ visit[s].code = devCode
  BY <1>4 DEF devCode
<1>5. CASE codes[Email(s)] # NoCode /\ visit[s].code = codes[Email(s)]
  BY <1>1, <1>5, AddressOf DEF AccountsStrong, CodesInPlace
<1> QED
  BY <1>3, <1>4, <1>5 DEF verifyCode

\* Logins, sends and closings that overlap keep accounts and codes apart
\* (AuthService): one account per mailbox, tokens that name their owner, codes
\* that prove the mailbox they were sent to, the newest counting.
THEOREM AccountsAreApart == AccountsSpec => []AccountsInvariant
<1>1. AccountsSpec => []AccountsStrong
  BY AccountsStart, AccountsStep, PTL DEF AccountsSpec
<1> QED
  BY <1>1, StrongSays, PTL

\* A code whose login has returned signs nobody in again (AuthService.Login
\* deletes it before the token is signed).
THEOREM CodesAreUsedUp == AccountsSpec => SpentCodesAreDead
<1>1. AccountsSpec => []AccountsStrong
  BY AccountsStart, AccountsStep, PTL DEF AccountsSpec
<1>2. AccountsStrong /\ [AccountsNext]_accountVars =>
        [\A s \in Visitors : VisitAt(s, "login", "verify") /\ visit'[s].at = "find"
           => visit[s].code \notin spent \ {DevCode}]_accountVars
  BY CheckedIsUnspent
<1> QED
  BY <1>1, <1>2, PTL DEF AccountsSpec, SpentCodesAreDead

-----------------------------------------------------------------------------
(* The catalogue.                                                          *)

(* The inductive invariant.                                                *)

Tables == {"doc", "chunk", "session"}
Things == ({"dataset"} \X Ids) \cup ({"model"} \X Kinds) \cup (Tables \X Ids)

\* Where the code of a request is.
PointsOf ==
  [none |-> {"end"},
   createDataset |-> {"embed", "vision", "insert"},
   updateDataset |-> {"get", "vision", "insert"},
   register |-> {"get", "insert"},
   createSession |-> {"get", "insert"},
   deleteDataset |-> {"get", "objects", "images", "rows"},
   createModel |-> {"insert"},
   renameModel |-> {"get", "write"},
   deleteModel |-> {"get", "count", "delete"},
   deleteAccount |-> {"user", "list", "next", "get", "objects", "images", "rows",
                      "sessions", "embed", "vision", "row"}]

RequestRow ==
  [op : DOMAIN PointsOf, at : UNION {PointsOf[op] : op \in DOMAIN PointsOf}, d : Ids, kind : Kinds,
   embed : {"official", "own"}, vision : {"unused", "own"}, left : SUBSET Ids, owned : SUBSET Things]

\* A request is at a point of its own, and only an account that is being
\* closed has lists.
RequestsTyped ==
  /\ request \in [Slots -> RequestRow]
  /\ \A s \in Slots :
       /\ request[s].at \in PointsOf[request[s].op]
       /\ request[s].op # "deleteAccount" \/ request[s].at = "user" =>
            request[s].left = {} /\ request[s].owned = {}

Binds(s) == request[s].op \in {"createDataset", "updateDataset"}
ClosesAccount(s) == request[s].op = "deleteAccount"
Adds(s) == request[s].op \in DOMAIN TableOf
RowOf(s) == <<TableOf[request[s].op], D(s)>>

\* Conflicting requests that are open together have been recorded.
RacesRecorded ==
  \A s, t \in Slots :
    /\ Binds(s) /\ (request[t].op = "deleteModel" \/ ClosesAccount(t)) => "model" \in raced
    /\ request[s].op = "register" /\ DeletesIn(t, D(s)) => "dataset" \in raced

\* One dataset is created at a time, under an id that is free.
CreatesApart ==
  \A s \in Slots : request[s].op = "createDataset" =>
    /\ dataset[D(s)].state = "absent"
    /\ \A t \in Slots : request[t].op = "createDataset" => t = s

\* A row that is being added is there in no way yet, and a document that is
\* being registered has its source.
AddsInPlace ==
  \A s \in Slots : Adds(s) =>
    /\ RowOf(s) \notin rows
    /\ \A t \in Slots :
         /\ RowOf(s) \notin request[t].owned
         /\ request[t].op = request[s].op /\ D(t) = D(s) => t = s
    /\ request[s].at = "insert" => dataset[D(s)].state # "absent"
    /\ request[s].op = "register" => <<"source", D(s)>> \in objects

\* Rows belong to a dataset that is or has been there, chunks to a document.
RowsInPlace ==
  \A d \in Ids :
    /\ <<"doc", d>> \in rows => dataset[d].state # "absent"
    /\ <<"chunk", d>> \in rows => <<"doc", d>> \in rows

\* What closing an account has still to do with dataset d.
StillToDelete(s, d) ==
  \/ request[s].at \in {"user", "list"}
  \/ request[s].at \in {"next", "get", "objects", "images", "rows"} /\ d \in request[s].left
  \/ request[s].at \in {"get", "objects", "images", "rows"} /\ D(s) = d

\* Without a race, a binding that has been checked can be written, and models
\* are deleted when nothing is bound to them.
BindingsInPlace ==
  "model" \notin raced =>
    /\ \A d \in Ids, k \in Kinds : Present(d) /\ dataset[d][k] = "own" => Exists(k)
    /\ \A s \in Slots :
         /\ request[s].op = "createDataset" /\ request[s].at \in {"vision", "insert"}
              /\ request[s].embed = "own" => Exists("embed")
         /\ Binds(s) /\ request[s].at = "insert" /\ request[s].vision = "own" => Exists("vision")
         /\ At(s, "deleteModel", "delete") => UsedBy(K(s)) = {}
         /\ ClosesAccount(s) => \A d \in Ids : Present(d) => StillToDelete(s, d)

\* Without a race, rows have their dataset, those on their way included.
OwnersInPlace ==
  "dataset" \notin raced =>
    /\ \A r \in rows : r[1] # "session" => Present(r[2])
    /\ \A s \in Slots : At(s, "register", "insert") => Present(D(s))

\* A source goes only when its document is about to go.
SourcesInPlace ==
  faults = 0 => \A d \in Ids : Present(d) /\ <<"doc", d>> \in rows =>
    \/ <<"source", d>> \in objects
    \/ \E s \in Slots : DeletesIn(s, d) /\ D(s) = d /\ request[s].at \in {"images", "rows"}

\* What closing an account has found is there only as long as it is to be
\* deleted.
OwnedInPlace ==
  \A s \in Slots : \A x \in request[s].owned :
    /\ x[1] = "dataset" => dataset[x[2]].state # "absent" /\ (Present(x[2]) => StillToDelete(s, x[2]))
    /\ x[1] = "model" =>
         /\ model[x[2]] # "absent"
         /\ Exists(x[2]) => request[s].at \notin {"row"} \cup (IF x[2] = "embed" THEN {"vision"} ELSE {})
    /\ x[1] = "session" /\ x \in rows => request[s].at \notin {"embed", "vision", "row"}
    /\ x[1] \in {"doc", "chunk"} =>
         /\ <<"dataset", x[2]>> \in request[s].owned /\ <<"doc", x[2]>> \in request[s].owned
         /\ x \in rows => Present(x[2])

CatalogStrong ==
  /\ TypeOK /\ raced \subseteq {"model", "dataset"} /\ RequestsTyped
  /\ RacesRecorded /\ CreatesApart /\ AddsInPlace /\ RowsInPlace
  /\ BindingsInPlace /\ OwnersInPlace /\ SourcesInPlace /\ OwnedInPlace

-----------------------------------------------------------------------------
(* Types, and which requests a step changes.                               *)

\* Everything a request is but the point it is at.
SameRequest(s) ==
  /\ request'[s].op = request[s].op /\ request'[s].d = request[s].d /\ request'[s].kind = request[s].kind
  /\ request'[s].embed = request[s].embed /\ request'[s].vision = request[s].vision
  /\ request'[s].left = request[s].left /\ request'[s].owned = request[s].owned

RowsStay(s) == \A t \in Slots \ {s} : request'[t] = request[t]

\* Where a request that goes on comes from, and what it has just found or done.
Passes(s) ==
  LET at == request[s].at
      to == request'[s].at
  IN  /\ Adds(s) /\ to = "insert" => Present(D(s)) /\ UNCHANGED data
      /\ Binds(s) =>
           /\ to = "vision" => UNCHANGED data /\ (request[s].op = "createDataset" /\ request[s].embed = "own" => Exists("embed"))
           /\ to = "insert" => at = "vision" /\ UNCHANGED data /\ (request[s].vision = "own" => Exists("vision"))
      /\ request[s].op = "deleteModel" /\ to = "delete" => UsedBy(K(s)) = {} /\ UNCHANGED data
      /\ ClosesAccount(s) \/ request[s].op = "deleteDataset" =>
           /\ to = "objects" => at = "get" /\ UNCHANGED data
           /\ to = "images" => at = "objects"
           /\ to = "rows" => at = "images"
      /\ ClosesAccount(s) =>
           /\ to \notin {"user", "list", "get"}
           /\ to = "next" => at = "rows" /\ dataset'[D(s)].state = "gone"
           /\ to = "sessions" => at = "next" /\ request[s].left = {} /\ UNCHANGED data
           /\ to = "embed" => at = "sessions" /\ \A r \in rows' : r[1] # "session"
           /\ to = "vision" => at = "embed" /\ model'["embed"] \notin {"own", "reserved"}
           /\ to = "row" => at = "vision" /\ model'["vision"] \notin {"own", "reserved"} /\ model'["embed"] = model["embed"]

\* Closing an account finds what it has to delete.
Lists(s) ==
  LET at == request[s].at
      to == request'[s].at
  IN  /\ ClosesAccount(s) /\ request'[s].op = "deleteAccount" /\ UNCHANGED data
      /\ \/ at = "user" /\ to = "list" /\ user /\ request'[s].owned = Holdings
         \/ /\ at = "list" /\ to = "next"
            /\ request'[s].left = {d \in Ids : Present(d)} /\ request'[s].owned = request[s].owned
         \/ /\ at = "next" /\ to = "get" /\ request'[s].d \in request[s].left
            /\ request'[s].left = request[s].left \ {request'[s].d} /\ request'[s].owned = request[s].owned

\* A slot without a request is typed.
LEMMA NoneTyped == None \in RequestRow /\ None.op = "none" /\ None.at = "end" /\ None.left = {} /\ None.owned = {}
<1>1. 1 \in Ids
  BY CatalogAssumption DEF Ids
<1>2. None.at \in UNION {PointsOf[op] : op \in DOMAIN PointsOf}
  <2>1. "none" \in DOMAIN PointsOf /\ None.at \in PointsOf["none"]
    BY DEF None, PointsOf
  <2> QED
    BY <2>1
<1> QED
  BY <1>1, <1>2 DEF None, RequestRow, Kinds, PointsOf

\* A request that goes on stays itself.
LEMMA GoTyped ==
  ASSUME RequestsTyped, NEW s \in Slots, NEW at \in PointsOf[request[s].op],
         ~(request[s].op = "deleteAccount" /\ (request[s].at = "user" \/ at = "user")),
         request' = [request EXCEPT ![s].at = at]
  PROVE  RequestsTyped' /\ SameRequest(s) /\ request'[s].at = at /\ RowsStay(s)
<1>1. request[s] \in RequestRow
  BY DEF RequestsTyped
<1>2. at \in UNION {PointsOf[op] : op \in DOMAIN PointsOf}
  BY <1>1 DEF RequestRow
<1>3. [request[s] EXCEPT !.at = at] \in RequestRow
  BY <1>1, <1>2 DEF RequestRow
<1>4. /\ request' = [request EXCEPT ![s] = [request[s] EXCEPT !.at = at]]
      /\ request'[s] = [request[s] EXCEPT !.at = at]
  BY DEF RequestsTyped
<1>5. SameRequest(s) /\ request'[s].at = at
  BY <1>1, <1>4 DEF SameRequest, RequestRow
<1>6. RowsStay(s)
  BY DEF RequestsTyped, RowsStay
<1>7. request' \in [Slots -> RequestRow]
  BY <1>3, <1>4 DEF RequestsTyped
<1>8. request'[s].at \in PointsOf[request'[s].op]
  BY <1>5 DEF SameRequest
<1>9. request'[s].op # "deleteAccount" \/ request'[s].at = "user" => request'[s].left = {} /\ request'[s].owned = {}
  BY <1>5 DEF SameRequest, RequestsTyped
<1> QED
  BY <1>5, <1>6, <1>7, <1>8, <1>9 DEF RequestsTyped, RowsStay

\* A request that ends leaves its slot.
LEMMA EndTyped ==
  ASSUME RequestsTyped, NEW s \in Slots, request' = [request EXCEPT ![s] = None]
  PROVE  RequestsTyped' /\ request'[s] = None /\ RowsStay(s)
BY NoneTyped DEF RequestsTyped, RowsStay, PointsOf

\* What the user may begin is a request at its first point.
LEMMA BegunTyped ==
  ASSUME NEW r \in Requests
  PROVE  /\ r \in RequestRow /\ r.left = {} /\ r.owned = {} /\ r.at \in PointsOf[r.op]
         /\ r.at \in {"embed", "get", "user"} \/ (r.op = "createModel" /\ r.at = "insert")
         /\ r.op = "createDataset" => r.at = "embed" /\ r.d \in NextId
         /\ r.op # "createDataset" => r.at # "embed"
         /\ r.op = "deleteAccount" => r.at = "user"
<1> DEFINE Points == UNION {PointsOf[op] : op \in DOMAIN PointsOf}
<1>1. /\ \A op \in DOMAIN PointsOf : \A at \in PointsOf[op] : at \in Points
      /\ NextId \subseteq Ids /\ 1 \in Ids
  BY CatalogAssumption DEF NextId, Ids
<1>2. ASSUME NEW op \in DOMAIN PointsOf, NEW at \in Points, NEW d \in Ids
      PROVE  LET q == On(d, op, at)
             IN  q \in RequestRow /\ q.op = op /\ q.at = at /\ q.d = d /\ q.left = {} /\ q.owned = {}
  BY NoneTyped, <1>2 DEF On, RequestRow
<1>3. ASSUME NEW op \in DOMAIN PointsOf, NEW at \in Points, NEW k \in Kinds
      PROVE  LET q == Of(k, op, at)
             IN  q \in RequestRow /\ q.op = op /\ q.at = at /\ q.left = {} /\ q.owned = {}
  BY NoneTyped, <1>3 DEF Of, RequestRow
<1>4. ASSUME NEW q \in RequestRow, NEW e \in {"official", "own"}, NEW v \in {"unused", "own"}
      PROVE  LET w == Binding(q, e, v)
             IN  w \in RequestRow /\ w.op = q.op /\ w.at = q.at /\ w.d = q.d /\ w.left = q.left /\ w.owned = q.owned
  BY <1>4 DEF RequestRow, Binding
<1>5. CASE \E d \in NextId, e \in {"official", "own"}, v \in {"unused", "own"} :
             r = Binding(On(d, "createDataset", "embed"), e, v)
  <2>1. PICK d \in NextId, e \in {"official", "own"}, v \in {"unused", "own"} :
             r = Binding(On(d, "createDataset", "embed"), e, v)
    BY <1>5
  <2>2. "createDataset" \in DOMAIN PointsOf /\ "embed" \in PointsOf["createDataset"]
    BY DEF PointsOf
  <2> HIDE DEF Points
  <2> QED
    BY <1>1, <1>2, <1>4, <2>1, <2>2
<1>6. CASE \E d \in Ids, v \in {"unused", "own"} : r = Binding(On(d, "updateDataset", "get"), "official", v)
  <2>1. "updateDataset" \in DOMAIN PointsOf /\ "get" \in PointsOf["updateDataset"]
    BY DEF PointsOf
  <2> HIDE DEF Points
  <2> QED
    BY <1>1, <1>2, <1>4, <1>6, <2>1
<1>7. CASE \E d \in Ids, op \in {"register", "createSession", "deleteDataset"} : r = On(d, op, "get")
  <2>1. \A op \in {"register", "createSession", "deleteDataset"} : op \in DOMAIN PointsOf /\ "get" \in PointsOf[op]
    BY DEF PointsOf
  <2> HIDE DEF Points
  <2> QED
    BY <1>1, <1>2, <1>7, <2>1
<1>8. CASE \E k \in Kinds : r = Of(k, "createModel", "insert")
  <2>1. "createModel" \in DOMAIN PointsOf /\ "insert" \in PointsOf["createModel"]
    BY DEF PointsOf
  <2> HIDE DEF Points
  <2> QED
    BY <1>1, <1>3, <1>8, <2>1
<1>9. CASE \E k \in Kinds, op \in {"renameModel", "deleteModel"} : r = Of(k, op, "get")
  <2>1. \A op \in {"renameModel", "deleteModel"} : op \in DOMAIN PointsOf /\ "get" \in PointsOf[op]
    BY DEF PointsOf
  <2> HIDE DEF Points
  <2> QED
    BY <1>1, <1>3, <1>9, <2>1
<1>10. CASE r = On(1, "deleteAccount", "user")
  <2>1. "deleteAccount" \in DOMAIN PointsOf /\ "user" \in PointsOf["deleteAccount"]
    BY DEF PointsOf
  <2> HIDE DEF Points
  <2> QED
    BY <1>1, <1>2, <1>10, <2>1
<1> QED
  BY <1>5, <1>6, <1>7, <1>8, <1>9, <1>10 DEF Requests

\* What the user can see are things.
LEMMA HoldingsTyped ==
  ASSUME TypeOK
  PROVE  Holdings \in SUBSET Things
<1>1. {<<"dataset", d>> : d \in {i \in Ids : dataset[i].state = "there"}} \subseteq Things
  BY DEF Things
<1>2. {<<"model", k>> : k \in {j \in Kinds : model[j] \in {"own", "reserved"}}} \subseteq Things
  BY DEF Things
<1>3. rows \subseteq Things
  BY DEF TypeOK, Things, Tables
<1> QED
  BY <1>1, <1>2, <1>3 DEF Holdings

\* Only the slot of a request changes, and stays typed; a request that is not
\* begun or ended passes from one of its points to another, or lists what it
\* is to delete.
LEMMA RequestsNext ==
  ASSUME TypeOK, RequestsTyped, NEW s \in Slots, Request(s)
  PROVE  /\ RequestsTyped' /\ RowsStay(s)
         /\ \/ Begin(s) /\ request'[s] \in Requests /\ Distinct(request'[s])
            \/ request'[s] = None
            \/ SameRequest(s) /\ Passes(s)
            \/ Lists(s)
<1> DEFINE Goal == /\ RequestsTyped' /\ RowsStay(s)
                   /\ \/ Begin(s) /\ request'[s] \in Requests /\ Distinct(request'[s])
                      \/ request'[s] = None
                      \/ SameRequest(s) /\ Passes(s)
                      \/ Lists(s)
<1> SUFFICES Goal
  OBVIOUS
<1>1. request' = [request EXCEPT ![s] = None] => Goal
  BY EndTyped
<1>2. ASSUME NEW at \in PointsOf[request[s].op],
             ~(request[s].op = "deleteAccount" /\ (request[s].at = "user" \/ at = "user")),
             request' = [request EXCEPT ![s].at = at],
             SameRequest(s) /\ request'[s].at = at => Passes(s)
      PROVE  Goal
  BY <1>2, GoTyped
<1> USE DEF ClosesAccount, Adds, Binds
<1>3. request[s] \in RequestRow /\ request[s].at \in PointsOf[request[s].op]
  BY DEF RequestsTyped
<1>3a. ASSUME NEW q \in RequestRow, request[s].op = "deleteAccount", q.op = "deleteAccount",
              q.at \in PointsOf["deleteAccount"], q.at # "user", request' = [request EXCEPT ![s] = q],
              request'[s] = q => Lists(s)
       PROVE  Goal
  BY <1>3a DEF RequestsTyped, RowsStay
<1>3b. PointsOf["deleteAccount"] \subseteq UNION {PointsOf[op] : op \in DOMAIN PointsOf}
  BY DEF PointsOf
<1> HIDE DEF Goal
<1>4. CASE Begin(s)
  <2>1. PICK r \in Requests : Distinct(r) /\ request' = [request EXCEPT ![s] = r]
    BY <1>4 DEF Begin
  <2>2. RequestsTyped' /\ RowsStay(s) /\ request'[s] = r
    BY <2>1, BegunTyped DEF RequestsTyped, RowsStay
  <2> QED
    BY <1>4, <2>1, <2>2 DEF Goal
<1>5. CASE Fails(s)
  BY <1>1, <1>5 DEF Fails
<1>6. CASE GetDataset(s)
  <2>1. \A op \in DOMAIN NextAfterGet : NextAfterGet[op] \in PointsOf[op] /\ NextAfterGet[op] # "user"
    BY DEF NextAfterGet, PointsOf
  <2>2. ASSUME SameRequest(s), Present(D(s)), request[s].op \in DOMAIN NextAfterGet,
               request'[s].at = NextAfterGet[request[s].op]
        PROVE  Passes(s)
    BY <1>6, <2>2 DEF GetDataset, Passes, NextAfterGet, TableOf
  <2> QED
    BY <1>1, <1>2, <1>6, <2>1, <2>2 DEF GetDataset, GoTo, End
<1>7. CASE ResolveEmbed(s) \/ ResolveVision(s)
  <2>1. /\ "vision" \in PointsOf["createDataset"]
        /\ \A op \in {"createDataset", "updateDataset"} : "insert" \in PointsOf[op]
    BY DEF PointsOf
  <2>2. ASSUME ResolveEmbed(s), request'[s].at = "vision", request[s].embed = "own" => Exists("embed")
        PROVE  Passes(s)
    BY <2>2 DEF ResolveEmbed, At, Passes, TableOf
  <2>3. ASSUME ResolveVision(s), request'[s].at = "insert", request[s].vision = "own" => Exists("vision")
        PROVE  Passes(s)
    BY <2>3 DEF ResolveVision, Passes, TableOf
  <2> QED
    BY <1>1, <1>2, <1>7, <2>1, <2>2, <2>3 DEF ResolveEmbed, ResolveVision, At, GoTo, End
<1>8. CASE InsertDataset(s) \/ UpdateDataset(s) \/ InsertRow(s) \/ CreateModel(s) \/ RenameModel(s)
             \/ DeleteModel(s) \/ DeleteUser(s)
  BY <1>1, <1>8 DEF InsertDataset, UpdateDataset, InsertRow, CreateModel, RenameModel, DeleteModel, DeleteUser, End
<1>9. CASE GetModel(s) \/ CountUses(s)
  <2>1. "count" \in PointsOf["deleteModel"] /\ "write" \in PointsOf["renameModel"] /\ "delete" \in PointsOf["deleteModel"]
    BY DEF PointsOf
  <2>2. ASSUME \/ GetModel(s) /\ request'[s].at \in {"count", "write"}
               \/ CountUses(s) /\ request'[s].at = "delete" /\ UsedBy(K(s)) = {}
        PROVE  Passes(s)
    BY <2>2 DEF GetModel, CountUses, At, Passes, TableOf
  <2> QED
    BY <1>1, <1>2, <1>9, <2>1, <2>2 DEF GetModel, CountUses, At, GoTo, End
<1>10. CASE DeleteObjects(s)
  <2>1. /\ request[s].at = "objects" => "images" \in PointsOf[request[s].op]
        /\ request[s].at = "images" => "rows" \in PointsOf[request[s].op]
    BY <1>3 DEF RequestRow, PointsOf
  <2>2. \/ request[s].at = "objects" /\ request' = [request EXCEPT ![s].at = "images"]
        \/ request[s].at = "images" /\ request' = [request EXCEPT ![s].at = "rows"]
    <3>1. PICK step \in {[at |-> "objects", sort |-> "source", table |-> "doc", next |-> "images"],
                          [at |-> "images", sort |-> "image", table |-> "chunk", next |-> "rows"]} :
                 request[s].at = step.at /\ request' = [request EXCEPT ![s].at = step.next]
      BY <1>10 DEF DeleteObjects
    <3>2. \/ step.at = "objects" /\ step.next = "images"
          \/ step.at = "images" /\ step.next = "rows"
      OBVIOUS
    <3> QED
      BY <3>1, <3>2
  <2>3. ASSUME \/ request[s].at = "objects" /\ request'[s].at = "images"
               \/ request[s].at = "images" /\ request'[s].at = "rows"
        PROVE  Passes(s) /\ request[s].op \in {"deleteDataset", "deleteAccount"}
    <3>1. request[s].op \in {"deleteDataset", "deleteAccount"}
      BY <1>3, <2>3 DEF RequestRow, PointsOf
    <3> QED
      BY <2>3, <3>1 DEF Passes, TableOf
  <2> QED
    BY <1>2, <2>1, <2>2, <2>3
<1>11. CASE DeleteRows(s)
  <2>1. "next" \in PointsOf["deleteAccount"]
    BY DEF PointsOf
  <2>2. ASSUME Present(D(s)), request[s].op = "deleteAccount", request'[s].at = "next"
        PROVE  Passes(s)
    <3>1. dataset'[D(s)].state = "gone" /\ request[s].at = "rows"
      BY <1>3, <1>11, <2>2 DEF DeleteRows, TypeOK, Absent, RequestRow, D
    <3> QED
      BY <2>2, <3>1 DEF Passes, TableOf
  <2> QED
    BY <1>1, <1>2, <1>11, <2>1, <2>2 DEF DeleteRows, GoTo, End
<1>12. CASE FindUser(s)
  <2>1. CASE ~user
    BY <1>1, <1>12, <2>1 DEF FindUser, End
  <2>2. CASE user
    <3>1. "list" \in PointsOf["deleteAccount"]
      BY DEF PointsOf
    <3>2. Holdings \in SUBSET Things
      BY HoldingsTyped
    <3>3. request' = [request EXCEPT ![s].at = "list", ![s].owned = Holdings] /\ request[s].op = "deleteAccount"
      BY <1>12, <2>2 DEF FindUser, At
    <3>4. request' = [request EXCEPT ![s] = [request[s] EXCEPT !.at = "list", !.owned = Holdings]]
      BY <3>3 DEF RequestsTyped
    <3> DEFINE q == [request[s] EXCEPT !.at = "list", !.owned = Holdings]
    <3>5. q \in RequestRow /\ q.op = request[s].op /\ q.at = "list"
      BY <1>3, <1>3b, <3>1, <3>2 DEF RequestRow
    <3>6. request'[s] = q => Lists(s)
      BY <1>3, <1>12, <2>2 DEF RequestRow, FindUser, At, Lists
    <3> HIDE DEF q
    <3>7. request' = [request EXCEPT ![s] = q]
      BY <3>4 DEF q
    <3> QED
      BY <1>3a, <3>1, <3>3, <3>5, <3>6, <3>7
  <2> QED
    BY <2>1, <2>2
<1>13. CASE ListDatasets(s)
  <2>1. "next" \in PointsOf["deleteAccount"]
    BY DEF PointsOf
  <2> DEFINE left == {d \in Ids : Present(d)}
  <2>2. request' = [request EXCEPT ![s].at = "next", ![s].left = left] /\ request[s].op = "deleteAccount"
    BY <1>13 DEF ListDatasets, At
  <2>3. left \in SUBSET Ids
    OBVIOUS
  <2> HIDE DEF left
  <2>4. request' = [request EXCEPT ![s] = [request[s] EXCEPT !.at = "next", !.left = left]]
    BY <2>2 DEF RequestsTyped
  <2> DEFINE q == [request[s] EXCEPT !.at = "next", !.left = left]
  <2>5. q \in RequestRow /\ q.op = request[s].op /\ q.at = "next"
    BY <1>3, <1>3b, <2>1, <2>3 DEF RequestRow
  <2>6. request'[s] = q => Lists(s)
    <3>1. q.left = left /\ q.owned = request[s].owned
      BY <1>3 DEF RequestRow
    <3>2. UNCHANGED data /\ request[s].at = "list"
      BY <1>13 DEF ListDatasets, At
    <3> HIDE DEF q
    <3> QED
      BY <2>2, <2>5, <3>1, <3>2 DEF Lists, left
  <2> HIDE DEF q
  <2>7. request' = [request EXCEPT ![s] = q]
    BY <2>4 DEF q
  <2> QED
    BY <1>3a, <2>1, <2>2, <2>5, <2>6, <2>7
<1>14. CASE NextDataset(s)
  <2>1. "sessions" \in PointsOf["deleteAccount"] /\ "get" \in PointsOf["deleteAccount"]
    BY DEF PointsOf
  <2>2. request[s].at = "next" /\ request[s].op = "deleteAccount"
    BY <1>14 DEF NextDataset, At
  <2>3. CASE request[s].left = {} /\ GoTo(s, "sessions")
    <3>1. request'[s].at = "sessions" => Passes(s)
      BY <1>14, <2>2, <2>3 DEF NextDataset, Passes, TableOf
    <3> QED
      BY <1>2, <2>1, <2>2, <2>3, <3>1 DEF GoTo
  <2>4. CASE \E d \in request[s].left :
               request' = [request EXCEPT ![s].at = "get", ![s].d = d, ![s].left = @ \ {d}]
    <3>1. PICK d \in request[s].left :
                 request' = [request EXCEPT ![s].at = "get", ![s].d = d, ![s].left = @ \ {d}]
      BY <2>4
    <3> DEFINE left == request[s].left \ {d}
    <3>2. d \in Ids /\ left \in SUBSET Ids
      BY <1>3 DEF RequestRow
    <3>3. request' = [request EXCEPT ![s] = [request[s] EXCEPT !.at = "get", !.d = d, !.left = left]]
      BY <1>3, <3>1 DEF RequestsTyped, RequestRow
    <3> HIDE DEF left
    <3> DEFINE q == [request[s] EXCEPT !.at = "get", !.d = d, !.left = left]
    <3>4. q \in RequestRow /\ q.op = request[s].op /\ q.at = "get"
      BY <1>3, <1>3b, <2>1, <3>2 DEF RequestRow
    <3>5. request'[s] = q => Lists(s)
      BY <1>3, <1>14, <2>2 DEF RequestRow, NextDataset, Lists, left
    <3> HIDE DEF q
    <3>6. request' = [request EXCEPT ![s] = q]
      BY <3>3 DEF q
    <3> QED
      BY <1>3a, <2>1, <2>2, <3>4, <3>5, <3>6
  <2> QED
    BY <1>14, <2>3, <2>4 DEF NextDataset
<1>15. CASE DeleteConversations(s)
  <2>1. "embed" \in PointsOf["deleteAccount"]
    BY DEF PointsOf
  <2>2. request'[s].at = "embed" => Passes(s)
    BY <1>15 DEF DeleteConversations, At, Passes, TableOf
  <2> QED
    BY <1>2, <1>15, <2>1, <2>2 DEF DeleteConversations, At, GoTo
<1>16. CASE DeleteAllModels(s)
  <2>1. \A k \in Kinds : AfterModels[k] \in PointsOf["deleteAccount"] /\ AfterModels[k] # "user" /\ k # "user"
    BY DEF PointsOf, AfterModels, Kinds
  <2>2. ASSUME NEW k \in Kinds, At(s, "deleteAccount", k), request'[s].at = AfterModels[k],
               model' = IF Exists(k) THEN [model EXCEPT ![k] = "gone"] ELSE model
        PROVE  Passes(s)
    BY <2>2 DEF At, Passes, TableOf, AfterModels, Kinds, TypeOK, Exists
  <2> QED
    BY <1>2, <1>16, <2>1, <2>2 DEF DeleteAllModels, At, GoTo
<1> QED
  BY <1>4, <1>5, <1>6, <1>7, <1>8, <1>9, <1>10, <1>11, <1>12, <1>13, <1>14, <1>15, <1>16 DEF Request

-----------------------------------------------------------------------------
(* What a step of a request does to the tables.                            *)

\* The tables keep their types.
LEMMA TypesNext ==
  ASSUME TypeOK, RequestsTyped, NEW s \in Slots, Request(s)
  PROVE  TypeOK'
<1>1. request[s] \in RequestRow /\ D(s) \in Ids /\ K(s) \in Kinds
  BY DEF RequestsTyped, RequestRow, D, K
<1>2. faults' \in 0..MaxFaults
  <2>1. CASE Fails(s) \/ DeleteObjects(s)
    BY <2>1, FaultAssumption DEF Fails, DeleteObjects, Fault, NoFault, TypeOK
  <2>2. CASE UNCHANGED faults
    BY <2>2 DEF TypeOK
  <2> QED
    BY <2>1, <2>2 DEF Request, Begin, GetDataset, ResolveEmbed, ResolveVision, InsertDataset, UpdateDataset,
       InsertRow, CreateModel, GetModel, RenameModel, CountUses, DeleteModel, DeleteRows, FindUser,
       ListDatasets, NextDataset, DeleteConversations, DeleteAllModels, DeleteUser, GoTo, End
<1>3. begun' \in 0..MaxRequests
  <2>1. CASE Begin(s)
    BY <2>1, CatalogAssumption DEF Begin, TypeOK
  <2>2. CASE UNCHANGED begun
    BY <2>2 DEF TypeOK
  <2> QED
    BY <2>1, <2>2 DEF Request, Fails, GetDataset, ResolveEmbed, ResolveVision, InsertDataset, UpdateDataset,
       InsertRow, CreateModel, GetModel, RenameModel, CountUses, DeleteModel, DeleteObjects, DeleteRows, FindUser,
       ListDatasets, NextDataset, DeleteConversations, DeleteAllModels, DeleteUser, GoTo, End
<1>4. user' \in BOOLEAN
  BY DEF Request, Begin, Fails, GetDataset, ResolveEmbed, ResolveVision, InsertDataset, UpdateDataset,
     InsertRow, CreateModel, GetModel, RenameModel, CountUses, DeleteModel, DeleteObjects, DeleteRows, FindUser,
     ListDatasets, NextDataset, DeleteConversations, DeleteAllModels, DeleteUser, TypeOK, data
<1>5. model' \in [Kinds -> ModelStates] /\ model'["vision"] # "reserved"
  <2>1. CASE CreateModel(s) \/ DeleteModel(s)
    BY <1>1, <2>1 DEF CreateModel, DeleteModel, TypeOK, ModelStates, Kinds
  <2>2. CASE RenameModel(s)
    BY <1>1, <2>2 DEF RenameModel, TypeOK, ModelStates, Kinds
  <2>3. CASE DeleteAllModels(s)
    BY <1>1, <2>3 DEF DeleteAllModels, TypeOK, ModelStates, Kinds
  <2>4. CASE UNCHANGED model
    BY <2>4 DEF TypeOK
  <2> QED
    BY <2>1, <2>2, <2>3, <2>4 DEF Request, Begin, Fails, GetDataset, ResolveEmbed, ResolveVision, InsertDataset, UpdateDataset,
       InsertRow, GetModel, CountUses, DeleteObjects, DeleteRows, FindUser,
       ListDatasets, NextDataset, DeleteConversations, DeleteUser, data
<1>6. dataset' \in [Ids -> DatasetRow]
  <2>1. CASE InsertDataset(s)
    BY <1>1, <2>1 DEF InsertDataset, TypeOK, DatasetRow, RequestRow
  <2>2. CASE UpdateDataset(s)
    <3>1. dataset[D(s)] \in DatasetRow
      BY <1>1 DEF TypeOK
    <3>2. [dataset[D(s)] EXCEPT !.vision = request[s].vision] \in DatasetRow
      BY <1>1, <3>1 DEF DatasetRow, RequestRow
    <3> QED
      BY <1>1, <2>2, <3>2 DEF UpdateDataset, TypeOK
  <2>3. CASE DeleteRows(s)
    BY <1>1, <2>3 DEF DeleteRows, TypeOK, DatasetRow, Absent
  <2>4. CASE UNCHANGED dataset
    BY <2>4 DEF TypeOK
  <2> QED
    BY <2>1, <2>2, <2>3, <2>4 DEF Request, Begin, Fails, GetDataset, ResolveEmbed, ResolveVision,
       InsertRow, CreateModel, RenameModel, DeleteModel, DeleteAllModels, GetModel, CountUses, DeleteObjects, FindUser,
       ListDatasets, NextDataset, DeleteConversations, DeleteUser, data
<1>7. rows' \subseteq {"doc", "chunk", "session"} \X Ids
  <2>1. CASE InsertRow(s)
    BY <1>1, <2>1 DEF InsertRow, TypeOK, TableOf
  <2>2. CASE DeleteRows(s) \/ DeleteConversations(s)
    BY <2>2 DEF DeleteRows, DeleteConversations, TypeOK
  <2>3. CASE UNCHANGED rows
    BY <2>3 DEF TypeOK
  <2> QED
    BY <2>1, <2>2, <2>3 DEF Request, Begin, Fails, GetDataset, ResolveEmbed, ResolveVision, InsertDataset, UpdateDataset,
       CreateModel, RenameModel, DeleteModel, DeleteAllModels, GetModel, CountUses, DeleteObjects, FindUser,
       ListDatasets, NextDataset, DeleteUser, data
<1>8. objects' \subseteq {"source", "image"} \X Ids
  <2>1. CASE Begin(s)
    <3>1. PICK r \in Requests : objects' = objects \cup (IF r.op = "register" THEN {<<"source", r.d>>} ELSE {})
      BY <2>1 DEF Begin
    <3>2. r.d \in Ids
      BY BegunTyped DEF RequestRow
    <3> QED
      BY <3>1, <3>2 DEF TypeOK
  <2>2. CASE DeleteObjects(s)
    BY <2>2 DEF DeleteObjects, TypeOK
  <2>3. CASE UNCHANGED objects
    BY <2>3 DEF TypeOK
  <2> QED
    BY <2>1, <2>2, <2>3 DEF Request, Fails, GetDataset, ResolveEmbed, ResolveVision, InsertDataset, UpdateDataset,
       InsertRow, CreateModel, RenameModel, DeleteModel, DeleteAllModels, GetModel, CountUses, DeleteRows, FindUser,
       ListDatasets, NextDataset, DeleteConversations, DeleteUser, data
<1> QED
  BY <1>2, <1>3, <1>4, <1>5, <1>6, <1>7, <1>8 DEF TypeOK

\* The datasets a step creates, changes and deletes.
LEMMA DatasetsNext ==
  ASSUME TypeOK, RequestsTyped, NEW s \in Slots, Request(s)
  PROVE  \/ UNCHANGED dataset
         \/ /\ InsertDataset(s)
            /\ dataset'[D(s)].state = "there"
            /\ dataset'[D(s)].embed = request[s].embed /\ dataset'[D(s)].vision = request[s].vision
            /\ \A d \in Ids \ {D(s)} : dataset'[d] = dataset[d]
         \/ /\ UpdateDataset(s) /\ Present(D(s))
            /\ dataset'[D(s)].state = "there"
            /\ dataset'[D(s)].embed = dataset[D(s)].embed /\ dataset'[D(s)].vision = request[s].vision
            /\ \A d \in Ids \ {D(s)} : dataset'[d] = dataset[d]
         \/ /\ DeleteRows(s) /\ Present(D(s))
            /\ dataset'[D(s)].state = "gone"
            /\ \A d \in Ids \ {D(s)} : dataset'[d] = dataset[d]
<1>1. request[s] \in RequestRow /\ D(s) \in Ids
  BY DEF RequestsTyped, RequestRow, D
<1>2. CASE InsertDataset(s)
  BY <1>1, <1>2 DEF InsertDataset, TypeOK
<1>3. CASE UpdateDataset(s)
  <2>1. dataset[D(s)] \in DatasetRow
    BY <1>1 DEF TypeOK
  <2>2. /\ [dataset[D(s)] EXCEPT !.vision = request[s].vision].state = dataset[D(s)].state
        /\ [dataset[D(s)] EXCEPT !.vision = request[s].vision].embed = dataset[D(s)].embed
        /\ [dataset[D(s)] EXCEPT !.vision = request[s].vision].vision = request[s].vision
    BY <1>1, <2>1 DEF DatasetRow
  <2> QED
    BY <1>1, <1>3, <2>2 DEF UpdateDataset, TypeOK, Present
<1>4. CASE DeleteRows(s)
  BY <1>1, <1>4 DEF DeleteRows, TypeOK, Absent
<1> QED
  BY <1>2, <1>3, <1>4 DEF Request, Begin, Fails, GetDataset, ResolveEmbed, ResolveVision,
     InsertRow, CreateModel, RenameModel, DeleteModel, DeleteAllModels, GetModel, CountUses, DeleteObjects, FindUser,
     ListDatasets, NextDataset, DeleteConversations, DeleteUser, data

\* The models a step creates, renames and deletes.
LEMMA ModelsNext ==
  ASSUME TypeOK, RequestsTyped, NEW s \in Slots, Request(s)
  PROVE  \/ UNCHANGED model
         \/ /\ CreateModel(s) /\ model[K(s)] = "absent" /\ model'[K(s)] = "own"
            /\ \A k \in Kinds \ {K(s)} : model'[k] = model[k]
         \/ /\ RenameModel(s) /\ Exists(K(s)) /\ model'[K(s)] = "reserved"
            /\ \A k \in Kinds \ {K(s)} : model'[k] = model[k]
         \/ /\ DeleteModel(s) /\ Exists(K(s)) /\ model'[K(s)] = "gone"
            /\ \A k \in Kinds \ {K(s)} : model'[k] = model[k]
         \/ \E k \in Kinds :
              /\ DeleteAllModels(s) /\ At(s, "deleteAccount", k) /\ Exists(k) /\ model'[k] = "gone"
              /\ \A j \in Kinds \ {k} : model'[j] = model[j]
<1>1. K(s) \in Kinds
  BY DEF RequestsTyped, RequestRow, K
<1>2. CASE CreateModel(s) \/ RenameModel(s) \/ DeleteModel(s)
  BY <1>1, <1>2 DEF CreateModel, RenameModel, DeleteModel, TypeOK
<1>3. CASE DeleteAllModels(s)
  <2>1. PICK k \in Kinds : At(s, "deleteAccount", k) /\ model' = IF Exists(k) THEN [model EXCEPT ![k] = "gone"] ELSE model
    BY <1>3 DEF DeleteAllModels
  <2> QED
    BY <1>3, <2>1 DEF TypeOK
<1> QED
  BY <1>2, <1>3 DEF Request, Begin, Fails, GetDataset, ResolveEmbed, ResolveVision, InsertDataset, UpdateDataset,
     InsertRow, GetModel, CountUses, DeleteObjects, DeleteRows, FindUser,
     ListDatasets, NextDataset, DeleteConversations, DeleteUser, data

\* The rows a step adds and removes.
LEMMA RowsNext ==
  ASSUME TypeOK, RequestsTyped, NEW s \in Slots, Request(s)
  PROVE  \/ UNCHANGED rows
         \/ InsertRow(s) /\ Adds(s) /\ request[s].at = "insert" /\ rows' = rows \cup {RowOf(s)} /\ request'[s] = None
         \/ DeleteRows(s) /\ Present(D(s)) /\ rows' = rows \ CascadeOf(D(s))
         \/ DeleteConversations(s) /\ At(s, "deleteAccount", "sessions") /\ rows' = {r \in rows : r[1] # "session"}
<1>1. InsertRow(s) => /\ Adds(s) /\ request[s].at = "insert" /\ rows' = rows \cup {RowOf(s)} /\ request'[s] = None
  BY EndTyped DEF InsertRow, Adds, RowOf, End
<1> QED
  BY <1>1 DEF Request, Begin, Fails, GetDataset, ResolveEmbed, ResolveVision, InsertDataset, UpdateDataset,
     CreateModel, RenameModel, DeleteModel, DeleteAllModels, GetModel, CountUses, DeleteObjects, DeleteRows, FindUser,
     ListDatasets, NextDataset, DeleteConversations, DeleteUser, data

\* The sources a step stores and deletes.
LEMMA SourcesNext ==
  ASSUME TypeOK, RequestsTyped, NEW s \in Slots, Request(s)
  PROVE  /\ Begin(s) /\ request'[s].op = "register" => <<"source", request'[s].d>> \in objects'
         /\ \A d \in Ids : <<"source", d>> \in objects /\ <<"source", d>> \notin objects' =>
              /\ DeleteObjects(s) /\ D(s) = d /\ <<"doc", d>> \in rows
              /\ request[s].at = "objects" /\ request'[s].at = "images" /\ SameRequest(s)
<1>1. Begin(s) /\ request'[s].op = "register" => <<"source", request'[s].d>> \in objects'
  <2>1. ASSUME Begin(s)
        PROVE  \E r \in Requests : request'[s] = r /\ objects' = objects \cup (IF r.op = "register" THEN {<<"source", r.d>>} ELSE {})
    BY <2>1 DEF Begin, RequestsTyped
  <2> QED
    BY <2>1
<1>2. objects \subseteq objects' \/ DeleteObjects(s)
  BY DEF Request, Begin, Fails, GetDataset, ResolveEmbed, ResolveVision, InsertDataset, UpdateDataset, InsertRow,
     CreateModel, RenameModel, DeleteModel, DeleteAllModels, GetModel, CountUses, DeleteRows, FindUser,
     ListDatasets, NextDataset, DeleteConversations, DeleteUser, data
<1>3. ASSUME DeleteObjects(s), NEW d \in Ids, <<"source", d>> \in objects, <<"source", d>> \notin objects'
      PROVE  /\ D(s) = d /\ <<"doc", d>> \in rows
             /\ request[s].at = "objects" /\ request'[s].at = "images" /\ SameRequest(s)
  <2>1. PICK step \in {[at |-> "objects", sort |-> "source", table |-> "doc", next |-> "images"],
                       [at |-> "images", sort |-> "image", table |-> "chunk", next |-> "rows"]} :
               /\ request[s].at = step.at /\ request' = [request EXCEPT ![s].at = step.next]
               /\ objects' = objects \ KeysOf(D(s), step.sort, step.table) \/ objects' = objects
    BY <1>3 DEF DeleteObjects
  <2>2. \/ step.at = "objects" /\ step.next = "images" /\ step.sort = "source" /\ step.table = "doc"
        \/ step.at = "images" /\ step.next = "rows" /\ step.sort = "image" /\ step.table = "chunk"
    OBVIOUS
  <2>3. <<"source", d>> \in KeysOf(D(s), step.sort, step.table)
    BY <1>3, <2>1
  <2>4. step.sort = "source" /\ D(s) = d /\ <<step.table, d>> \in rows
    BY <2>3 DEF KeysOf
  <2>5. request[s] \in RequestRow /\ request[s].at \in PointsOf[request[s].op]
    BY DEF RequestsTyped
  <2>6. "images" \in PointsOf[request[s].op]
    BY <2>1, <2>2, <2>4, <2>5 DEF RequestRow, PointsOf
  <2> QED
    BY <2>1, <2>2, <2>4, <2>6, GoTyped
<1> QED
  BY <1>1, <1>2, <1>3

\* A slot that is not in use adds, binds and deletes nothing.
LEMMA NoneIdle ==
  ASSUME NEW s \in Slots, request'[s] = None
  PROVE  /\ ~Adds(s)' /\ ~Binds(s)' /\ ~ClosesAccount(s)' /\ request'[s].owned = {}
         /\ request'[s].op \notin {"createDataset", "register", "deleteModel", "deleteDataset", "deleteAccount"}
BY DEF None, Adds, Binds, ClosesAccount, TableOf

\* A dataset is created apart from others.
LEMMA CreatesNext ==
  ASSUME TypeOK, RequestsTyped, CreatesApart, NEW s \in Slots, Request(s)
  PROVE  CreatesApart'
<1> SUFFICES ASSUME NEW t \in Slots, request'[t].op = "createDataset"
             PROVE  /\ dataset'[request'[t].d].state = "absent"
                    /\ \A u \in Slots : request'[u].op = "createDataset" => u = t
  BY DEF CreatesApart, D
<1>1. \A u \in Slots \ {s} : request'[u] = request[u]
  BY RequestsNext DEF RowsStay
<1>2. CASE t = s /\ Begin(s)
  <2>1. PICK r \in Requests : Distinct(r) /\ request'[s] = r
    BY <1>2 DEF Begin, RequestsTyped
  <2>2. r.op = "createDataset" /\ r.d \in NextId
    BY <1>2, <2>1, BegunTyped
  <2>3. UNCHANGED dataset
    BY <1>2 DEF Begin
  <2> QED
    BY <1>1, <1>2, <2>1, <2>2, <2>3 DEF Distinct, NextId
<1>3. CASE ~(t = s /\ Begin(s))
  <2>1. request[t].op = "createDataset" /\ request'[t].d = request[t].d
    BY <1>1, <1>3, RequestsNext, NoneIdle DEF SameRequest, Lists
  <2>2. dataset[D(t)].state = "absent" /\ \A u \in Slots : request[u].op = "createDataset" => u = t
    BY <2>1 DEF CreatesApart
  <2>3. D(t) \in Ids /\ D(s) \in Ids
    BY DEF RequestsTyped, RequestRow, D
  <2>4. ~InsertDataset(s)
    <3>1. InsertDataset(s) => request'[s] = None /\ request[s].op = "createDataset"
      BY EndTyped DEF InsertDataset, End, At
    <3> QED
      BY <2>2, <3>1, NoneIdle
  <2>5. dataset'[D(t)].state = "absent"
    BY <2>2, <2>3, <2>4, DatasetsNext DEF Present
  <2>6. ASSUME NEW u \in Slots, request'[u].op = "createDataset"
        PROVE  u = t
    <3>1. Begin(s) /\ u = s => \A v \in Slots : request[v].op # "createDataset"
      <4>1. ASSUME Begin(s), u = s
            PROVE  \E r \in Requests : Distinct(r) /\ request'[s] = r
        BY <4>1 DEF Begin, RequestsTyped
      <4> QED
        BY <2>6, <4>1 DEF Distinct
    <3>2. ~(Begin(s) /\ u = s)
      BY <2>1, <3>1
    <3>3. request[u].op = "createDataset"
      BY <1>1, <2>6, <3>2, RequestsNext, NoneIdle DEF SameRequest, Lists
    <3> QED
      BY <2>2, <3>3
  <2> QED
    BY <2>1, <2>5, <2>6 DEF D
<1> QED
  BY <1>2, <1>3

\* Rows stay under datasets that have been there, chunks under documents.
LEMMA RowsInPlaceNext ==
  ASSUME TypeOK, RequestsTyped, CreatesApart, AddsInPlace, RowsInPlace, NEW s \in Slots, Request(s)
  PROVE  RowsInPlace'
<1> SUFFICES ASSUME NEW d \in Ids
             PROVE  /\ <<"doc", d>> \in rows' => dataset'[d].state # "absent"
                    /\ <<"chunk", d>> \in rows' => <<"doc", d>> \in rows'
  BY DEF RowsInPlace
<1>1. dataset[d].state # "absent" => dataset'[d].state # "absent"
  BY DatasetsNext
<1>2. D(s) \in Ids
  BY DEF RequestsTyped, RequestRow, D
<1>3. CASE UNCHANGED rows
  BY <1>1, <1>3 DEF RowsInPlace
<1>4. CASE InsertRow(s) /\ Adds(s) /\ request[s].at = "insert" /\ rows' = rows \cup {RowOf(s)}
  <2>1. RowOf(s) = <<"doc", D(s)>> \/ RowOf(s) = <<"session", D(s)>>
    BY <1>4 DEF RowOf, Adds, TableOf
  <2>2. dataset[D(s)].state # "absent" /\ UNCHANGED dataset
    BY <1>4 DEF AddsInPlace, InsertRow
  <2> QED
    BY <1>4, <2>1, <2>2 DEF RowsInPlace
<1>5. CASE rows' = rows \ CascadeOf(D(s))
  BY <1>1, <1>5 DEF RowsInPlace, CascadeOf
<1>6. CASE rows' = {r \in rows : r[1] # "session"}
  BY <1>1, <1>6 DEF RowsInPlace
<1> QED
  BY <1>3, <1>4, <1>5, <1>6, RowsNext

\* A row on its way stays apart from what is there.
LEMMA AddsInPlaceNext ==
  ASSUME TypeOK, RequestsTyped, CreatesApart, AddsInPlace, RowsInPlace, NEW s \in Slots, Request(s)
  PROVE  AddsInPlace'
<1> DEFINE row(t) == <<TableOf[request'[t].op], request'[t].d>>
<1> SUFFICES ASSUME NEW t \in Slots, request'[t].op \in DOMAIN TableOf
             PROVE  /\ row(t) \notin rows'
                    /\ \A u \in Slots :
                         /\ row(t) \notin request'[u].owned
                         /\ request'[u].op = request'[t].op /\ request'[u].d = request'[t].d => u = t
                    /\ request'[t].at = "insert" => dataset'[request'[t].d].state # "absent"
                    /\ request'[t].op = "register" => <<"source", request'[t].d>> \in objects'
  BY DEF AddsInPlace, Adds, RowOf, D
<1>1. \A u \in Slots \ {s} : request'[u] = request[u]
  BY RequestsNext DEF RowsStay
<1>2. \A u \in Slots : D(u) \in Ids /\ request'[u].d \in Ids
  BY RequestsNext DEF RequestsTyped, RequestRow, D
<1>3. \A d \in Ids : dataset[d].state # "absent" => dataset'[d].state # "absent"
  BY DatasetsNext
<1>4. CASE t = s /\ Begin(s)
  <2>1. PICK r \in Requests : Distinct(r) /\ request'[s] = r
    BY <1>4 DEF Begin, RequestsTyped
  <2>2. UNCHANGED rows
    BY <1>4 DEF Begin
  <2>3. r.at # "insert" /\ r.owned = {}
    BY <1>4, <2>1, BegunTyped DEF TableOf
  <2>4. r.op = "register" => <<"source", r.d>> \in objects'
    BY <1>4, <2>1, SourcesNext
  <2> QED
    BY <1>1, <1>4, <2>1, <2>2, <2>3, <2>4 DEF Distinct
<1>5. CASE ~(t = s /\ Begin(s))
  <2>1. request[t].op = request'[t].op /\ request'[t].d = D(t)
    BY <1>1, <1>5, RequestsNext, NoneIdle DEF SameRequest, Lists, TableOf, Adds, D
  <2>2. Adds(t) /\ row(t) = RowOf(t)
    BY <2>1 DEF Adds, RowOf
  <2>3. /\ RowOf(t) \notin rows
        /\ \A u \in Slots :
             /\ RowOf(t) \notin request[u].owned
             /\ request[u].op = request[t].op /\ D(u) = D(t) => u = t
        /\ request[t].at = "insert" => dataset[D(t)].state # "absent"
        /\ request[t].op = "register" => <<"source", D(t)>> \in objects
    BY <2>2 DEF AddsInPlace
  <2>4. RowOf(t) \notin rows'
    <3>1. CASE InsertRow(s) /\ Adds(s) /\ rows' = rows \cup {RowOf(s)} /\ request'[s] = None
      <4>1. RowOf(s) = RowOf(t) => request[s].op = request[t].op /\ D(s) = D(t)
        BY <2>2, <3>1 DEF RowOf, Adds, TableOf
      <4>2. s # t
        BY <2>2, <2>1, <3>1, NoneIdle DEF Adds
      <4> QED
        BY <2>3, <3>1, <4>1, <4>2
    <3>2. CASE rows' \subseteq rows
      BY <2>3, <3>2
    <3> QED
      BY <3>1, <3>2, RowsNext
  <2>5. ASSUME NEW u \in Slots
        PROVE  RowOf(t) \notin request'[u].owned
    <3>1. CASE request'[u].owned = request[u].owned \/ request'[u].owned = {}
      BY <2>3, <3>1
    <3>2. CASE request'[u].owned = Holdings
      <4>1. RowOf(t) \notin Holdings
        BY <2>2, <2>3 DEF Holdings, RowOf, Adds, TableOf
      <4> QED
        BY <3>2, <4>1
    <3>3. Begin(s) /\ request'[s] \in Requests => request'[s].owned = {}
      BY BegunTyped
    <3> QED
      BY <1>1, <3>1, <3>2, <3>3, RequestsNext, NoneIdle DEF SameRequest, Lists
  <2>6. ASSUME NEW u \in Slots, request'[u].op = request'[t].op, request'[u].d = request'[t].d
        PROVE  u = t
    <3>1. CASE u = s /\ Begin(s)
      <4>1. PICK r \in Requests : Distinct(r) /\ request'[s] = r
        BY <3>1 DEF Begin, RequestsTyped
      <4> QED
        BY <2>1, <2>6, <3>1, <4>1 DEF Distinct, D
    <3>2. CASE ~(u = s /\ Begin(s))
      <4>1. request[u].op = request'[u].op /\ request'[u].d = D(u)
        BY <1>1, <2>6, <3>2, RequestsNext, NoneIdle DEF SameRequest, Lists, TableOf, Adds, D
      <4> QED
        BY <2>1, <2>3, <2>6, <4>1
    <3> QED
      BY <3>1, <3>2
  <2>7. request'[t].at = "insert" => dataset'[D(t)].state # "absent"
    <3>1. request'[t].at = "insert" => dataset[D(t)].state # "absent"
      BY <1>1, <1>5, <2>2, <2>3, RequestsNext, NoneIdle DEF Adds, Passes, Lists, Present, ClosesAccount, TableOf
    <3> QED
      BY <1>2, <1>3, <3>1
  <2>8. request[t].op = "register" => <<"source", D(t)>> \in objects'
    <3>1. request[t].op = "register" => RowOf(t) = <<"doc", D(t)>>
      BY DEF RowOf, TableOf
    <3>2. D(t) \in Ids
      BY <1>2
    <3> HIDE DEF row
    <3> QED
      BY <2>3, <3>1, <3>2, SourcesNext
  <2> QED
    BY <2>1, <2>2, <2>4, <2>5, <2>6, <2>7, <2>8
<1> QED
  BY <1>4, <1>5

\* Requests that conflict and are open together are recorded.
LEMMA RacesNext ==
  ASSUME NEW s \in Slots, raced' = raced \cup Conflicts, raced \subseteq {"model", "dataset"}
  PROVE  RacesRecorded' /\ raced' \subseteq {"model", "dataset"}
<1>1. Conflicts \subseteq {"model", "dataset"}
  BY DEF Conflicts
<1>2. ASSUME NEW u \in Slots, NEW t \in Slots, Binds(u)', (request[t].op = "deleteModel" \/ ClosesAccount(t))'
      PROVE  "model" \in Conflicts
  <2>1. u # t
    BY <1>2 DEF Binds, ClosesAccount
  <2> QED
    BY <1>2, <2>1 DEF Conflicts, Binds, ClosesAccount
<1>3. ASSUME NEW u \in Slots, NEW t \in Slots, (request[u].op = "register" /\ DeletesIn(t, D(u)))'
      PROVE  "dataset" \in Conflicts
  <2>1. u # t
    BY <1>3 DEF DeletesIn
  <2> QED
    BY <1>3, <2>1 DEF Conflicts, DeletesIn, D
<1> QED
  BY <1>1, <1>2, <1>3 DEF RacesRecorded

\* Without a race, rows have their dataset.
LEMMA OwnersNext ==
  ASSUME TypeOK, RequestsTyped, CreatesApart, RacesRecorded, OwnersInPlace,
         NEW s \in Slots, Request(s), raced \subseteq raced'
  PROVE  OwnersInPlace'
<1> SUFFICES ASSUME "dataset" \notin raced
             PROVE  /\ \A r \in rows' : r[1] # "session" => dataset'[r[2]].state = "there"
                    /\ \A t \in Slots : request'[t].op = "register" /\ request'[t].at = "insert" =>
                         dataset'[request'[t].d].state = "there"
  BY DEF OwnersInPlace, Present, At, D
<1>1. \A u \in Slots \ {s} : request'[u] = request[u]
  BY RequestsNext DEF RowsStay
<1>2. \A u \in Slots : D(u) \in Ids /\ request'[u].d \in Ids
  BY RequestsNext DEF RequestsTyped, RequestRow, D
<1>3. ASSUME NEW d \in Ids, Present(d)
      PROVE  dataset'[d].state = "there" \/ (DeleteRows(s) /\ D(s) = d /\ rows' = rows \ CascadeOf(d))
  BY <1>3, DatasetsNext DEF Present, DeleteRows
<1>4. ASSUME NEW r \in rows', r[1] # "session"
      PROVE  dataset'[r[2]].state = "there"
  <2>1. CASE r \in rows
    <3>1. r[2] \in Ids /\ Present(r[2]) /\ (r = <<"doc", r[2]>> \/ r = <<"chunk", r[2]>>)
      BY <1>4, <2>1 DEF OwnersInPlace, TypeOK
    <3> QED
      BY <1>3, <1>4, <3>1 DEF CascadeOf
  <2>2. CASE r \notin rows
    <3>1. InsertRow(s) /\ Adds(s) /\ request[s].at = "insert" /\ r = RowOf(s)
      BY <2>2, RowsNext
    <3>2. request[s].op = "register" /\ r[2] = D(s) /\ UNCHANGED dataset
      BY <1>4, <3>1 DEF RowOf, Adds, TableOf, InsertRow
    <3> QED
      BY <3>1, <3>2 DEF OwnersInPlace, At, Present
  <2> QED
    BY <2>1, <2>2
<1>5. ASSUME NEW t \in Slots, request'[t].op = "register", request'[t].at = "insert"
      PROVE  dataset'[request'[t].d].state = "there"
  <2>1. request[t].op = "register" /\ request'[t].d = D(t) /\ (request[t].at = "insert" \/ Present(D(t)))
    <3>1. Begin(s) /\ request'[s] \in Requests => request'[s].op # "register" \/ request'[s].at # "insert"
      BY BegunTyped
    <3> QED
      BY <1>1, <1>5, <3>1, RequestsNext, NoneIdle DEF SameRequest, Passes, Lists, Adds, TableOf, D
  <2>2. Present(D(t))
    BY <2>1 DEF OwnersInPlace, At
  <2>3. ~(DeleteRows(s) /\ D(s) = D(t))
    <3>1. request[s].at = "rows" => request[s].op \in {"deleteDataset", "deleteAccount"}
      BY DEF RequestsTyped, RequestRow, PointsOf
    <3> QED
      BY <2>1, <3>1 DEF DeleteRows, RacesRecorded, DeletesIn
  <2> QED
    BY <1>2, <1>3, <2>1, <2>2, <2>3
<1> QED
  BY <1>4, <1>5

\* A source goes only when its document is about to go.
LEMMA SourcesInPlaceNext ==
  ASSUME TypeOK, TypeOK', RequestsTyped, CreatesApart, AddsInPlace, RowsInPlace, SourcesInPlace, NEW s \in Slots, Request(s)
  PROVE  SourcesInPlace'
<1> SUFFICES ASSUME faults' = 0, NEW d \in Ids, Present(d)', <<"doc", d>> \in rows', <<"source", d>> \notin objects'
             PROVE  \E t \in Slots : (DeletesIn(t, d) /\ D(t) = d /\ request[t].at \in {"images", "rows"})'
  BY DEF SourcesInPlace
<1>1. \A u \in Slots \ {s} : request'[u] = request[u]
  BY RequestsNext DEF RowsStay
<1>2. faults = 0 /\ ~Fails(s)
  <2>1. faults' = faults \/ faults' = faults + 1
    BY DEF Request, Begin, Fails, GetDataset, ResolveEmbed, ResolveVision, InsertDataset, UpdateDataset,
       InsertRow, CreateModel, GetModel, RenameModel, CountUses, DeleteModel, DeleteObjects, DeleteRows, FindUser,
       ListDatasets, NextDataset, DeleteConversations, DeleteAllModels, DeleteUser, GoTo, End, Fault, NoFault
  <2>2. Fails(s) => faults' = faults + 1
    BY DEF Fails, Fault
  <2> QED
    BY <2>1, <2>2, FaultAssumption DEF TypeOK
<1>3. D(s) \in Ids /\ request[s] \in RequestRow /\ request[s].at \in PointsOf[request[s].op]
  BY DEF RequestsTyped, RequestRow, D
<1>4. request[s].at \in {"objects", "images", "rows"} => request[s].op \in {"deleteDataset", "deleteAccount"}
  BY <1>3 DEF RequestRow, PointsOf
<1>5. CASE <<"doc", d>> \in rows /\ Present(d) /\ <<"source", d>> \in objects
  <2>1. /\ DeleteObjects(s) /\ D(s) = d /\ request[s].at = "objects" /\ request'[s].at = "images" /\ SameRequest(s)
    BY <1>5, SourcesNext
  <2> QED
    BY <1>4, <2>1 DEF SameRequest, DeletesIn, D
<1>6. CASE <<"doc", d>> \in rows /\ Present(d) /\ <<"source", d>> \notin objects
  <2>1. PICK t \in Slots : DeletesIn(t, d) /\ D(t) = d /\ request[t].at \in {"images", "rows"}
    BY <1>2, <1>6 DEF SourcesInPlace
  <2>2. CASE t # s
    BY <1>1, <2>1, <2>2 DEF DeletesIn, D
  <2>3. CASE t = s
    <3>1. DeleteObjects(s) \/ DeleteRows(s)
      <4>1. request[s].at \in {"images", "rows"} /\ ~Begin(s)
        BY <2>1, <2>3, NoneTyped DEF Begin
      <4>2. ~DeleteAllModels(s)
        BY <4>1 DEF DeleteAllModels, At, Kinds
      <4> QED
        BY <1>2, <4>1, <4>2 DEF Request, GetDataset, ResolveEmbed, ResolveVision, InsertDataset,
           UpdateDataset, InsertRow, CreateModel, GetModel, RenameModel, CountUses, DeleteModel, FindUser,
           ListDatasets, NextDataset, DeleteConversations, DeleteUser, At
    <3>2. ~DeleteRows(s)
      <4>1. DeleteRows(s) /\ Present(d) => rows' = rows \ CascadeOf(d)
        BY <2>1, <2>3 DEF DeleteRows
      <4> QED
        BY <1>6, <4>1 DEF CascadeOf
    <3>3. SameRequest(s) /\ request'[s].at = "rows"
      <4>1. PICK step \in {[at |-> "objects", sort |-> "source", table |-> "doc", next |-> "images"],
                           [at |-> "images", sort |-> "image", table |-> "chunk", next |-> "rows"]} :
                   request[s].at = step.at /\ request' = [request EXCEPT ![s].at = step.next]
        BY <3>1, <3>2 DEF DeleteObjects
      <4>2. request[s].at = "images"
        BY <2>1, <2>3, <3>2, <4>1
      <4>3. step.next = "rows"
        <5>1. step.at = "objects" \/ step.next = "rows"
          OBVIOUS
        <5> QED
          BY <4>1, <4>2, <5>1
      <4>4. "rows" \in PointsOf[request[s].op]
        BY <1>3, <4>2 DEF RequestRow, PointsOf
      <4> QED
        BY <4>1, <4>2, <4>3, <4>4, GoTyped
    <3> QED
      BY <2>1, <2>3, <3>3 DEF SameRequest, DeletesIn, D
  <2> QED
    BY <2>2, <2>3
<1>7. CASE <<"doc", d>> \notin rows
  <2>1. Adds(s) /\ request[s].op = "register" /\ D(s) = d /\ UNCHANGED objects
    BY <1>7, RowsNext DEF Adds, RowOf, TableOf, InsertRow
  <2> QED
    BY <2>1 DEF AddsInPlace
<1>8. CASE <<"doc", d>> \in rows /\ ~Present(d)
  <2>1. InsertDataset(s) /\ D(s) = d
    BY <1>8, DatasetsNext DEF Present
  <2>2. dataset[d].state = "absent"
    BY <2>1 DEF InsertDataset, At, CreatesApart
  <2> QED
    BY <1>8, <2>2 DEF RowsInPlace
<1> QED
  BY <1>5, <1>6, <1>7, <1>8

\* Closing the account skips no dataset that is there.
LEMMA ToDeleteNext ==
  ASSUME TypeOK, RequestsTyped, NEW s \in Slots, Request(s), NEW t \in Slots, request'[t].op = "deleteAccount",
         NEW d \in Ids, Present(d), Present(d)', ClosesAccount(t) => StillToDelete(t, d)
  PROVE  StillToDelete(t, d)'
<1>1. \A u \in Slots \ {s} : request'[u] = request[u]
  BY RequestsNext DEF RowsStay
<1>2. CASE t # s
  BY <1>1, <1>2 DEF StillToDelete, D, ClosesAccount
<1>3. CASE t = s
  <2>1. CASE Begin(s) /\ request'[s] \in Requests
    <3>1. request'[s].at = "user"
      BY <1>3, <2>1, BegunTyped
    <3> QED
      BY <1>3, <3>1 DEF StillToDelete
  <2>2. CASE SameRequest(s) /\ Passes(s)
    <3>1. ClosesAccount(s) /\ StillToDelete(s, d) /\ request'[s].left = request[s].left /\ request'[s].d = D(s)
      BY <1>3, <2>2 DEF SameRequest, ClosesAccount, D
    <3>2. request'[s].at \in PointsOf["deleteAccount"]
      BY <1>3, RequestsNext DEF RequestsTyped
    <3>3. request'[s].at \in {"objects", "images", "rows", "next", "sessions", "embed", "vision", "row"}
      BY <2>2, <3>1, <3>2 DEF Passes, PointsOf
    <3> DEFINE at == request[s].at
    <3>4. CASE request'[s].at \in {"objects", "images", "rows"}
      <4>1. at \in {"get", "objects", "images"}
        BY <2>2, <3>1, <3>4 DEF Passes
      <4> QED
        BY <1>3, <3>1, <3>4, <4>1 DEF StillToDelete, D
    <3>5. CASE request'[s].at = "next"
      <4>1. at = "rows" /\ D(s) # d
        BY <2>2, <3>1, <3>5 DEF Passes, Present
      <4> QED
        BY <1>3, <3>1, <3>5, <4>1 DEF StillToDelete, D
    <3>6. CASE request'[s].at \in {"sessions", "embed", "vision", "row"}
      <4>1. at \in {"sessions", "embed", "vision"} \/ (at = "next" /\ request[s].left = {})
        BY <2>2, <3>1, <3>6 DEF Passes
      <4> QED
        BY <3>1, <4>1 DEF StillToDelete
    <3> QED
      BY <3>3, <3>4, <3>5, <3>6
  <2>3. CASE Lists(s)
    BY <1>3, <2>3 DEF Lists, StillToDelete, D, ClosesAccount
  <2> QED
    BY <1>3, <2>1, <2>2, <2>3, RequestsNext, NoneIdle DEF ClosesAccount
<1> QED
  BY <1>2, <1>3

\* Without a race, what is bound exists.
LEMMA BindingsNext ==
  ASSUME TypeOK, RequestsTyped, CreatesApart, RacesRecorded, BindingsInPlace,
         NEW s \in Slots, Request(s), raced \subseteq raced'
  PROVE  BindingsInPlace'
<1> SUFFICES ASSUME "model" \notin raced
             PROVE  BindingsInPlace'
  BY DEF BindingsInPlace
<1>1. \A u \in Slots \ {s} : request'[u] = request[u]
  BY RequestsNext DEF RowsStay
<1>2. request[s] \in RequestRow /\ D(s) \in Ids /\ K(s) \in Kinds
  BY DEF RequestsTyped, RequestRow, D, K
<1>3. \A d \in Ids, k \in Kinds : Present(d) /\ dataset[d][k] = "own" => Exists(k)
  BY DEF BindingsInPlace
<1>4. /\ ClosesAccount(s) => \A d \in Ids : Present(d) => StillToDelete(s, d)
      /\ At(s, "deleteModel", "delete") => UsedBy(K(s)) = {}
      /\ request[s].op = "createDataset" /\ request[s].at = "insert" /\ request[s].embed = "own" => Exists("embed")
      /\ Binds(s) /\ request[s].at = "insert" /\ request[s].vision = "own" => Exists("vision")
  BY DEF BindingsInPlace
\* A model goes only when nothing is bound to it.
<1>5. ASSUME NEW k \in Kinds, Exists(k), ~Exists(k)'
      PROVE  /\ DeleteModel(s) \/ DeleteAllModels(s)
             /\ UNCHANGED dataset
             /\ \A d \in Ids : ~(Present(d) /\ dataset[d][k] = "own")
  <2>1. \/ DeleteModel(s) /\ k = K(s)
        \/ DeleteAllModels(s) /\ request[s].op = "deleteAccount" /\ request[s].at \in Kinds
    BY <1>2, <1>5, ModelsNext DEF Exists, At
  <2>2. CASE DeleteModel(s) /\ k = K(s)
    BY <1>4, <2>2 DEF DeleteModel, UsedBy
  <2>3. CASE DeleteAllModels(s) /\ request[s].op = "deleteAccount" /\ request[s].at \in Kinds
    <3>1. \A d \in Ids : ~StillToDelete(s, d)
      BY <2>3 DEF StillToDelete, Kinds
    <3> QED
      BY <1>4, <2>3, <3>1 DEF ClosesAccount, DeleteAllModels
  <2> QED
    BY <2>1, <2>2, <2>3
<1>6. DeleteModel(s) \/ DeleteAllModels(s) => request[s].op = "deleteModel" \/ ClosesAccount(s)
  BY DEF DeleteModel, DeleteAllModels, At, ClosesAccount
\* What is bound anew has been checked.
<1>7. ASSUME NEW d \in Ids, NEW k \in Kinds, Present(d)', dataset'[d][k] = "own"
      PROVE  Exists(k)'
  <2>1. CASE Present(d) /\ dataset[d][k] = "own"
    BY <1>3, <1>5, <2>1
  <2>2. CASE ~(Present(d) /\ dataset[d][k] = "own")
    <3>1. (InsertDataset(s) \/ UpdateDataset(s)) /\ UNCHANGED model
      BY <1>2, <1>7, <2>2, DatasetsNext DEF Present, InsertDataset, UpdateDataset
    <3>2. CASE InsertDataset(s)
      <4>1. D(s) = d /\ dataset'[d].embed = request[s].embed /\ dataset'[d].vision = request[s].vision
        BY <1>2, <1>7, <2>2, <3>2, DatasetsNext DEF Present, UpdateDataset, DeleteRows, InsertDataset, At
      <4>2. k = "embed" \/ k = "vision"
        BY DEF Kinds
      <4>3. dataset'[d]["embed"] = dataset'[d].embed /\ dataset'[d]["vision"] = dataset'[d].vision
        OBVIOUS
      <4> QED
        BY <1>4, <1>7, <3>1, <3>2, <4>1, <4>2 DEF InsertDataset, At, Binds, Exists
    <3>3. CASE UpdateDataset(s)
      <4>1. /\ D(s) = d /\ Present(d) /\ dataset'[d].embed = dataset[d].embed
            /\ dataset'[d].vision = request[s].vision
        BY <1>2, <1>7, <2>2, <3>3, DatasetsNext DEF Present, UpdateDataset, DeleteRows, InsertDataset, At
      <4>2. k = "embed" \/ k = "vision"
        BY DEF Kinds
      <4> QED
        BY <1>3, <1>4, <1>7, <2>2, <3>1, <3>3, <4>1, <4>2 DEF UpdateDataset, At, Binds, Exists
    <3> QED
      BY <3>1, <3>2, <3>3
  <2> QED
    BY <2>1, <2>2
<1>8. ASSUME NEW t \in Slots, request'[t].op = "createDataset", request'[t].at \in {"vision", "insert"}, request'[t].embed = "own"
      PROVE  Exists("embed")'
  <2>1. /\ request[t].op = "createDataset" /\ request[t].embed = "own"
        /\ Exists("embed")
    <3>1. Begin(s) /\ request'[s] \in Requests => request'[s].op # "createDataset" \/ request'[s].at \notin {"vision", "insert"}
      BY BegunTyped
    <3> QED
      BY <1>1, <1>8, <3>1, RequestsNext, NoneIdle DEF SameRequest, Passes, Lists, Binds, BindingsInPlace
  <2>2. ~(request[s].op = "deleteModel" \/ ClosesAccount(s))
    BY <2>1 DEF RacesRecorded, Binds
  <2> QED
    BY <1>5, <1>6, <2>1, <2>2 DEF Kinds
<1>9. ASSUME NEW t \in Slots, Binds(t)', request'[t].at = "insert", request'[t].vision = "own"
      PROVE  Exists("vision")'
  <2>1. Binds(t) /\ Exists("vision")
    <3>1. Begin(s) /\ request'[s] \in Requests =>
            request'[s].op \notin {"createDataset", "updateDataset"} \/ request'[s].at # "insert"
      BY BegunTyped
    <3> QED
      BY <1>1, <1>9, <3>1, RequestsNext, NoneIdle DEF SameRequest, Passes, Lists, Binds, BindingsInPlace
  <2>2. ~(request[s].op = "deleteModel" \/ ClosesAccount(s))
    BY <2>1 DEF RacesRecorded
  <2> QED
    BY <1>5, <1>6, <2>1, <2>2 DEF Kinds
<1>10. ASSUME NEW t \in Slots, At(t, "deleteModel", "delete")'
       PROVE  (UsedBy(K(t)) = {})'
  <2>1. request[t].op = "deleteModel" /\ request'[t].kind = K(t) /\ UsedBy(K(t)) = {}
    <3>1. Begin(s) /\ request'[s] \in Requests => request'[s].at # "delete"
      BY BegunTyped
    <3> QED
      BY <1>1, <1>10, <3>1, RequestsNext, NoneIdle DEF SameRequest, Passes, Lists, At, K, BindingsInPlace
  <2>2. K(t) \in Kinds
    BY DEF RequestsTyped, RequestRow, K
  <2>3. ASSUME NEW d \in Ids, Present(d)', dataset'[d][K(t)] = "own"
        PROVE  FALSE
    <3>1. ~(Present(d) /\ dataset[d][K(t)] = "own")
      BY <2>1 DEF UsedBy
    <3>2. InsertDataset(s) \/ UpdateDataset(s)
      BY <1>2, <2>3, <3>1, DatasetsNext DEF Present
    <3> QED
      BY <2>1, <3>2 DEF InsertDataset, UpdateDataset, At, Binds, RacesRecorded
  <2> QED
    BY <2>1, <2>3 DEF UsedBy, K
<1>11. ASSUME NEW t \in Slots, ClosesAccount(t)', NEW d \in Ids, Present(d)'
       PROVE  StillToDelete(t, d)'
  <2>1. CASE Present(d)
    BY <1>11, <2>1, ToDeleteNext DEF BindingsInPlace, ClosesAccount
  <2>2. CASE ~Present(d)
    <3>1. InsertDataset(s)
      BY <1>2, <1>11, <2>2, DatasetsNext DEF Present
    <3>2. request'[s] = None /\ Binds(s)
      BY <3>1, EndTyped DEF InsertDataset, End, At, Binds
    <3>3. t # s /\ ClosesAccount(t)
      BY <1>1, <1>11, <3>2, NoneIdle DEF ClosesAccount
    <3> QED
      BY <3>2, <3>3 DEF RacesRecorded
  <2> QED
    BY <2>1, <2>2
<1> QED
  BY <1>7, <1>8, <1>9, <1>10, <1>11 DEF BindingsInPlace

\* What closing the account has found stays on the way out.
LEMMA OwnedNext ==
  ASSUME TypeOK, RequestsTyped, CreatesApart, AddsInPlace, RowsInPlace, OwnedInPlace, NEW s \in Slots, Request(s)
  PROVE  OwnedInPlace'
<1> DEFINE at(t) == request'[t].at
<1> SUFFICES ASSUME NEW t \in Slots, NEW x \in request'[t].owned
             PROVE  /\ x[1] = "dataset" => dataset'[x[2]].state # "absent" /\ (Present(x[2]) => StillToDelete(t, x[2]))'
                    /\ x[1] = "model" =>
                         /\ model'[x[2]] # "absent"
                         /\ Exists(x[2])' => at(t) \notin {"row"} \cup (IF x[2] = "embed" THEN {"vision"} ELSE {})
                    /\ x[1] = "session" /\ x \in rows' => at(t) \notin {"embed", "vision", "row"}
                    /\ x[1] \in {"doc", "chunk"} =>
                         /\ <<"dataset", x[2]>> \in request'[t].owned /\ <<"doc", x[2]>> \in request'[t].owned
                         /\ x \in rows' => Present(x[2])'
  BY DEF OwnedInPlace
<1>1. \A u \in Slots \ {s} : request'[u] = request[u]
  BY RequestsNext DEF RowsStay
<1>2. request[s] \in RequestRow /\ D(s) \in Ids /\ K(s) \in Kinds
  BY DEF RequestsTyped, RequestRow, D, K
<1>3. request'[t].op = "deleteAccount" /\ x \in Things
  BY RequestsNext DEF RequestsTyped, RequestRow
<1>4. /\ x[1] = "dataset" => x[2] \in Ids
      /\ x[1] = "model" => x[2] \in Kinds
      /\ x[1] \in {"session", "doc", "chunk"} => x[2] \in Ids /\ x = <<x[1], x[2]>>
  BY <1>3 DEF Things, Tables
<1>5. \A d \in Ids : dataset[d].state # "absent" =>
        dataset'[d].state # "absent" /\ (Present(d)' => Present(d))
  BY DatasetsNext DEF Present, InsertDataset, At, CreatesApart
<1>6. \A k \in Kinds : model[k] # "absent" =>
        model'[k] # "absent" /\ (Exists(k)' => Exists(k))
  BY ModelsNext DEF Exists
\* Closing the account begins: what the user can see.
<1>7. CASE t = s /\ Lists(s) /\ at(s) = "list" /\ request'[s].owned = Holdings
  <2>1. UNCHANGED data
    BY <1>7 DEF Lists
  <2>2. x[1] = "dataset" => Present(x[2])
    BY <1>7 DEF Holdings, TypeOK, Present
  <2>3. x[1] = "model" => Exists(x[2])
    BY <1>7 DEF Holdings, TypeOK, Exists
  <2>4. x[1] \in {"doc", "chunk"} =>
          x \in rows /\ Present(x[2]) /\ <<"dataset", x[2]>> \in Holdings /\ <<"doc", x[2]>> \in Holdings
    <3>1. x[1] \in {"doc", "chunk"} => x \in rows /\ Present(x[2])
      BY <1>7 DEF Holdings
    <3>2. x[1] \in {"doc", "chunk"} => <<"doc", x[2]>> \in rows
      BY <1>4, <3>1 DEF RowsInPlace
    <3> QED
      BY <1>4, <3>1, <3>2 DEF Holdings, Present
  <2> QED
    BY <1>4, <1>7, <2>1, <2>2, <2>3, <2>4 DEF data, StillToDelete, Present, Exists
\* Closing the account goes on.
<1>8. CASE x \in request[t].owned /\ request'[t].owned = request[t].owned /\ ClosesAccount(t)
  <2>1. ASSUME x[1] = "dataset"
        PROVE  dataset'[x[2]].state # "absent" /\ (Present(x[2]) => StillToDelete(t, x[2]))'
    <3>1. dataset[x[2]].state # "absent" /\ (Present(x[2]) => StillToDelete(t, x[2]))
      BY <1>8, <2>1 DEF OwnedInPlace
    <3>2. dataset'[x[2]].state # "absent" /\ (Present(x[2])' => Present(x[2]))
      BY <1>4, <1>5, <2>1, <3>1
    <3>3. x[2] \in Ids
      BY <1>4, <2>1
    <3>4. Present(x[2])' => StillToDelete(t, x[2])'
      BY <1>3, <3>1, <3>2, <3>3, ToDeleteNext
    <3> QED
      BY <3>2, <3>4
  <2>2. ASSUME x[1] = "model"
        PROVE  /\ model'[x[2]] # "absent"
               /\ Exists(x[2])' => at(t) \notin {"row"} \cup (IF x[2] = "embed" THEN {"vision"} ELSE {})
    <3>1. /\ model[x[2]] # "absent"
          /\ Exists(x[2]) => request[t].at \notin {"row"} \cup (IF x[2] = "embed" THEN {"vision"} ELSE {})
      BY <1>8, <2>2 DEF OwnedInPlace
    <3>2. model'[x[2]] # "absent" /\ (Exists(x[2])' => Exists(x[2]))
      BY <1>4, <1>6, <2>2, <3>1
    <3>3. CASE t # s
      BY <1>1, <3>1, <3>2, <3>3
    <3>4. CASE t = s /\ Lists(s)
      BY <3>2, <3>4 DEF Lists
    <3>5. CASE t = s /\ SameRequest(s) /\ Passes(s)
      <4>1. at(s) = "vision" => ~Exists("embed")'
        BY <1>8, <3>5 DEF Passes, Exists
      <4>2. at(s) = "row" => ~Exists("vision")' /\ request[s].at = "vision" /\ model'["embed"] = model["embed"]
        BY <1>8, <3>5 DEF Passes, Exists
      <4>3. x[2] = "embed" \/ x[2] = "vision"
        BY <1>4, <2>2 DEF Kinds
      <4> QED
        BY <3>1, <3>2, <3>5, <4>1, <4>2, <4>3 DEF Exists
    <3> QED
      BY <1>3, <1>8, <3>2, <3>3, <3>4, <3>5, RequestsNext, NoneIdle, BegunTyped DEF ClosesAccount
  <2>3. ASSUME x[1] = "session", x \in rows'
        PROVE  at(t) \notin {"embed", "vision", "row"}
    <3>1. x \in rows
      <4>1. InsertRow(s) /\ Adds(s) => x # RowOf(s)
        BY <1>8 DEF AddsInPlace
      <4> QED
        BY <2>3, <4>1, RowsNext
    <3>2. request[t].at \notin {"embed", "vision", "row"}
      BY <1>8, <2>3, <3>1 DEF OwnedInPlace
    <3>3. CASE t # s
      BY <1>1, <3>2, <3>3
    <3>4. CASE t = s /\ Lists(s)
      BY <3>4 DEF Lists
    <3>5. CASE t = s /\ SameRequest(s) /\ Passes(s)
      BY <1>8, <2>3, <3>2, <3>5 DEF Passes
    <3> QED
      BY <1>3, <1>8, <3>3, <3>4, <3>5, RequestsNext, NoneIdle, BegunTyped DEF ClosesAccount
  <2>4. ASSUME x[1] \in {"doc", "chunk"}
        PROVE  /\ <<"dataset", x[2]>> \in request'[t].owned /\ <<"doc", x[2]>> \in request'[t].owned
               /\ x \in rows' => Present(x[2])'
    <3>1. /\ <<"dataset", x[2]>> \in request[t].owned /\ <<"doc", x[2]>> \in request[t].owned
          /\ x \in rows => Present(x[2])
      BY <1>8, <2>4 DEF OwnedInPlace
    <3>2. ASSUME x \in rows'
          PROVE  Present(x[2])'
      <4>1. x \in rows
        <5>1. InsertRow(s) /\ Adds(s) => x # RowOf(s)
          BY <1>8 DEF AddsInPlace
        <5> QED
          BY <3>2, <5>1, RowsNext
      <4>2. ~(DeleteRows(s) /\ D(s) = x[2])
        <5>1. DeleteRows(s) /\ Present(D(s)) => rows' = rows \ CascadeOf(D(s))
          BY DEF DeleteRows
        <5> QED
          BY <1>4, <2>4, <3>1, <3>2, <4>1, <5>1 DEF CascadeOf
      <4> QED
        BY <1>4, <2>4, <3>1, <4>1, <4>2, DatasetsNext DEF Present
    <3> QED
      BY <1>8, <3>1, <3>2
  <2> QED
    BY <2>1, <2>2, <2>3, <2>4
<1> QED
  <2>1. Begin(s) /\ request'[s] \in Requests => request'[s].owned = {}
    BY BegunTyped
  <2>2. ClosesAccount(t) \/ request[t].owned = {}
    BY DEF RequestsTyped, ClosesAccount
  <2> QED
    BY <1>1, <1>3, <1>7, <1>8, <2>1, <2>2, RequestsNext, NoneIdle DEF SameRequest, Lists

\* The worker adds the chunks of a document that is there.
LEMMA IndexNext ==
  ASSUME CatalogStrong, NEW d \in Ids, Index(d), raced \subseteq raced', raced' \subseteq {"model", "dataset"}
  PROVE  CatalogStrong'
<1>1. /\ UNCHANGED <<user, model, dataset, request, begun, faults>>
      /\ rows' = rows \cup {<<"chunk", d>>} /\ <<"doc", d>> \in rows
      /\ objects \subseteq objects' /\ objects' \subseteq objects \cup {<<"image", d>>}
  BY DEF Index
<1>2. TypeOK'
  BY <1>1 DEF CatalogStrong, TypeOK
<1>3. RequestsTyped'
  BY <1>1 DEF CatalogStrong, RequestsTyped
<1>4. RacesRecorded'
  BY <1>1 DEF CatalogStrong, RacesRecorded, Binds, ClosesAccount, DeletesIn, D
<1>5. CreatesApart'
  BY <1>1 DEF CatalogStrong, CreatesApart, D
<1>6. AddsInPlace'
  <2> SUFFICES ASSUME NEW s \in Slots, Adds(s)'
               PROVE  /\ (RowOf(s) \notin rows)'
                      /\ \A t \in Slots :
                           /\ (RowOf(s) \notin request[t].owned)'
                           /\ (request[t].op = request[s].op /\ D(t) = D(s))' => t = s
                      /\ (request[s].at = "insert" => dataset[D(s)].state # "absent")'
                      /\ (request[s].op = "register" => <<"source", D(s)>> \in objects)'
    BY DEF AddsInPlace
  <2>1. Adds(s) /\ AddsInPlace
    BY <1>1 DEF Adds, CatalogStrong
  <2>2. RowOf(s) # <<"chunk", d>>
    BY <2>1 DEF RowOf, Adds, TableOf
  <2> QED
    BY <1>1, <2>1, <2>2 DEF AddsInPlace, RowOf, D
<1>7. RowsInPlace'
  BY <1>1 DEF CatalogStrong, RowsInPlace
<1>8. BindingsInPlace'
  BY <1>1 DEF CatalogStrong, BindingsInPlace, Present, Exists, Binds, At, UsedBy, K, ClosesAccount, StillToDelete, D
<1>9. OwnersInPlace'
  <2>1. OwnersInPlace
    BY DEF CatalogStrong
  <2>2. "dataset" \notin raced => Present(d)
    BY <1>1, <2>1 DEF OwnersInPlace
  <2> QED
    BY <1>1, <2>1, <2>2 DEF OwnersInPlace, Present, At, D
<1>10. SourcesInPlace'
  <2>1. SourcesInPlace
    BY DEF CatalogStrong
  <2> QED
    BY <1>1, <2>1 DEF SourcesInPlace, Present, DeletesIn, D
<1>11. OwnedInPlace'
  <2>1. OwnedInPlace
    BY DEF CatalogStrong
  <2>2. ASSUME NEW s \in Slots, <<"chunk", d>> \in request[s].owned
        PROVE  Present(d)
    <3>1. <<"doc", d>> \in request[s].owned
      BY <2>1, <2>2 DEF OwnedInPlace
    <3> QED
      BY <1>1, <2>1, <3>1 DEF OwnedInPlace
  <2>3. ASSUME NEW s \in Slots, NEW x \in request[s].owned, x \in rows'
        PROVE  /\ x[1] \in {"doc", "chunk"} => Present(x[2])
               /\ x[1] = "session" => x \in rows
    <3>1. CASE x \in rows
      BY <2>1, <3>1 DEF OwnedInPlace
    <3>2. CASE x = <<"chunk", d>>
      BY <2>2, <3>2
    <3> QED
      BY <1>1, <2>3, <3>1, <3>2
  <2>4. \A t \in Slots : \A e : Present(e)' = Present(e) /\ Exists(e)' = Exists(e) /\ StillToDelete(t, e)' = StillToDelete(t, e)
    BY <1>1 DEF Present, StillToDelete, D, Exists
  <2> QED
    BY <1>1, <2>1, <2>3, <2>4 DEF OwnedInPlace
<1> QED
  BY <1>2, <1>3, <1>4, <1>5, <1>6, <1>7, <1>8, <1>9, <1>10, <1>11 DEF CatalogStrong

\* Every step keeps the inductive invariant.
LEMMA CatalogStrongNext ==
  ASSUME CatalogStrong, [Next]_vars
  PROVE  CatalogStrong'
<1>1. CASE Next
  <2>1. ASSUME NEW s \in Slots, Request(s), raced' = raced \cup Conflicts
        PROVE  CatalogStrong'
    BY <2>1, TypesNext, RequestsNext, RacesNext, CreatesNext, AddsInPlaceNext, RowsInPlaceNext, BindingsNext,
       OwnersNext, SourcesInPlaceNext, OwnedNext DEF CatalogStrong
  <2>2. ASSUME NEW d \in Ids, Index(d), raced' = raced \cup (IF \E s \in Slots : DeletesIn(s, d) THEN {"dataset"} ELSE {})
        PROVE  CatalogStrong'
    BY <2>2, IndexNext DEF CatalogStrong
  <2> QED
    BY <1>1, <2>1, <2>2 DEF Next
<1>2. CASE UNCHANGED vars
  <2>1. UNCHANGED <<user, model, dataset, rows, objects, request, begun, raced, faults>>
    BY <1>2 DEF vars, data
  <2>2. TypeOK' /\ raced' \subseteq {"model", "dataset"}
    BY <2>1 DEF CatalogStrong, TypeOK
  <2>3. RequestsTyped'
    BY <2>1 DEF CatalogStrong, RequestsTyped
  <2>4. RacesRecorded' /\ CreatesApart'
    BY <2>1 DEF CatalogStrong, RacesRecorded, CreatesApart, Binds, ClosesAccount, DeletesIn, D, At
  <2>5. AddsInPlace' /\ RowsInPlace'
    BY <2>1 DEF CatalogStrong, AddsInPlace, RowsInPlace, Adds, RowOf, D
  <2>6. BindingsInPlace'
    BY <2>1 DEF CatalogStrong, BindingsInPlace, Present, Exists, Binds, At, UsedBy, ClosesAccount,
       StillToDelete, D, K
  <2>7. OwnersInPlace' /\ SourcesInPlace'
    BY <2>1 DEF CatalogStrong, OwnersInPlace, SourcesInPlace, Present, At, D, DeletesIn
  <2>8. OwnedInPlace'
    <3>1. ASSUME NEW s, NEW d
          PROVE  /\ StillToDelete(s, d)' = StillToDelete(s, d)
                 /\ Present(d)' = Present(d) /\ Exists(d)' = Exists(d)
      BY <2>1 DEF StillToDelete, Present, Exists, D
    <3> QED
      BY <2>1, <3>1, Zenon DEF CatalogStrong, OwnedInPlace
  <2> QED
    BY <2>2, <2>3, <2>4, <2>5, <2>6, <2>7, <2>8 DEF CatalogStrong
<1> QED
  BY <1>1, <1>2

\* The inductive invariant holds when the user has signed up.
LEMMA CatalogStrongInit ==
  ASSUME Init
  PROVE  CatalogStrong
<1>1. \A s \in Slots : request[s] = None
  BY DEF Init
<1>2. request \in [Slots -> RequestRow] /\ "end" \in PointsOf["none"]
  BY NoneTyped DEF Init, PointsOf
<1>3. RequestsTyped
  BY <1>1, <1>2, NoneTyped DEF RequestsTyped
<1>4. \A s \in Slots : ~Adds(s) /\ ~Binds(s) /\ ~ClosesAccount(s) /\ request[s].op = "none" /\ request[s].owned = {}
  BY <1>1, NoneTyped DEF Adds, Binds, ClosesAccount, TableOf
<1>5. Absent \in DatasetRow /\ Absent.state = "absent"
  BY DEF Absent, DatasetRow
<1>6. TypeOK
  BY <1>5, FaultAssumption, CatalogAssumption DEF Init, TypeOK, Kinds, ModelStates, FaultInit
<1>7. \A d \in Ids : ~Present(d)
  BY <1>5 DEF Init, Present
<1> QED
  BY <1>3, <1>4, <1>6, <1>7 DEF CatalogStrong, Init, RacesRecorded, CreatesApart, AddsInPlace, RowsInPlace,
     BindingsInPlace, OwnersInPlace, SourcesInPlace, OwnedInPlace, At, DeletesIn

LEMMA CatalogStrongAlways == Spec => []CatalogStrong
<1>1. Init => CatalogStrong
  BY CatalogStrongInit
<1>2. CatalogStrong /\ [Next]_vars => CatalogStrong'
  BY CatalogStrongNext
<1> QED
  BY <1>1, <1>2, PTL DEF Spec

-----------------------------------------------------------------------------
(* The properties.                                                         *)

\* Whatever fails and whatever runs beside it, datasets are bound to models
\* that exist, rows belong to datasets that exist and documents keep their
\* source, as far as requests that check and write without a lock allow.
THEOREM ReferencesHold == Spec => []CatalogInvariant
<1>1. CatalogStrong => CatalogInvariant
  <2> SUFFICES ASSUME CatalogStrong
               PROVE  CatalogInvariant
    OBVIOUS
  <2>1. TypeOK
    BY DEF CatalogStrong
  <2>2. BoundModelsExist
    BY DEF CatalogStrong, BindingsInPlace, BoundModelsExist
  <2>3. NoOrphans
    BY DEF CatalogStrong, OwnersInPlace, NoOrphans
  <2>4. SourcesKept
    BY DEF CatalogStrong, SourcesInPlace, SourcesKept
  <2> QED
    BY <2>1, <2>2, <2>3, <2>4 DEF CatalogInvariant
<1> QED
  BY <1>1, CatalogStrongAlways, PTL

\* When the user's row goes, nothing is left of what the request had found.
LEMMA AccountGoneStep ==
  ASSUME CatalogStrong, Next, user, ~user'
  PROVE  \E s \in Slots : At(s, "deleteAccount", "row") /\ request[s].owned \cap (Holdings \cup rows)' = {}
<1>1. PICK s \in Slots : DeleteUser(s)
  <2>1. ASSUME NEW s \in Slots, Request(s)
        PROVE  DeleteUser(s)
    BY <2>1 DEF Request, Begin, Fails, GetDataset, ResolveEmbed, ResolveVision, InsertDataset, UpdateDataset,
       InsertRow, CreateModel, GetModel, RenameModel, CountUses, DeleteModel, DeleteObjects, DeleteRows, FindUser,
       ListDatasets, NextDataset, DeleteConversations, DeleteAllModels, data
  <2> QED
    BY <2>1 DEF Next, Index
<1>2. At(s, "deleteAccount", "row") /\ UNCHANGED <<model, dataset, rows>>
  BY <1>1 DEF DeleteUser
<1>3. Holdings' = Holdings
  BY <1>2 DEF Holdings, Present
<1>4. ASSUME NEW x \in request[s].owned
      PROVE  x \notin Holdings /\ x \notin rows
  <2>1. x \in Things
    BY DEF CatalogStrong, RequestsTyped, RequestRow
  <2>2. /\ request[s].at = "row"
        /\ \A d : ~StillToDelete(s, d)
    BY <1>2 DEF At, StillToDelete
  <2>3. /\ x[1] = "dataset" => ~Present(x[2])
        /\ x[1] = "model" => ~Exists(x[2])
        /\ x[1] = "session" => x \notin rows
        /\ x[1] \in {"doc", "chunk"} => <<"dataset", x[2]>> \in request[s].owned /\ (x \in rows => Present(x[2]))
    BY <2>2 DEF CatalogStrong, OwnedInPlace
  <2>4. x[1] \in {"doc", "chunk"} => x \notin rows
    <3>1. \A d : <<"dataset", d>> \in request[s].owned => ~Present(d)
      BY <2>2 DEF CatalogStrong, OwnedInPlace
    <3> QED
      BY <2>3, <3>1
  <2>5. rows \subseteq {"doc", "chunk", "session"} \X Ids
    BY DEF CatalogStrong, TypeOK
  <2>6. x \notin rows
    BY <2>3, <2>4, <2>5
  <2>7. x \notin Holdings
    BY <2>1, <2>3, <2>6 DEF Holdings, Present, Exists
  <2> QED
    BY <2>6, <2>7
<1> QED
  BY <1>2, <1>3, <1>4

\* Only closing the account ends a conversation.
LEMMA ConversationsKeptStep ==
  ASSUME CatalogStrong, Next
  PROVE  \A r \in rows \ rows' : r[1] = "session" => \E s \in Slots : At(s, "deleteAccount", "sessions")
<1>1. ASSUME NEW s \in Slots, Request(s), NEW r \in rows \ rows', r[1] = "session"
      PROVE  At(s, "deleteAccount", "sessions")
  BY <1>1, RowsNext DEF CatalogStrong, CascadeOf
<1>2. ASSUME NEW d \in Ids, Index(d)
      PROVE  rows \subseteq rows'
  BY <1>2 DEF Index
<1> QED
  BY <1>1, <1>2 DEF Next

\* A closed account leaves nothing it had, and a deleted dataset leaves the
\* conversations, however many requests run at a time and statements fail.
THEOREM DeletionsReach == Spec => DeletionScope
<1>1. CatalogStrong /\ [Next]_vars =>
        [user /\ ~user' => \E s \in Slots :
           At(s, "deleteAccount", "row") /\ request[s].owned \cap (Holdings \cup rows)' = {}]_vars
  BY AccountGoneStep
<1>2. CatalogStrong /\ [Next]_vars =>
        [\A r \in rows \ rows' : r[1] = "session" => \E s \in Slots : At(s, "deleteAccount", "sessions")]_vars
  BY ConversationsKeptStep
<1> QED
  BY <1>1, <1>2, CatalogStrongAlways, PTL DEF Spec, DeletionScope, AccountGone, ConversationsKept
=============================================================================
