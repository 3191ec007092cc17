------------------------------ MODULE Accounts ------------------------------
(***************************************************************************)
(* Signing in with a code sent by e-mail, the users it creates, the tokens *)
(* it issues and the closing of accounts.  Codes live in a cache of the    *)
(* process, users in the database, tokens only with the clients.  Visitors *)
(* requests may be under way at a time.  What closing an account deletes   *)
(* besides the user's row is in Catalog.                                   *)
(***************************************************************************)
EXTENDS Integers, FiniteSets, Faults

CONSTANTS
  Visitors,            \* requests that may run at the same time
  Boxes,               \* mailboxes
  MaxCodes,            \* bound on the codes generated
  MaxUsers,            \* bound on user ids
  MaxVisits            \* bound on the requests of a behaviour

ASSUME AccountsAssumption ==
  MaxCodes \in Nat /\ MaxUsers \in Nat /\ MaxVisits \in Nat /\ Boxes # {}

VARIABLES
  prod,                \* the environment is production
  turnstile,           \* Turnstile keys are configured
  codes,               \* cache: address -> code
  inbox,               \* <<mailbox, code>> of every message sent
  lastCode,            \* codes generated so far
  users,               \* user ids -> row
  tokens,              \* tokens issued and not expired
  visit,               \* [Visitors -> request under way]
  visits,              \* number of requests so far
  spent,               \* history: codes whose login has returned
  crossed              \* history: mailboxes two sends of which have overlapped

service == <<prod, turnstile, codes, inbox, lastCode, users, tokens>>
accountVars == <<service, visit, visits, spent, crossed, faults>>

\* An address as typed: with capitals or blanks, or without an @.
Spellings == {"plain", "capitals", "invalid"}
Typed == Boxes \X Spellings
UserIds == 1..MaxUsers
NoCode == 0            \* nothing stored; also an empty input
DevCode == -1          \* auth.devCode of the configuration
Input == -1..MaxCodes

UserRow == [state : {"unused", "active", "gone"}, email : Typed]
Active(i) == users[i].state = "active"

\* "by" and "code" are history: who typed which code to get the token.
Token == [id : UserIds, by : Boxes, code : Input]

SomeBox == CHOOSE b \in Boxes : TRUE
NoVisit == [op |-> "none", at |-> "end", email |-> <<SomeBox, "plain">>, code |-> NoCode,
         id |-> 1, token |-> [id |-> 1, by |-> SomeBox, code |-> NoCode]]

AccountsInit ==
  /\ prod \in BOOLEAN /\ turnstile \in BOOLEAN
  /\ codes = [e \in Typed |-> NoCode]
  /\ inbox = {} /\ lastCode = 0
  /\ users = [i \in UserIds |-> [state |-> "unused", email |-> <<SomeBox, "plain">>]]
  /\ tokens = {}
  /\ visit = [s \in Visitors |-> NoVisit]
  /\ visits = 0 /\ spent = {} /\ crossed = {}
  /\ FaultInit

-----------------------------------------------------------------------------
(* Requests.                                                               *)

\* Mutated: the address is taken as it was typed.
AsTyped(e) == e

\* Trimmed and in lower case.
requireEmail(e) == <<e[1], "plain">>

\* Someone types an address, and a code from its mailbox, nothing, or the code
\* of the developers; or a client calls with its token.
BeginVisit(s) ==
  /\ visit[s] = NoVisit /\ visits < MaxVisits
  /\ \/ \E e \in Typed, op \in {"send", "login"}, c \in Input :
          /\ c > 0 => <<e[1], c>> \in inbox
          /\ op = "send" => c = NoCode
          /\ e[2] # "invalid"
          /\ visit' = [visit EXCEPT ![s] = [NoVisit EXCEPT
               !.op = op, !.email = requireEmail(e), !.code = c,
               !.at = IF op = "send" THEN "turnstile" ELSE "verify"]]
     \/ \E t \in tokens :
          visit' = [visit EXCEPT ![s] = [NoVisit EXCEPT !.op = "close", !.token = t, !.at = "me"]]
  /\ visits' = visits + 1
  /\ UNCHANGED <<service, spent, crossed, faults>>

VisitAt(s, op, at) == visit[s].op = op /\ visit[s].at = at
VisitTo(s, at) == visit' = [visit EXCEPT ![s].at = at]
EndVisit(s) == visit' = [visit EXCEPT ![s] = NoVisit]
Email(s) == visit[s].email
BoxOf(s) == visit[s].email[1]

\* The statement or call a request is at fails, and the request with it.
VisitFailsBy(s) == IF visit[s].at \in {"turnstile", "mail", "put"} THEN "io" ELSE "db"

VisitFails(s) ==
  /\ visit[s].at \in {"turnstile", "mail", "put", "find", "create", "findAgain", "me", "row"}
  /\ Fault(VisitFailsBy(s))
  /\ EndVisit(s)
  /\ UNCHANGED <<service, visits, spent, crossed>>

-----------------------------------------------------------------------------
(* AuthService.SendVerificationCode.                                       *)

turnstileActive == prod /\ turnstile

\* An unsolved challenge ends the request.
VerifyTurnstile(s) ==
  /\ VisitAt(s, "send", "turnstile")
  /\ \/ VisitTo(s, "mail")
     \/ turnstileActive /\ EndVisit(s)
  /\ UNCHANGED <<service, visits, spent, crossed, faults>>

\* A fresh code is mailed before it is stored.
Mail(s) ==
  /\ VisitAt(s, "send", "mail") /\ lastCode < MaxCodes
  /\ lastCode' = lastCode + 1
  /\ inbox' = inbox \cup {<<BoxOf(s), lastCode + 1>>}
  /\ visit' = [visit EXCEPT ![s].at = "put", ![s].code = lastCode + 1]
  /\ crossed' = crossed \cup
       {b \in {BoxOf(s)} : \E t \in Visitors : VisitAt(t, "send", "put") /\ BoxOf(t) = b}
  /\ UNCHANGED <<prod, turnstile, codes, users, tokens, visits, spent, faults>>

\* Mutated: a code already stored stays.
PutIfAbsent(s) ==
  /\ VisitAt(s, "send", "put")
  /\ codes' = IF codes[Email(s)] = NoCode THEN [codes EXCEPT ![Email(s)] = visit[s].code] ELSE codes
  /\ EndVisit(s)
  /\ UNCHANGED <<prod, turnstile, inbox, lastCode, users, tokens, visits, spent, crossed, faults>>

putCode(s) ==
  /\ VisitAt(s, "send", "put")
  /\ codes' = [codes EXCEPT ![Email(s)] = visit[s].code]
  /\ EndVisit(s)
  /\ UNCHANGED <<prod, turnstile, inbox, lastCode, users, tokens, visits, spent, crossed, faults>>

\* The minute is over, the cache evicts the entry, or the process restarts.
Forget(e) ==
  /\ codes[e] # NoCode
  /\ codes' = [codes EXCEPT ![e] = NoCode]
  /\ UNCHANGED <<prod, turnstile, inbox, lastCode, users, tokens, visit, visits, spent, crossed, faults>>

-----------------------------------------------------------------------------
(* AuthService.Login.                                                      *)

\* Mutated: the dev code in every environment; no check that a code is stored.
AnyDevCode == DevCode
devCode == IF prod THEN NoCode ELSE DevCode

VerifyMissing(e, c) == (devCode # NoCode /\ c = devCode) \/ c = codes[e]

verifyCode(e, c) ==
  \/ devCode # NoCode /\ c = devCode
  \/ codes[e] # NoCode /\ c = codes[e]

VerifyCode(s) ==
  /\ VisitAt(s, "login", "verify")
  /\ IF verifyCode(Email(s), visit[s].code) THEN VisitTo(s, "find") ELSE EndVisit(s)
  /\ UNCHANGED <<service, visits, spent, crossed, faults>>

Accounts(e) == {i \in UserIds : Active(i) /\ users[i].email = e}

\* lookupOrCreateUser reads before it inserts, and again when another login
\* has inserted in between; the second read may find the account closed.
lookupUser(s) ==
  /\ visit[s].at \in {"find", "findAgain"}
  /\ \/ \E i \in Accounts(Email(s)) :
          visit' = [visit EXCEPT ![s].at = "delete", ![s].id = i]
     \/ /\ Accounts(Email(s)) = {}
        /\ IF visit[s].at = "find" THEN VisitTo(s, "create") ELSE EndVisit(s)
  /\ UNCHANGED <<service, visits, spent, crossed, faults>>

\* Mutated: ids of deleted users are given again; the column is not unique.
FirstUnused == {i \in UserIds : ~Active(i) /\ \A j \in 1..(i - 1) : Active(j)}
NotChecked(e) == FALSE

NextUserId == {i \in UserIds : users[i].state = "unused" /\ \A j \in 1..(i - 1) : users[j].state # "unused"}
EmailExists(e) == Accounts(e) # {}

CreateUser(s) ==
  /\ VisitAt(s, "login", "create")
  /\ IF EmailExists(Email(s))
     THEN VisitTo(s, "findAgain") /\ users' = users
     ELSE \E i \in NextUserId :
            /\ users' = [users EXCEPT ![i] = [state |-> "active", email |-> Email(s)]]
            /\ visit' = [visit EXCEPT ![s].at = "delete", ![s].id = i]
  /\ UNCHANGED <<prod, turnstile, codes, inbox, lastCode, tokens, visits, spent, crossed, faults>>

\* Mutated: the code is left to expire.
LeaveCode(e) == codes
deleteCode(e) == [codes EXCEPT ![e] = NoCode]

\* Whatever code is stored by now goes, and the handler signs a token.
FinishLogin(s) ==
  /\ VisitAt(s, "login", "delete")
  /\ codes' = deleteCode(Email(s))
  /\ tokens' = tokens \cup {[id |-> visit[s].id, by |-> BoxOf(s), code |-> visit[s].code]}
  /\ spent' = spent \cup {visit[s].code}
  /\ EndVisit(s)
  /\ UNCHANGED <<prod, turnstile, inbox, lastCode, users, visits, crossed, faults>>

-----------------------------------------------------------------------------
(* AuthService.Me, for the middleware, and the end of DeleteAccount.       *)

ExpireToken(t) ==
  /\ tokens' = tokens \ {t}
  /\ UNCHANGED <<prod, turnstile, codes, inbox, lastCode, users, visit, visits, spent, crossed, faults>>

Me(s) ==
  /\ VisitAt(s, "close", "me")
  /\ IF visit[s].token \in tokens /\ Active(visit[s].token.id) THEN VisitTo(s, "row") ELSE EndVisit(s)
  /\ UNCHANGED <<service, visits, spent, crossed, faults>>

CloseUser(s) ==
  /\ VisitAt(s, "close", "row")
  /\ users' = IF Active(visit[s].token.id) THEN [users EXCEPT ![visit[s].token.id].state = "gone"] ELSE users
  /\ EndVisit(s)
  /\ UNCHANGED <<prod, turnstile, codes, inbox, lastCode, tokens, visits, spent, crossed, faults>>

AccountsNext ==
  \/ \E s \in Visitors :
       \/ BeginVisit(s) \/ VisitFails(s)
       \/ VerifyTurnstile(s) \/ Mail(s) \/ putCode(s)
       \/ VerifyCode(s) \/ lookupUser(s) \/ CreateUser(s) \/ FinishLogin(s)
       \/ Me(s) \/ CloseUser(s)
  \/ \E e \in Typed : Forget(e)
  \/ \E t \in tokens : ExpireToken(t)

AccountsSpec == AccountsInit /\ [][AccountsNext]_accountVars

-----------------------------------------------------------------------------
(* Properties.                                                             *)

Normal == Boxes \X {"plain"}

\* Types; codes and users are kept under normalised addresses only.
AccountsTypeOK ==
  /\ codes \in [Typed -> 0..MaxCodes] /\ \A e \in Typed \ Normal : codes[e] = NoCode
  /\ inbox \subseteq Boxes \X (1..MaxCodes) /\ lastCode \in 0..MaxCodes
  /\ users \in [UserIds -> [state : {"unused", "active", "gone"}, email : Normal]]
  /\ tokens \subseteq Token
  /\ spent \subseteq Input /\ crossed \subseteq Boxes
  /\ visits \in 0..MaxVisits /\ faults \in 0..MaxFaults

\* However logins race, and however the address is written, a mailbox has at
\* most one account.
OneAccountPerMailbox ==
  \A i, j \in UserIds : Active(i) /\ Active(j) /\ users[i].email[1] = users[j].email[1] => i = j

\* A token is good for the account of the mailbox it was obtained with or for
\* none: closing accounts and registering again, by anyone, never turns it into
\* a token of another account.
TokenNamesOwner ==
  \A t \in tokens : Active(t.id) => users[t.id].email[1] = t.by

\* In production nobody signs in without a code sent to the mailbox; elsewhere
\* only the dev code replaces it.
CodeProvesMailbox ==
  \A t \in tokens : (t.code = DevCode /\ ~prod) \/ <<t.by, t.code>> \in inbox

\* A code whose login has returned signs nobody in again, though logins that
\* overlap may both use it.
SpentCodesAreDead ==
  [][\A s \in Visitors : VisitAt(s, "login", "verify") /\ visit'[s].at = "find"
       => visit[s].code \notin spent \ {DevCode}]_accountVars

\* The code that counts is the newest that was mailed, unless two sends to the
\* mailbox overlapped (those store in an order of their own) or a code that was
\* mailed could not be stored.  One still on its way to the cache counts later.
NewestCodeCounts ==
  \A b \in Boxes \ crossed :
    \/ codes[<<b, "plain">>] = NoCode
    \/ \A c \in 1..MaxCodes : <<b, c>> \in inbox =>
         \/ c <= codes[<<b, "plain">>]
         \/ <<b, c>> \in {<<BoxOf(s), visit[s].code>> : s \in {t \in Visitors : VisitAt(t, "send", "put")}}
         \/ faults > 0

\* Logins, sends and closings that overlap keep accounts and codes apart: one
\* account per mailbox, tokens that name their owner, and codes that prove the
\* mailbox they were sent to, the newest counting.
AccountsInvariant ==
  /\ AccountsTypeOK
  /\ OneAccountPerMailbox /\ TokenNamesOwner
  /\ CodeProvesMailbox /\ NewestCodeCounts
=============================================================================
