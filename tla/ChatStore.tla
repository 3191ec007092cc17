----------------------------- MODULE ChatStore -----------------------------
(***************************************************************************)
(* One session with its messages and their citations, and the statements   *)
(* of the repositories on them.  No foreign key ties the three tables.     *)
(* A message's content is abstracted to a number: 0 is blank (the          *)
(* placeholder of an answer), n > 0 an answer of n pieces.  Titles and     *)
(* times are left out.                                                     *)
(***************************************************************************)
EXTENDS Integers, FiniteSets

VARIABLES
  session,             \* the session's row exists
  messages,            \* rows: id, role, content
  citations,           \* rows: <<message id, position>>
  lastId               \* the identity sequence of the messages

tables == <<session, messages, citations, lastId>>

Roles == {"user", "assistant"}
Blank == 0

Message == [id : Nat \ {0}, role : Roles, content : Nat]

StoreInit ==
  /\ session = TRUE
  /\ messages = {}
  /\ citations = {}
  /\ lastId = 0

StoreTypeOK ==
  /\ session \in BOOLEAN
  /\ messages \subseteq Message
  /\ \A m \in messages : m.id <= lastId
  /\ \A m, n \in messages : m.id = n.id => m = n
  /\ citations \subseteq (1..lastId) \X Nat

IdsOf(rows) == {m.id : m \in rows}

CreateMessage(role, content) ==
  /\ lastId' = lastId + 1
  /\ messages' = messages \cup {[id |-> lastId + 1, role |-> role, content |-> content]}
  /\ UNCHANGED <<session, citations>>

\* Mutated: an upsert, and an insertion beside the placeholder.
UpdateContentUpsert(id, content, positions) ==
  /\ messages' = {m \in messages : m.id # id}
                   \cup {[id |-> id, role |-> "assistant", content |-> content]}
  /\ citations' = {c \in citations : c[1] # id} \cup ({id} \X positions)
  /\ UNCHANGED <<session, lastId>>

UpdateContentInsert(id, content, positions) ==
  /\ messages' = messages \cup {[id |-> id, role |-> "assistant", content |-> content]}
  /\ citations' = {c \in citations : c[1] # id} \cup ({id} \X positions)
  /\ UNCHANGED <<session, lastId>>

\* One transaction; it reports an error, and changes nothing, if the row is gone.
UpdateContent(id, content, positions) ==
  /\ id \in IdsOf(messages)
  /\ messages' = {IF m.id = id THEN [m EXCEPT !.content = content] ELSE m : m \in messages}
  /\ citations' = {c \in citations : c[1] # id} \cup ({id} \X positions)
  /\ UNCHANGED <<session, lastId>>

\* DeleteBySession is one transaction of two statements.  The first finds the
\* citations of the messages it sees; the second removes the messages there
\* are by then; both become visible with the commit.
CitationsOf(rows) == {c \in citations : c[1] \in IdsOf(rows)}

CommitDeleteBySession(found) ==
  /\ citations' = citations \ found
  /\ messages' = {}
  /\ UNCHANGED <<session, lastId>>

DeleteSessionRow ==
  /\ session' = FALSE
  /\ UNCHANGED <<messages, citations, lastId>>
=============================================================================
