----------------------------- MODULE OneCommand -----------------------------
(***************************************************************************)
(* One Command over the user's graph (packages/command): a text is routed  *)
(* to an intent by the names the user has, and the intent is answered by a *)
(* hop or two over the graph, while the linker files mail and transactions *)
(* into it and people are merged.                                          *)
(*                                                                         *)
(* neighbors() does not ask for the direction or the kind of an edge, so   *)
(* an edge is the pair of its ends.  Texts are what the grammar makes of   *)
(* them; how well a name fits a query is a constant.  The runtime wires no *)
(* model, so the rules' intent stands whatever its confidence.  Commands   *)
(* that read no graph (areas, events, recent files) are left out.          *)
(***************************************************************************)
EXTENDS Integers, FiniteSets

CONSTANTS
  Person, Thread, Document, Transaction,
  Mails,                 \* messages are 1..Mails, in the order they were received
  NameOf,                \* person or thread -> name
  Fit,                   \* <<query, name>> -> 3 same, 2 a token, 1 a prefix, 0 found, -1 not
  MAIL_ATTACHMENT_SCAN,  \* messages whose attachments are followed: older ones are not
  MaxWrites, MaxCommands, \* bounds: what is filed, what is asked
  None                   \* null

Mail == 1..Mails
Entity == Person \cup Thread \cup Document \cup Transaction \cup Mail
Name == {NameOf[n] : n \in Person \cup Thread}
Query == {pair[1] : pair \in DOMAIN Fit}

CommandAssumption ==
  /\ Mails \in Nat /\ MaxWrites \in Nat /\ MaxCommands \in Nat
  /\ MAIL_ATTACHMENT_SCAN \in Nat \ {0}
  /\ Person \cap (Thread \cup Document \cup Transaction \cup Mail) = {} /\ None \notin Person
  /\ Fit \in [Query \X Name -> -1..3]
  /\ \A n \in Name : n \in Query /\ \A q \in Query : Fit[<<q, n>>] = 3 <=> q = n

VARIABLES
  edges,        \* sets of two entities
  from,         \* mail -> fromPersonId
  counterparty, \* transaction -> counterpartyPersonId
  mergedInto,   \* person -> mergedIntoId
  batch,        \* the transaction being filed and the person its merchant matched
  location,     \* the Field's area, and what it has in focus
  command,      \* the command being answered: its intent, and the focus it was given
  answer,       \* the last answer
  writes, commands

graph == <<edges, from, counterparty, mergedInto, batch, writes>>
field == <<location, command, answer, commands>>
vars == <<graph, field>>

NoBatch == [transaction |-> None, match |-> None]
NoCommand == [intent |-> "none", about |-> "person", query |-> None, focus |-> None, scoped |-> FALSE]
NoAnswer == [focus |-> None, items |-> {}, asked |-> None, scoped |-> FALSE]

Live == {p \in Person : mergedInto[p] = None}

Init ==
  /\ edges = {} /\ from = [m \in Mail |-> None]
  /\ counterparty = [t \in Transaction |-> None]
  /\ mergedInto = [p \in Person |-> None]
  /\ batch = NoBatch
  /\ location = [area |-> "now", focus |-> None] /\ command = NoCommand /\ answer = NoAnswer
  /\ writes = 0 /\ commands = 0

-----------------------------------------------------------------------------
(* The graph grows.                                                        *)

Write == writes < MaxWrites /\ writes' = writes + 1

\* applyMailBatch: the sender, whoever it went to, and the attachments, which
\* are tied to the message and to its sender.
FileMail(m, sender, others, attached) ==
  /\ Write /\ from[m] = None
  /\ from' = [from EXCEPT ![m] = sender]
  /\ edges' = edges \cup {{m, p} : p \in {sender} \cup others}
                    \cup {{d, m} : d \in attached} \cup {{d, sender} : d \in attached}
  /\ UNCHANGED <<counterparty, mergedInto, batch, field>>

\* counterpartyIndex: a merchant is a person only if nobody else has the name.
Counterparty(merchant) ==
  LET named == {p \in Live : NameOf[p] = merchant}
  IN  IF Cardinality(named) = 1 THEN CHOOSE p \in named : TRUE ELSE None

ReadPeople(t, merchant) ==
  /\ Write /\ batch = NoBatch /\ counterparty[t] = None
  /\ batch' = [transaction |-> t, match |-> Counterparty(merchant)]
  /\ UNCHANGED <<edges, from, counterparty, mergedInto, field>>

FileTransaction ==
  /\ batch # NoBatch
  /\ counterparty' = [counterparty EXCEPT ![batch.transaction] = batch.match]
  /\ edges' = edges \cup {{batch.transaction, p} : p \in {batch.match} \ {None}}
  /\ batch' = NoBatch
  /\ UNCHANGED <<from, mergedInto, writes, field>>

\* thread.attach, by the user.
Attach(t, e) ==
  /\ Write /\ e \notin {t} \cup (Person \ Live)
  /\ edges' = edges \cup {{t, e}}
  /\ UNCHANGED <<from, counterparty, mergedInto, batch, field>>

\* person.merge, seen whole: edges move, the rows' own columns do not.
MovedEdges(merged, survivor) ==
  {IF merged \in e THEN (e \ {merged}) \cup {survivor} ELSE e : e \in edges \ {{merged, survivor}}}

Merge(merged, survivor) ==
  /\ Write /\ {merged, survivor} \subseteq Live /\ merged # survivor
  /\ edges' = MovedEdges(merged, survivor)
  /\ mergedInto' = [mergedInto EXCEPT ![merged] = survivor]
  /\ UNCHANGED <<from, counterparty, batch, field>>

-----------------------------------------------------------------------------
(* The reader, and the executor's questions.                               *)

Neighbors(e, type) == {n \in type : {e, n} \in edges /\ n # e}
AllNeighbors(es, type) == UNION {Neighbors(e, type) : e \in es}

\* The index of senders, and the edges of whoever a message is tied to.
IndexedMail(p) == {m \in Mail : from[m] = p}
PersonMail(p) == IndexedMail(p) \cup Neighbors(p, Mail)

Newest(messages) ==
  {m \in messages : Cardinality({n \in messages : n > m}) < MAIL_ATTACHMENT_SCAN}

PersonDocuments(p) ==
  Neighbors(p, Document) \cup AllNeighbors(Newest(PersonMail(p)), Document)

PersonTransactions(p) ==
  {t \in Transaction : counterparty[t] = p} \cup Neighbors(p, Transaction)
    \cup AllNeighbors(PersonDocuments(p), Transaction)

ThreadTransactions(t) ==
  Neighbors(t, Transaction)
    \cup AllNeighbors(Neighbors(t, Document) \cup Neighbors(t, Person), Transaction)

\* Among the rows the search finds only those that fit best count; below a
\* prefix all are alike.
Quality(rows, q) ==
  LET fits == {Fit[<<q, NameOf[r]>>] : r \in rows}
  IN  IF fits = {} THEN -1 ELSE CHOOSE f \in fits : \A g \in fits : g <= f

Best(rows, q) ==
  {r \in rows : Fit[<<q, NameOf[r]>>] >= 0 /\ Fit[<<q, NameOf[r]>>] = Quality(rows, q)}

Rows(about) == IF about = "person" THEN Live ELSE Thread
InFocus(about, f) == f \in (IF about = "person" THEN Person ELSE Thread)

\* What is in focus wins its own name, whoever shares it.
Resolve(about, q, f) ==
  IF InFocus(about, f) /\ NameOf[f] = q THEN {f} ELSE Best(Rows(about), q)

-----------------------------------------------------------------------------
(* The router.                                                             *)

Intent(intent, about, q) ==
  [NoCommand EXCEPT !.intent = intent, !.about = about, !.query = q]

\* "find <q>": the better name; a person before a thread, neither: documents.
RouteFind(q) ==
  LET people == Quality(Live, q)
      threads == Quality(Thread, q)
  IN  IF people >= 0 /\ people >= threads THEN Intent("find", "person", q)
      ELSE IF threads >= 0 THEN Intent("find", "thread", q)
      ELSE Intent("find_document", "person", q)

RouteTransactionsFor(q) ==
  LET people == Quality(Live, q)
      threads == Quality(Thread, q)
  IN  IF people >= 0 /\ people > threads
      THEN Intent("transactions", "person", q) ELSE Intent("transactions", "thread", q)

\* A name alone, unless it is only found in passing.
RouteBare(q) ==
  LET threads == Quality(Thread, q)
      people == Quality(Live, q)
  IN  IF threads = 3 THEN Intent("find", "thread", q)
      ELSE IF people = 3 THEN Intent("find", "person", q)
      ELSE IF threads >= 1 /\ Cardinality(Best(Thread, q)) = 1 THEN Intent("find", "thread", q)
      ELSE IF people >= 2 THEN Intent("find", "person", q)
      ELSE NoCommand

\* "documents", "mail", "transactions": of what is in focus.
Nouns == {"documents", "mail", "transactions"}
RouteNoun(noun, f) ==
  IF f \in Person THEN [Intent(noun, "person", NameOf[f]) EXCEPT !.scoped = TRUE]
  ELSE IF f \in Thread
  THEN [Intent(IF noun = "transactions" THEN noun ELSE "find", "thread", NameOf[f])
          EXCEPT !.scoped = TRUE]
  ELSE NoCommand

\* "<q>'s documents", "the invoice from <q>" and their like need no look at the graph.
Routed ==
  (UNION {{RouteFind(q), RouteTransactionsFor(q), RouteBare(q),
           Intent("documents", "person", q), Intent("mail", "person", q),
           Intent("person_document", "person", q)} : q \in Query})
    \cup {RouteNoun(noun, location.focus) : noun \in Nouns}

Ask ==
  /\ command = NoCommand /\ commands < MaxCommands
  /\ \E intent \in Routed \ {NoCommand} : command' = [intent EXCEPT !.focus = location.focus]
  /\ commands' = commands + 1
  /\ UNCHANGED <<graph, location, answer>>

-----------------------------------------------------------------------------
(* The executor, and where its answer takes the Field.                     *)

Items(intent, e) ==
  CASE intent = "find" -> {e}
    [] intent = "documents" -> PersonDocuments(e)
    [] intent = "mail" -> PersonMail(e)
    [] OTHER -> IF e \in Person THEN PersonTransactions(e) ELSE ThreadTransactions(e)

Area(intent, about) ==
  CASE intent = "find" -> IF about = "person" THEN "people" ELSE "threads"
    [] intent = "mail" -> "people"
    [] intent = "transactions" -> "money"
    [] OTHER -> "files"

\* locationForResult: a list moves the Field for one item, or to another area.
Moved(kind, area, f, items) ==
  IF kind = "navigate" \/ (f # None /\ (Cardinality(items) = 1 \/ area # location.area))
  THEN [area |-> area, focus |-> f] ELSE location

Reply(kind, area, f, items) ==
  /\ answer' = [focus |-> f, items |-> items, asked |-> command.focus, scoped |-> command.scoped]
  /\ location' = Moved(kind, area, f, items)
  /\ command' = NoCommand
  /\ UNCHANGED <<graph, commands>>

\* Documents by title and kind, of one person or of all: a single one takes
\* the focus.
FindDocuments ==
  LET found == Resolve("person", command.query, command.focus)
      person == CHOOSE e \in found : TRUE
      ofPerson == command.intent = "person_document"
  IN  /\ command.intent \in {"find_document", "person_document"}
      /\ IF ofPerson /\ Cardinality(found) # 1 THEN Reply("results", "people", None, found)
         ELSE \E matches \in SUBSET (IF ofPerson THEN PersonDocuments(person) ELSE Document) :
                Reply("results", "files",
                      IF Cardinality(matches) = 1 THEN CHOOSE d \in matches : TRUE
                      ELSE IF ofPerson THEN person
                      ELSE None,
                      matches)

\* One name that fits is the answer's subject; several, or none, are its list.
Execute ==
  LET found == Resolve(command.about, command.query, command.focus)
      subject == CHOOSE e \in found : TRUE
  IN  /\ command.intent \in {"find"} \cup Nouns
      /\ IF Cardinality(found) = 1
         THEN Reply(IF command.intent = "find" THEN "navigate" ELSE "results",
                    Area(command.intent, command.about), subject, Items(command.intent, subject))
         ELSE Reply("results", Area("find", command.about), None, found)

\* The user points at something else.
Focus ==
  /\ command = NoCommand /\ commands < MaxCommands
  /\ \E f \in Live \cup Thread :
       location' = [area |-> IF f \in Person THEN "people" ELSE "threads", focus |-> f]
  /\ UNCHANGED <<graph, command, answer, commands>>

Next ==
  \/ \E m \in Mail, p \in Live, others \in SUBSET Live, attached \in SUBSET Document :
       FileMail(m, p, others, attached)
  \/ \E t \in Transaction, merchant \in Name : ReadPeople(t, merchant)
  \/ FileTransaction
  \/ \E t \in Thread, e \in Entity : Attach(t, e)
  \/ \E a, b \in Person : Merge(a, b)
  \/ Ask \/ FindDocuments \/ Execute \/ Focus

Spec == Init /\ [][Next]_vars

-----------------------------------------------------------------------------
(* A merge loses no answer: what was found for either person is found for  *)
(* the one that is left, and every thread keeps its transactions, though   *)
(* the columns of mail and transactions still name the one that is gone.   *)
(* (While neither has more messages than are followed.)                    *)
MergeKeepsAnswers ==
  [][\A a, b \in Person :
       mergedInto[b] = None /\ mergedInto'[b] = a =>
         /\ PersonMail(a) \cup PersonMail(b) \subseteq PersonMail(a)'
         /\ PersonDocuments(a) \cup PersonDocuments(b) \subseteq PersonDocuments(a)'
         /\ PersonTransactions(a) \cup PersonTransactions(b) \subseteq PersonTransactions(a)'
         /\ \A t \in Thread : ThreadTransactions(t) \subseteq ThreadTransactions(t)']_vars

(* A bare noun is answered about what was in focus when it was asked, even *)
(* if others have the same name and people are merged meanwhile.           *)
FocusAnswers == answer.scoped => answer.focus = answer.asked

(* No answer is about somebody who has been merged: not so, what is in     *)
(* focus is taken without following mergedIntoId.                          *)
AnswersTheLiving ==
  [][answer' # answer /\ answer'.focus \in Person => answer'.focus \in Live]_vars
=============================================================================
