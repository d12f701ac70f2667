--------------------------- MODULE ChatStreamProofs ---------------------------
(***************************************************************************)
(* What ChatStream guarantees for every number of exchanges and            *)
(* conversations, every size and budget.                                   *)
(***************************************************************************)
EXTENDS ChatStream, TLAPS, WellFoundedInduction, FiniteSetTheorems

-------------------------------------------------------------------------------
(* The inductive invariant. *)

\* What of the types the steps need; TypeOK, with the prompt, follows below.
Fields == {"at", "conversation", "new", "prompt", "text", "heard"}
Typed ==
    /\ messages \subseteq Message
    /\ rows \in [Conversations -> Row]
    /\ lastId \in Nat /\ clock \in Nat
    /\ DOMAIN exchanges = Exchanges
    /\ \A e \in Exchanges :
         /\ DOMAIN exchanges[e] = Fields
         /\ exchanges[e].at \in Steps
         /\ exchanges[e].new \in Draft \cup {None}
         /\ exchanges[e].at \notin {"idle", "done"} => exchanges[e].conversation \in Conversations

\* Where a handler has to have a question or a reply of its own.
Unasked == {"idle", "found", "asking", "saving"}
Asked == {"loading", "streaming", "answering", "storing", "stored"}
Writing == {"asking", "saving", "answering", "storing"}
Inserted == {"saving", "storing"}

\* The row a handler writes is its own, of its conversation, and of the role its
\* place says.
WritesItsOwn ==
    \A e \in Exchanges : exchanges[e].at \in Writing =>
        /\ exchanges[e].new \in Draft
        /\ exchanges[e].new.exchange = e
        /\ exchanges[e].new.conversation = exchanges[e].conversation
        /\ exchanges[e].new.role = IF exchanges[e].at \in Unasked THEN "user" ELSE "assistant"

\* An inserted row has an identity that was handed out and that no other row has.
OwnIdentity ==
    /\ \A m \in messages : m.id <= lastId
    /\ \A m, n \in messages : m.id = n.id => m = n
    /\ \A e \in Exchanges : exchanges[e].at \in Inserted =>
         /\ exchanges[e].new.id \in 1 .. lastId
         /\ \A m \in messages : m.id # exchanges[e].new.id
         /\ \A f \in Exchanges \ {e} : exchanges[f].at \in Inserted =>
              exchanges[f].new.id # exchanges[e].new.id

\* What of an exchange is stored, place by place.
Question(e, m) ==
    m.exchange = e /\ m.role = "user" /\ m.conversation = exchanges[e].conversation
StoredInStep ==
    \A e \in Exchanges :
        /\ exchanges[e].at \in Unasked => \A m \in messages : m.exchange # e
        /\ exchanges[e].at \in Asked => \E m \in messages : Question(e, m)
        /\ exchanges[e].at \in Asked \ {"stored"} =>
             \A m \in messages : m.exchange = e => m.role = "user"
        /\ exchanges[e].at = "stored" => \E m \in Replies : m.exchange = e
        /\ exchanges[e].at = "storing" =>
             \E m \in messages : Question(e, m) /\ m.id < exchanges[e].new.id
        /\ exchanges[e].at \in {"answering", "storing"} => exchanges[e].text = "whole"

\* The quote of a row not yet committed is one of its conversation, and older.
DraftsQuoteInside ==
    \A e \in Exchanges : exchanges[e].at \in Writing /\ exchanges[e].new.replyTo # None =>
        \E n \in messages :
            /\ n.conversation = exchanges[e].conversation /\ n.id = exchanges[e].new.replyTo
            /\ exchanges[e].at \in Inserted => n.id < exchanges[e].new.id

ChatInv ==
    /\ Typed /\ WritesItsOwn /\ OwnIdentity /\ StoredInStep /\ DraftsQuoteInside
    /\ ToldIsStored /\ TelemetryPerReply /\ QuotesStayInside /\ LastIsAMessage

-------------------------------------------------------------------------------
(* Steps of a handler that leave the tables and the identities alone. *)

\* Nothing but the handler of e moves.
Moves(e) ==
    /\ DOMAIN exchanges' = Exchanges
    /\ \A f \in Exchanges \ {e} : exchanges'[f] = exchanges[f]
    /\ DOMAIN exchanges'[e] = Fields

\* What such a step may do: x and y are the handler before and after.
Permitted(e, x, y) ==
    /\ y.at \in Steps \ (Inserted \cup {"stored"})
    /\ y.new \in Draft \cup {None}
    /\ y.at \notin {"idle", "done"} => y.conversation \in Conversations
    /\ y.at \in Unasked => x.at \in Unasked
    /\ y.at \in Asked => /\ x.at \in Asked \ {"stored"}
                         /\ y.conversation = x.conversation
    /\ y.at \in Writing =>
         /\ y.new \in Draft
         /\ y.new.exchange = e /\ y.new.conversation = y.conversation
         /\ y.new.role = IF y.at \in Unasked THEN "user" ELSE "assistant"
         /\ y.new.replyTo # None =>
              \E n \in messages : n.conversation = y.conversation /\ n.id = y.new.replyTo
    /\ y.at = "answering" => y.text = "whole"
    /\ y.heard = "completed" => x.heard = "completed" \/ x.at = "stored"
    /\ y.heard # "nothing" => x.heard # "nothing" \/ x.at \in Asked

Quiet(e) ==
    /\ UNCHANGED <<database, lastId>> /\ clock' \in Nat
    /\ Moves(e)
    /\ Permitted(e, exchanges[e], exchanges'[e])

\* A quiet step keeps the invariant.
LEMMA QuietKeeps ==
    ASSUME ChatInv, NEW e \in Exchanges, Quiet(e) PROVE ChatInv'
<1> DEFINE x == exchanges[e]
           y == exchanges'[e]
<1> USE DEF ChatInv
<1>1. /\ UNCHANGED <<messages, generations, rows, lastId>> /\ clock' \in Nat
      /\ \A f \in Exchanges \ {e} : exchanges'[f] = exchanges[f]
  BY DEF Quiet, Moves, database
<1>2. Permitted(e, x, y)
  BY DEF Quiet
<1>3. Typed'
  BY <1>1, <1>2 DEF Quiet, Moves, Permitted, Typed
<1>4. WritesItsOwn'
  BY <1>1, <1>2 DEF Permitted, WritesItsOwn
<1>5. OwnIdentity'
  BY <1>1, <1>2 DEF Permitted, OwnIdentity
<1>6. StoredInStep'
  BY <1>1, <1>2 DEF Permitted, StoredInStep, Inserted, Question, Replies
<1>7. DraftsQuoteInside'
  BY <1>1, <1>2 DEF Permitted, DraftsQuoteInside
<1>8. ToldIsStored'
  BY <1>1, <1>2 DEF Permitted, ToldIsStored, StoredInStep, Question, Replies
<1>9. TelemetryPerReply' /\ QuotesStayInside' /\ LastIsAMessage'
  BY <1>1 DEF TelemetryPerReply, QuotesStayInside, LastIsAMessage, InConversation, Replies
<1> QED BY <1>3, <1>4, <1>5, <1>6, <1>7, <1>8, <1>9

LEMMA FindQuiet ==
    ASSUME ChatInv, NEW e \in Exchanges, NEW c \in Conversations, Find(e, c) PROVE Quiet(e)
<1> DEFINE x == exchanges[e]
           y == exchanges'[e]
<1>1. /\ Moves(e)
      /\ y.at = "found" /\ y.conversation = c /\ y.new = None /\ y.heard = "nothing"
  BY DEF Find, Moves, Idle, ChatInv, Typed, Fields
<1>2. Permitted(e, x, y)
  BY <1>1 DEF Find, At, Permitted, Steps, Unasked, Asked, Writing, Inserted
<1> QED BY <1>1, <1>2 DEF Find, Quiet, database, ChatInv, Typed

\* A row to insert, dated now.
LEMMA DraftsFacts ==
    ASSUME ChatInv, NEW e \in Exchanges, NEW role \in {"user", "assistant"},
           NEW size \in Sizes, NEW target \in Ids \cup {None}, NEW to \in Steps,
           exchanges[e].conversation \in Conversations, Drafts(e, role, size, target, to)
    PROVE  /\ Moves(e) /\ clock' \in Nat
           /\ exchanges'[e].at = to
           /\ exchanges'[e].conversation = exchanges[e].conversation
           /\ exchanges'[e].text = exchanges[e].text
           /\ exchanges'[e].heard = exchanges[e].heard
           /\ exchanges'[e].new \in Draft
           /\ exchanges'[e].new.exchange = e /\ exchanges'[e].new.role = role
           /\ exchanges'[e].new.conversation = exchanges[e].conversation
           /\ exchanges'[e].new.replyTo = target
<1> DEFINE n == [id |-> None, conversation |-> exchanges[e].conversation, role |-> role,
                 size |-> size, created |-> clock + 1, replyTo |-> target, exchange |-> e]
<1>1. clock \in Nat /\ clock + 1 \in Times
  BY DEF ChatInv, Typed, Times
<1>2. n \in Draft
  BY <1>1 DEF Draft
<1>3. /\ Moves(e) /\ exchanges'[e].at = to /\ exchanges'[e].new = n
      /\ exchanges'[e].conversation = exchanges[e].conversation
      /\ exchanges'[e].text = exchanges[e].text
      /\ exchanges'[e].heard = exchanges[e].heard
  BY DEF Drafts, Moves, ChatInv, Typed, Fields
<1> QED BY <1>1, <1>2, <1>3 DEF Drafts

LEMMA AskQuiet ==
    ASSUME ChatInv, NEW e \in Exchanges, NEW size \in Sizes, NEW target \in Ids \cup {None},
           Ask(e, size, target)
    PROVE  Quiet(e)
<1> DEFINE x == exchanges[e]
           y == exchanges'[e]
<1>1. x.at = "found" /\ x.conversation \in Conversations
  BY DEF Ask, At, ChatInv, Typed
<1>2. target # None => \E n \in messages : n.conversation = x.conversation /\ n.id = target
  BY DEF Ask, Quotable, InConversation
<1>3. /\ Moves(e) /\ clock' \in Nat /\ y.at = "asking" /\ y.conversation = x.conversation
      /\ y.heard = x.heard /\ y.new \in Draft /\ y.new.exchange = e /\ y.new.role = "user"
      /\ y.new.conversation = x.conversation /\ y.new.replyTo = target
  BY <1>1, DraftsFacts DEF Ask, Steps
<1>4. Permitted(e, x, y)
  BY <1>1, <1>2, <1>3 DEF Permitted, Steps, Unasked, Asked, Writing, Inserted
<1> QED BY <1>3, <1>4 DEF Ask, Quiet, database

LEMMA EndOfStreamQuiet ==
    ASSUME ChatInv, NEW e \in Exchanges, NEW size \in Sizes, EndOfStream(e, size)
    PROVE  Quiet(e)
<1> DEFINE x == exchanges[e]
           y == exchanges'[e]
<1>1. x.at = "streaming" /\ x.text = "whole" /\ x.conversation \in Conversations
  BY DEF EndOfStream, At, ChatInv, Typed
<1>2. /\ Moves(e) /\ clock' \in Nat /\ y.at = "answering" /\ y.conversation = x.conversation
      /\ y.text = x.text /\ y.heard = x.heard /\ y.new \in Draft
      /\ y.new.exchange = e /\ y.new.role = "assistant"
      /\ y.new.conversation = x.conversation /\ y.new.replyTo = None
  BY <1>1, DraftsFacts DEF EndOfStream, Steps
<1>3. Permitted(e, x, y)
  BY <1>1, <1>2 DEF Permitted, Steps, Unasked, Asked, Writing, Inserted
<1> QED BY <1>2, <1>3 DEF EndOfStream, Quiet, database

LEMMA LoadQuiet ==
    ASSUME ChatInv, NEW e \in Exchanges, Load(e) PROVE Quiet(e)
<1> DEFINE x == exchanges[e]
           y == exchanges'[e]
<1>1. /\ Moves(e)
      /\ y.at = "streaming" /\ y.conversation = x.conversation /\ y.new = x.new
      /\ y.heard = "created"
  BY DEF Load, Moves, ChatInv, Typed, Fields
<1>2. Permitted(e, x, y)
  BY <1>1 DEF Load, At, ChatInv, Typed, Permitted, Steps, Unasked, Asked, Writing, Inserted
<1> QED BY <1>1, <1>2 DEF Load, Quiet, database, ChatInv, Typed

LEMMA DeltaQuiet ==
    ASSUME ChatInv, NEW e \in Exchanges, Delta(e) PROVE Quiet(e)
<1> DEFINE x == exchanges[e]
           y == exchanges'[e]
<1>1. /\ Moves(e)
      /\ y.at = x.at /\ y.conversation = x.conversation /\ y.new = x.new
      /\ y.heard = x.heard
  BY DEF Delta, Moves, ChatInv, Typed, Fields, At
<1>2. Permitted(e, x, y)
  BY <1>1 DEF Delta, At, ChatInv, Typed, Permitted, Steps, Unasked, Asked, Writing, Inserted
<1> QED BY <1>1, <1>2 DEF Delta, Quiet, database, ChatInv, Typed

LEMMA CompletionQuiet ==
    ASSUME ChatInv, NEW e \in Exchanges, Completion(e) PROVE Quiet(e)
<1> DEFINE x == exchanges[e]
           y == exchanges'[e]
<1>1. /\ Moves(e)
      /\ y.at = x.at /\ y.conversation = x.conversation /\ y.new = x.new
      /\ y.heard = x.heard
  BY DEF Completion, Moves, ChatInv, Typed, Fields, At
<1>2. Permitted(e, x, y)
  BY <1>1 DEF Completion, At, ChatInv, Typed, Permitted, Steps, Unasked, Asked, Writing, Inserted
<1> QED BY <1>1, <1>2 DEF Completion, Quiet, database, ChatInv, Typed

LEMMA DeliverQuiet ==
    ASSUME ChatInv, NEW e \in Exchanges, Deliver(e) PROVE Quiet(e)
<1> DEFINE x == exchanges[e]
           y == exchanges'[e]
<1>1. /\ Moves(e)
      /\ y.at = "done" /\ y.new = None /\ y.heard = "completed"
  BY DEF Deliver, Moves, ChatInv, Typed, Fields, Ends
<1>2. Permitted(e, x, y)
  BY <1>1 DEF Deliver, At, ChatInv, Typed, Permitted, Steps, Unasked, Asked, Writing, Inserted
<1> QED BY <1>1, <1>2 DEF Deliver, Quiet, database, ChatInv, Typed

LEMMA ProviderFailsQuiet ==
    ASSUME ChatInv, NEW e \in Exchanges, ProviderFails(e) PROVE Quiet(e)
<1> DEFINE x == exchanges[e]
           y == exchanges'[e]
<1>1. /\ Moves(e)
      /\ y.at = "done" /\ y.new = None /\ y.heard = "error"
  BY DEF ProviderFails, Moves, ChatInv, Typed, Fields, Ends
<1>2. Permitted(e, x, y)
  BY <1>1 DEF ProviderFails, At, ChatInv, Typed, Permitted, Steps, Unasked, Asked, Writing, Inserted
<1> QED BY <1>1, <1>2 DEF ProviderFails, Quiet, database, ChatInv, Typed

LEMMA AbandonQuiet ==
    ASSUME ChatInv, NEW e \in Exchanges, Abandon(e) PROVE Quiet(e)
<1> DEFINE x == exchanges[e]
           y == exchanges'[e]
<1>1. /\ Moves(e)
      /\ y.at = "done" /\ y.new = None /\ y.heard = x.heard
  BY DEF Abandon, Moves, ChatInv, Typed, Fields, Ends
<1>2. Permitted(e, x, y)
  BY <1>1 DEF Abandon, At, ChatInv, Typed, Permitted, Steps, Unasked, Asked, Writing, Inserted
<1> QED BY <1>1, <1>2 DEF Abandon, Quiet, database, ChatInv, Typed

-------------------------------------------------------------------------------
(* Steps that insert a row: it gets its identity. *)

Inserts(e) ==
    LET x == exchanges[e]
        y == exchanges'[e]
    IN  /\ UNCHANGED <<database, clock>> /\ lastId' = lastId + 1
        /\ Moves(e)
        /\ <<x.at, y.at>> \in {<<"asking", "saving">>, <<"answering", "storing">>}
        /\ y.conversation = x.conversation /\ y.text = x.text /\ y.heard = x.heard
        /\ y.new \in Draft /\ y.new.id = lastId + 1
        /\ y.new.exchange = x.new.exchange /\ y.new.role = x.new.role
        /\ y.new.conversation = x.new.conversation
        /\ y.new.replyTo # None =>
             \E n \in messages : n.conversation = x.conversation /\ n.id = y.new.replyTo

LEMMA InsertKeeps ==
    ASSUME ChatInv, NEW e \in Exchanges, Inserts(e) PROVE ChatInv'
<1> DEFINE x == exchanges[e]
           y == exchanges'[e]
<1> USE DEF ChatInv
<1>1. /\ UNCHANGED <<messages, generations, rows>> /\ lastId \in Nat /\ lastId' = lastId + 1
      /\ \A f \in Exchanges \ {e} : exchanges'[f] = exchanges[f]
      /\ <<x.at, y.at>> \in {<<"asking", "saving">>, <<"answering", "storing">>}
      /\ y.conversation = x.conversation /\ y.text = x.text /\ y.heard = x.heard
      /\ y.new \in Draft /\ y.new.id = lastId + 1
      /\ y.new.exchange = x.new.exchange /\ y.new.role = x.new.role
      /\ y.new.conversation = x.new.conversation
  BY DEF Inserts, Moves, database, Typed
<1>2. \A m \in messages : m.id \in Nat /\ m.id <= lastId
  BY DEF Typed, Message, Ids, OwnIdentity
<1>3. Typed'
  BY <1>1 DEF Inserts, Moves, Typed, Steps
<1>4. WritesItsOwn'
  BY <1>1 DEF WritesItsOwn, Writing, Unasked
<1>5. OwnIdentity'
  <2>1. \A m \in messages : m.id <= lastId' /\ m.id # y.new.id
    BY <1>1, <1>2
  <2>2. \A f \in Exchanges \ {e} : exchanges[f].at \in Inserted =>
          /\ exchanges[f].new.id \in 1 .. lastId'
          /\ exchanges[f].new.id # y.new.id
    BY <1>1 DEF OwnIdentity
  <2>3. y.new.id \in 1 .. lastId'
    BY <1>1
  <2> QED BY <1>1, <2>1, <2>2, <2>3 DEF OwnIdentity
<1>6. StoredInStep'
  BY <1>1, <1>2 DEF StoredInStep, Question, Replies, Unasked, Asked
<1>7. DraftsQuoteInside'
  BY <1>1, <1>2 DEF Inserts, DraftsQuoteInside
<1>8. ToldIsStored' /\ TelemetryPerReply' /\ QuotesStayInside' /\ LastIsAMessage'
  BY <1>1 DEF ToldIsStored, TelemetryPerReply, QuotesStayInside, LastIsAMessage,
              InConversation, Replies
<1> QED BY <1>3, <1>4, <1>5, <1>6, <1>7, <1>8

LEMMA InsertQuestionInserts ==
    ASSUME ChatInv, NEW e \in Exchanges, InsertQuestion(e) PROVE Inserts(e)
<1> DEFINE x == exchanges[e]
           y == exchanges'[e]
<1> USE DEF ChatInv
<1>1. x.at = "asking" /\ x.new \in Draft /\ lastId + 1 \in Ids
  BY DEF InsertQuestion, At, WritesItsOwn, Writing, Typed, Ids
<1>2. Moves(e) /\ y = [x EXCEPT !.at = "saving", !.new.id = lastId + 1]
  BY DEF InsertQuestion, Moves, Typed
<1>3. /\ y.at = "saving" /\ y.conversation = x.conversation /\ y.text = x.text
      /\ y.heard = x.heard /\ y.new = [x.new EXCEPT !.id = lastId + 1]
  BY <1>2 DEF Typed, Fields
<1>4. /\ y.new \in Draft /\ y.new.id = lastId + 1
      /\ y.new.exchange = x.new.exchange /\ y.new.role = x.new.role
      /\ y.new.conversation = x.new.conversation /\ y.new.replyTo = x.new.replyTo
  BY <1>1, <1>3 DEF Draft
<1>5. x.new.replyTo # None =>
        \E n \in messages : n.conversation = x.conversation /\ n.id = x.new.replyTo
  BY <1>1 DEF DraftsQuoteInside, Writing
<1> QED BY <1>1, <1>2, <1>3, <1>4, <1>5 DEF Inserts, InsertQuestion

LEMMA InsertReplyInserts ==
    ASSUME ChatInv, NEW e \in Exchanges, NEW named \in Named, InsertReply(e, named)
    PROVE  Inserts(e)
<1> DEFINE x == exchanges[e]
           y == exchanges'[e]
           t == Target(x.conversation, named)
<1> USE DEF ChatInv
<1>1. x.at = "answering" /\ x.new \in Draft /\ lastId + 1 \in Ids
  BY DEF InsertReply, At, WritesItsOwn, Writing, Typed, Ids
<1>2. Moves(e) /\ y = [x EXCEPT !.at = "storing", !.new.id = lastId + 1, !.new.replyTo = t]
  BY DEF InsertReply, Moves, Typed
<1>3. /\ y.at = "storing" /\ y.conversation = x.conversation /\ y.text = x.text
      /\ y.heard = x.heard /\ y.new = [x.new EXCEPT !.id = lastId + 1, !.replyTo = t]
  BY <1>2 DEF Typed, Fields
<1>4. t # None => \E n \in messages : n.conversation = x.conversation /\ n.id = t
  BY DEF Target, Quotable, InConversation
<1>5. t \in Ids \cup {None}
  BY <1>4 DEF Typed, Message
<1>6. /\ y.new \in Draft /\ y.new.id = lastId + 1
      /\ y.new.exchange = x.new.exchange /\ y.new.role = x.new.role
      /\ y.new.conversation = x.new.conversation /\ y.new.replyTo = t
  BY <1>1, <1>3, <1>5 DEF Draft
<1> QED BY <1>1, <1>2, <1>3, <1>4, <1>6 DEF Inserts, InsertReply

-------------------------------------------------------------------------------
(* Steps that commit a row, with its telemetry if it is a reply. *)

Commits(e) ==
    LET x == exchanges[e]
        y == exchanges'[e]
    IN  /\ UNCHANGED <<lastId, clock>>
        /\ messages' = messages \cup {x.new}
        /\ generations' = generations \cup (IF x.at = "storing" THEN {x.new.id} ELSE {})
        /\ Bump(x.new)
        /\ Moves(e)
        /\ <<x.at, y.at>> \in {<<"saving", "loading">>, <<"storing", "stored">>}
        /\ y.conversation = x.conversation /\ y.text = x.text /\ y.heard = x.heard
        /\ y.new = None

LEMMA SaveQuestionCommits ==
    ASSUME ChatInv, NEW e \in Exchanges, SaveQuestion(e) PROVE Commits(e)
<1> DEFINE x == exchanges[e]
           y == exchanges'[e]
<1>1. /\ x.at = "saving" /\ y.at = "loading" /\ Moves(e)
      /\ y.conversation = x.conversation /\ y.text = x.text /\ y.heard = x.heard
      /\ y.new = None
  BY DEF SaveQuestion, At, Moves, ChatInv, Typed, Fields
<1> QED BY <1>1 DEF SaveQuestion, Commits

LEMMA StoreReplyCommits ==
    ASSUME ChatInv, NEW e \in Exchanges, StoreReply(e) PROVE Commits(e)
<1> DEFINE x == exchanges[e]
           y == exchanges'[e]
<1>1. /\ x.at = "storing" /\ y.at = "stored" /\ Moves(e)
      /\ y.conversation = x.conversation /\ y.text = x.text /\ y.heard = x.heard
      /\ y.new = None
  BY DEF StoreReply, At, Moves, ChatInv, Typed, Fields
<1> QED BY <1>1 DEF StoreReply, Commits

\* The row that is committed: a message under an identity no other has.
LEMMA CommittedRow ==
    ASSUME ChatInv, NEW e \in Exchanges, exchanges[e].at \in Inserted
    PROVE  LET m == exchanges[e].new
           IN  /\ m \in Message /\ m.exchange = e
               /\ m.conversation = exchanges[e].conversation /\ m.id <= lastId
               /\ m.role = IF exchanges[e].at = "saving" THEN "user" ELSE "assistant"
               /\ \A n \in messages : n.id # m.id
               /\ m.replyTo # None =>
                    \E n \in InConversation(m.conversation) : n.id = m.replyTo /\ n.id < m.id
<1> DEFINE m == exchanges[e].new
<1> USE DEF ChatInv
<1>1. m \in Draft /\ m.id \in 1 .. lastId /\ lastId \in Nat
  BY DEF WritesItsOwn, Writing, Inserted, OwnIdentity, Typed
<1>2. m \in Message /\ m.id <= lastId
  BY <1>1 DEF Message, Draft, Ids
<1>3. /\ m.exchange = e /\ m.conversation = exchanges[e].conversation
      /\ m.role = IF exchanges[e].at = "saving" THEN "user" ELSE "assistant"
  BY DEF WritesItsOwn, Writing, Inserted, Unasked
<1>4. \A n \in messages : n.id # m.id
  BY DEF OwnIdentity
<1>5. m.replyTo # None =>
        \E n \in InConversation(m.conversation) : n.id = m.replyTo /\ n.id < m.id
  BY <1>3 DEF DraftsQuoteInside, InConversation, Writing, Inserted
<1> QED BY <1>2, <1>3, <1>4, <1>5

\* The columns of CONVERSATIONS after a commit.
LEMMA BumpFacts ==
    ASSUME Typed, NEW m \in Message, Bump(m)
    PROVE  /\ rows' \in [Conversations -> Row]
           /\ rows'[m.conversation].last = m.created
           /\ \A c \in Conversations : rows'[c].status = rows[c].status
           /\ \A c \in Conversations \ {m.conversation} : rows'[c] = rows[c]
<1>1. m.conversation \in Conversations /\ m.created \in Times
  BY DEF Message
<1>2. rows' = [rows EXCEPT ![m.conversation] = [rows[m.conversation] EXCEPT !.last = m.created]]
  BY DEF Bump
<1>3. [rows[m.conversation] EXCEPT !.last = m.created] \in Row
  BY <1>1 DEF Row, Typed
<1> QED BY <1>1, <1>2, <1>3 DEF Row, Typed

LEMMA CommitKeeps ==
    ASSUME ChatInv, NEW e \in Exchanges, Commits(e) PROVE ChatInv'
<1> DEFINE x == exchanges[e]
           y == exchanges'[e]
           m == x.new
<1> USE DEF ChatInv
<1>1. /\ UNCHANGED <<lastId, clock>> /\ messages' = messages \cup {m}
      /\ \A f \in Exchanges \ {e} : exchanges'[f] = exchanges[f]
      /\ <<x.at, y.at>> \in {<<"saving", "loading">>, <<"storing", "stored">>}
      /\ y.conversation = x.conversation /\ y.text = x.text /\ y.heard = x.heard
      /\ y.new = None
  BY DEF Commits, Moves
<1>2. /\ m \in Message /\ m.exchange = e /\ m.conversation = x.conversation
      /\ m.role = (IF x.at = "saving" THEN "user" ELSE "assistant") /\ m.id <= lastId
      /\ \A n \in messages : n.id # m.id
  BY <1>1, CommittedRow DEF Inserted
<1>3. m.replyTo # None =>
        \E n \in InConversation(m.conversation) : n.id = m.replyTo /\ n.id < m.id
  BY <1>1, CommittedRow DEF Inserted
<1>4. /\ rows' \in [Conversations -> Row]
      /\ rows'[m.conversation].last = m.created
      /\ \A c \in Conversations \ {m.conversation} : rows'[c] = rows[c]
  BY <1>2, BumpFacts DEF Commits
<1>5. Typed'
  BY <1>1, <1>2, <1>4 DEF Commits, Moves, Typed, Steps
<1>6. WritesItsOwn'
  BY <1>1 DEF WritesItsOwn, Writing
<1>7. OwnIdentity'
  BY <1>1, <1>2 DEF OwnIdentity, Inserted
<1>8. StoredInStep'
  <2>0. PICK k \in Message : k = m
    BY <1>2
  <2>1. ASSUME NEW f \in Exchanges \ {e}
        PROVE  /\ exchanges'[f].at \in Unasked => \A n \in messages' : n.exchange # f
               /\ exchanges'[f].at \in Asked => \E n \in messages' : Question(f, n)'
               /\ exchanges'[f].at \in Asked \ {"stored"} =>
                    \A n \in messages' : n.exchange = f => n.role = "user"
               /\ exchanges'[f].at = "stored" => \E n \in Replies' : n.exchange = f
               /\ exchanges'[f].at = "storing" =>
                    \E n \in messages' : Question(f, n)' /\ n.id < exchanges'[f].new.id
               /\ exchanges'[f].at \in {"answering", "storing"} => exchanges'[f].text = "whole"
    BY <1>1, <1>2 DEF StoredInStep, Question, Replies
  <2>2. CASE x.at = "saving"
    <3>1. y.at = "loading" /\ m.role = "user" /\ \A n \in messages : n.exchange # e
      BY <1>1, <1>2, <2>2 DEF StoredInStep, Unasked
    <3>2. k \in messages' /\ Question(e, k)'
      BY <1>1, <1>2, <2>0, <3>1 DEF Question
    <3>3. \A n \in messages' : n.exchange = e => n.role = "user"
      BY <1>1, <3>1
    <3> QED BY <1>1, <2>1, <3>1, <3>2, <3>3 DEF StoredInStep, Unasked, Asked
  <2>3. CASE x.at = "storing"
    <3>1. y.at = "stored" /\ k \in Replies' /\ k.exchange = e
      BY <1>1, <1>2, <2>0, <2>3 DEF Replies
    <3>2. \E n \in messages' : Question(e, n)'
      BY <1>1, <2>3 DEF StoredInStep, Question, Asked
    <3> QED BY <1>1, <2>1, <3>1, <3>2 DEF StoredInStep, Unasked, Asked
  <2> QED BY <1>1, <2>2, <2>3
<1>9. DraftsQuoteInside'
  BY <1>1 DEF DraftsQuoteInside, Writing
<1>10. ToldIsStored'
  BY <1>1 DEF ToldIsStored, Replies
<1>11. TelemetryPerReply'
  BY <1>1, <1>2 DEF Commits, TelemetryPerReply, Replies
<1>12. QuotesStayInside'
  BY <1>1, <1>3 DEF QuotesStayInside, InConversation
<1>13. LastIsAMessage'
  <2>1. PICK k \in Message : k = m
    BY <1>2
  <2>2. k.created # Never
    BY DEF Message, Times, Never
  <2>3. k \in InConversation(k.conversation)'
    BY <1>1, <2>1 DEF InConversation
  <2>4. \A c \in Conversations \ {k.conversation} : InConversation(c)' = InConversation(c)
    BY <1>1, <2>1 DEF InConversation
  <2> QED BY <1>4, <2>1, <2>2, <2>3, <2>4 DEF LastIsAMessage
<1> QED BY <1>5, <1>6, <1>7, <1>8, <1>9, <1>10, <1>11, <1>12, <1>13

LEMMA SoftDeleteKeeps ==
    ASSUME ChatInv, NEW c \in Conversations, SoftDelete(c) PROVE ChatInv'
<1> USE DEF ChatInv
<1>1. UNCHANGED <<messages, generations, exchanges, lastId, clock>>
  BY DEF SoftDelete
<1>2. [rows[c] EXCEPT !.status = "DELETED"] \in Row
  BY DEF Row, Typed
<1>3. rows' = [rows EXCEPT ![c] = [rows[c] EXCEPT !.status = "DELETED"]]
  BY DEF SoftDelete
<1>4. rows' \in [Conversations -> Row] /\ \A d \in Conversations : rows'[d].last = rows[d].last
  BY <1>2, <1>3 DEF Row, Typed
<1>5. Typed' /\ LastIsAMessage'
  BY <1>1, <1>4 DEF Typed, LastIsAMessage, InConversation
<1>6. WritesItsOwn' /\ OwnIdentity' /\ StoredInStep' /\ DraftsQuoteInside'
  BY <1>1 DEF WritesItsOwn, OwnIdentity, StoredInStep, DraftsQuoteInside, Question, Replies
<1>7. ToldIsStored' /\ TelemetryPerReply' /\ QuotesStayInside'
  BY <1>1 DEF ToldIsStored, TelemetryPerReply, QuotesStayInside, InConversation, Replies
<1> QED BY <1>5, <1>6, <1>7

-------------------------------------------------------------------------------
(* Every step is of one of these kinds. *)

LEMMA NamedTyped == Typed => Named \subseteq Ids \cup {None}
BY DEF Typed, Named, Ids

LEMMA NextKinds ==
    ASSUME ChatInv, Next
    PROVE  \/ \E e \in Exchanges : Quiet(e) \/ Inserts(e) \/ Commits(e)
           \/ \E c \in Conversations : SoftDelete(c)
<1>1. ASSUME NEW e \in Exchanges, NEW c \in Conversations, Find(e, c) PROVE Quiet(e)
  BY <1>1, FindQuiet
<1>2. ASSUME NEW e \in Exchanges, NEW size \in Sizes, NEW target \in Named,
             Ask(e, size, target)
      PROVE  Quiet(e)
  BY <1>2, NamedTyped, AskQuiet DEF ChatInv
<1>3. ASSUME NEW e \in Exchanges, NEW size \in Sizes, EndOfStream(e, size) PROVE Quiet(e)
  BY <1>3, EndOfStreamQuiet
<1>4. ASSUME NEW e \in Exchanges, NEW named \in Named, InsertReply(e, named)
      PROVE  Inserts(e)
  BY <1>4, InsertReplyInserts
<1>5. ASSUME NEW e \in Exchanges, InsertQuestion(e) PROVE Inserts(e)
  BY <1>5, InsertQuestionInserts
<1>6. ASSUME NEW e \in Exchanges, SaveQuestion(e) \/ StoreReply(e) PROVE Commits(e)
  BY <1>6, SaveQuestionCommits, StoreReplyCommits
<1>7. ASSUME NEW e \in Exchanges,
             \/ Load(e) \/ Delta(e) \/ Completion(e)
             \/ Deliver(e) \/ ProviderFails(e) \/ Abandon(e)
      PROVE  Quiet(e)
  BY <1>7, LoadQuiet, DeltaQuiet, CompletionQuiet, DeliverQuiet, ProviderFailsQuiet, AbandonQuiet
<1> QED BY <1>1, <1>2, <1>3, <1>4, <1>5, <1>6, <1>7 DEF Next

LEMMA InitChatInv == Init => ChatInv
<1> SUFFICES ASSUME Init PROVE ChatInv
  OBVIOUS
<1>1. \A e \in Exchanges : exchanges[e] = Idle
  BY DEF Init
<1>2. Typed
  BY <1>1 DEF Init, Typed, Idle, Fields, Steps, Row
<1>3. WritesItsOwn /\ OwnIdentity /\ StoredInStep /\ DraftsQuoteInside
  BY <1>1 DEF Init, Idle, WritesItsOwn, OwnIdentity, StoredInStep, DraftsQuoteInside,
              Writing, Inserted, Unasked, Asked
<1>4. ToldIsStored /\ TelemetryPerReply /\ QuotesStayInside /\ LastIsAMessage
  BY <1>1 DEF Init, Idle, ToldIsStored, TelemetryPerReply, QuotesStayInside, LastIsAMessage,
              InConversation, Replies
<1> QED BY <1>2, <1>3, <1>4 DEF ChatInv

LEMMA NextChatInv == ChatInv /\ [Next]_vars => ChatInv'
<1> SUFFICES ASSUME ChatInv, [Next]_vars PROVE ChatInv'
  OBVIOUS
<1>1. CASE Next
  BY <1>1, NextKinds, QuietKeeps, InsertKeeps, CommitKeeps, SoftDeleteKeeps
<1>2. CASE UNCHANGED vars
  BY <1>2 DEF vars, ChatInv, Typed, WritesItsOwn, OwnIdentity, StoredInStep,
              DraftsQuoteInside, ToldIsStored, TelemetryPerReply, QuotesStayInside,
              LastIsAMessage, InConversation, Replies, Question
<1> QED BY <1>1, <1>2

LEMMA ChatInvHolds == Spec => []ChatInv
BY InitChatInv, NextChatInv, PTL DEF Spec

(***************************************************************************)
(* stream_response and _persist_assistant_message: a row the client was    *)
(* told of is stored, however many exchanges and deletions run at once and *)
(* wherever they fail.                                                     *)
(***************************************************************************)
THEOREM ToldRowsStay == Spec => []ToldIsStored
<1>1. ChatInv => ToldIsStored
  BY DEF ChatInv
<1> QED BY <1>1, ChatInvHolds, PTL

(***************************************************************************)
(* _persist_assistant_message: a reply and its telemetry row are committed *)
(* together, for any number of exchanges.                                  *)
(***************************************************************************)
THEOREM RepliesHaveTelemetry == Spec => []TelemetryPerReply
<1>1. ChatInv => TelemetryPerReply
  BY DEF ChatInv
<1> QED BY <1>1, ChatInvHolds, PTL

(***************************************************************************)
(* stream_response: a quote checked before the provider was awaited is in  *)
(* its conversation when the message that carries it is committed.         *)
(***************************************************************************)
THEOREM QuotesAreInside == Spec => []QuotesStayInside
<1>1. ChatInv => QuotesStayInside
  BY DEF ChatInv
<1> QED BY <1>1, ChatInvHolds, PTL

(***************************************************************************)
(* LAST_MESSAGE_AT is the time of one of the conversation's messages,      *)
(* whichever exchange commits last.                                        *)
(***************************************************************************)
THEOREM LastIsRight == Spec => []LastIsAMessage
<1>1. ChatInv => LastIsAMessage
  BY DEF ChatInv
<1> QED BY <1>1, ChatInvHolds, PTL

(***************************************************************************)
(* stream_response: "nothing partial is persisted", for any number of      *)
(* exchanges and whatever the provider and the client do.                  *)
(***************************************************************************)
THEOREM PartialRepliesAreDropped == Spec => NothingPartial
<1> DEFINE Whole == \A m \in messages' \ messages :
                      m.role = "assistant" => exchanges[m.exchange].text = "whole"
<1>1. ChatInv /\ [Next]_vars => [Whole]_vars
  <2> SUFFICES ASSUME ChatInv, Next PROVE Whole
    OBVIOUS
  <2>1. ASSUME NEW e \in Exchanges, Commits(e) PROVE Whole
    <3>1. exchanges[e].at \in Inserted /\ messages' = messages \cup {exchanges[e].new}
      BY <2>1 DEF Commits, Inserted
    <3>2. /\ exchanges[e].new.exchange = e
          /\ exchanges[e].new.role = IF exchanges[e].at = "saving" THEN "user" ELSE "assistant"
      BY <3>1, CommittedRow
    <3>3. exchanges[e].at = "storing" => exchanges[e].text = "whole"
      BY DEF ChatInv, StoredInStep
    <3> QED BY <3>1, <3>2, <3>3 DEF Inserted
  <2>2. ASSUME messages' = messages PROVE Whole
    BY <2>2
  <2> QED BY <2>1, <2>2, NextKinds DEF Quiet, Inserts, SoftDelete, database
<1> QED BY <1>1, ChatInvHolds, PTL DEF Spec, NothingPartial

-------------------------------------------------------------------------------
(* Induction over finite sets: a smallest counterexample. *)

LEMMA LeastElement ==
    ASSUME NEW T \in SUBSET Nat, T # {}
    PROVE  \E x \in T : \A y \in T : x <= y
<1> DEFINE R == {ss \in Nat \X Nat : ss[1] < ss[2]}
<1>1. IsWellFoundedOn(R, Nat)
  BY NatLessThanWellFounded DEF OpToRel
<1>2. ASSUME NEW x \in T, NEW y \in T, <<y, x>> \notin R PROVE x <= y
  BY <1>2
<1>3. \E x \in T : \A y \in T : <<y, x>> \notin R
  <2> HIDE DEF R
  <2> QED BY <1>1, WFMin
<1> QED BY <1>2, <1>3

LEMMA SmallestSubset ==
    ASSUME NEW S, IsFiniteSet(S), NEW Bad \in SUBSET (SUBSET S), Bad # {}
    PROVE  \E U \in Bad : \A V \in Bad : Cardinality(U) <= Cardinality(V)
<1> DEFINE T == {Cardinality(U) : U \in Bad}
<1>1. \A U \in Bad : Cardinality(U) \in Nat
  BY FS_Subset, FS_CardinalityType
<1>2. T \in SUBSET Nat /\ T # {}
  BY <1>1
<1>3. PICK x \in T : \A y \in T : x <= y
  <2> HIDE DEF T
  <2> QED BY <1>2, LeastElement
<1> QED BY <1>3

-------------------------------------------------------------------------------
(* select_messages: what the walk takes. *)

LEMMA CostType == \A m \in Message : Cost(m) \in Nat
<1>1. \A a \in Nat, b \in Nat \ {0} : a \div b \in Nat
  BY SMTT(30)
<1>2. \A m \in Message : m.size \in Nat
  BY ChatConstants DEF Message
<1> QED BY <1>1, <1>2, ChatConstants DEF Cost

One(T) == CHOOSE x \in T : TRUE
Adds(D, f) ==
    f = [T \in D |-> IF T = {} THEN 0 ELSE Cost(One(T)) + f[T \ {One(T)}]]
UpTo(S, n) == {T \in SUBSET S : Cardinality(T) <= n}

LEMMA TotalUnfolds ==
    ASSUME NEW S, \E f : Adds(SUBSET S, f)
    PROVE  \E f : Adds(SUBSET S, f) /\ Total(S) = f[S]
<1>1. PICK g : g = CHOOSE f : Adds(SUBSET S, f)
  OBVIOUS
<1>2. Adds(SUBSET S, g)
  BY <1>1
<1>3. Total(S) = g[S]
  BY <1>1 DEF Total, FoldSet, MapThenFoldSet, Adds, One
<1> QED BY <1>2, <1>3

LEMMA AddsExists ==
    ASSUME NEW S, IsFiniteSet(S) PROVE \E f : Adds(SUBSET S, f)
<1> DEFINE Bad == {n \in Nat : ~ \E f : Adds(UpTo(S, n), f)}
<1>1. \A U \in SUBSET S : IsFiniteSet(U) /\ Cardinality(U) \in Nat
  BY FS_Subset, FS_CardinalityType
<1>2. \A U \in SUBSET S : U # {} => /\ One(U) \in U /\ U \ {One(U)} \in SUBSET S
                                  /\ Cardinality(U \ {One(U)}) = Cardinality(U) - 1
  BY <1>1, FS_RemoveElement DEF One
<1>3. Bad = {}
  <2> SUFFICES ASSUME Bad # {} PROVE FALSE
    OBVIOUS
  <2>1. PICK n \in Bad : \A k \in Bad : n <= k
    <3>1. Bad \in SUBSET Nat
      OBVIOUS
    <3> HIDE DEF Bad
    <3> QED BY <3>1, LeastElement
  <2>2. n \in Nat /\ ~ \E f : Adds(UpTo(S, n), f)
    OBVIOUS
  <2>3. CASE n = 0
    <3> DEFINE f == [T \in UpTo(S, n) |-> 0]
    <3>1. \A T \in UpTo(S, n) : T = {}
      BY <1>1, <2>3, FS_EmptySet DEF UpTo
    <3>2. Adds(UpTo(S, n), f)
      BY <3>1 DEF Adds
    <3> QED BY <2>2, <3>2
  <2>4. CASE n # 0
    <3>1. n - 1 \in Nat /\ n - 1 \notin Bad
      BY <2>1, <2>2, <2>4
    <3>2. PICK g : Adds(UpTo(S, n - 1), g)
      BY <3>1
    <3> DEFINE f == [T \in UpTo(S, n) |->
                       IF T \in UpTo(S, n - 1) THEN g[T]
                       ELSE Cost(One(T)) + g[T \ {One(T)}]]
    <3>3. \A T \in UpTo(S, n) : T # {} => T \ {One(T)} \in UpTo(S, n - 1)
      BY <1>1, <1>2, <2>2 DEF UpTo
    <3>4. {} \in UpTo(S, n - 1)
      BY <3>1, FS_EmptySet DEF UpTo
    <3>5. UpTo(S, n - 1) \subseteq UpTo(S, n)
      BY <1>1, <2>2 DEF UpTo
    <3>6. \A T \in UpTo(S, n - 1) : f[T] = g[T]
      BY <3>5
    <3>7. \A T \in UpTo(S, n) : f[T] = IF T = {} THEN 0 ELSE Cost(One(T)) + f[T \ {One(T)}]
      <4> TAKE T \in UpTo(S, n)
      <4>1. CASE T = {}
        BY <3>2, <3>4, <3>5, <4>1 DEF Adds
      <4>2. CASE T # {}
        <5>1. f[T \ {One(T)}] = g[T \ {One(T)}]
          BY <3>3, <3>6, <4>2
        <5>2. CASE T \in UpTo(S, n - 1)
          <6>1. g[T] = Cost(One(T)) + g[T \ {One(T)}]
            BY <3>2, <4>2, <5>2 DEF Adds
          <6> QED BY <3>6, <4>2, <5>1, <5>2, <6>1
        <5>3. CASE T \notin UpTo(S, n - 1)
          BY <4>2, <5>1, <5>3
        <5> QED BY <5>2, <5>3
      <4> QED BY <4>1, <4>2
    <3>8. Adds(UpTo(S, n), f)
      BY <3>7 DEF Adds
    <3> QED BY <2>2, <3>8
  <2> QED BY <2>3, <2>4
<1>4. UpTo(S, Cardinality(S)) = SUBSET S
  BY FS_Subset DEF UpTo
<1>5. S \in SUBSET S /\ Cardinality(S) \notin Bad
  BY <1>3
<1>6. \E f : Adds(UpTo(S, Cardinality(S)), f)
  BY <1>1, <1>5
<1> QED BY <1>4, <1>6

Additive(S, f) ==
    \A T \in SUBSET S :
        /\ f[T] \in Nat /\ f[{}] = 0
        /\ \A x \in T : f[T] = Cost(x) + f[T \ {x}]

LEMMA AddsIsAdditive ==
    ASSUME NEW S \in SUBSET Message, IsFiniteSet(S), NEW f, Adds(SUBSET S, f)
    PROVE  Additive(S, f)
<1> DEFINE Good(T) == f[T] \in Nat /\ \A x \in T : f[T] = Cost(x) + f[T \ {x}]
           Bad == {T \in SUBSET S : ~Good(T)}
<1>1. \A T \in SUBSET S : f[T] = IF T = {} THEN 0 ELSE Cost(One(T)) + f[T \ {One(T)}]
  BY DEF Adds
<1>2. Bad = {}
  <2> SUFFICES ASSUME Bad # {} PROVE FALSE
    OBVIOUS
  <2>1. PICK T \in Bad : \A U \in Bad : Cardinality(T) <= Cardinality(U)
    <3>1. Bad \in SUBSET (SUBSET S)
      OBVIOUS
    <3> HIDE DEF Bad
    <3> QED BY <3>1, SmallestSubset
  <2>2. T \in SUBSET S /\ ~Good(T)
    OBVIOUS
  <2>3. \A U \in SUBSET S : \A x \in U : /\ Cardinality(U \ {x}) = Cardinality(U) - 1
                                         /\ Cardinality(U) \in Nat
                                         /\ Cardinality(U \ {x}) \in Nat
    BY FS_Subset, FS_RemoveElement, FS_CardinalityType
  <2>4. \A x \in T : Good(T \ {x})
    <3> TAKE x \in T
    <3>1. T \ {x} \in SUBSET S /\ ~(Cardinality(T) <= Cardinality(T \ {x}))
      BY <2>2, <2>3
    <3> QED BY <2>1, <3>1
  <2>5. T # {}
    <3>1. T = {} => f[T] = 0
      BY <1>1, <2>2
    <3> QED BY <2>2, <3>1
  <2> DEFINE o == One(T)
  <2>6. o \in T /\ f[T] = Cost(o) + f[T \ {o}]
    BY <1>1, <2>2, <2>5 DEF One
  <2>7. f[T] \in Nat
    <3>1. f[T \ {o}] \in Nat /\ Cost(o) \in Nat
      BY <2>2, <2>4, <2>6, CostType
    <3> QED BY <2>6, <3>1
  <2>8. ASSUME NEW x \in T PROVE f[T] = Cost(x) + f[T \ {x}]
    <3>1. CASE x = o
      BY <2>6, <3>1
    <3>2. CASE x # o
      <4>1. f[T \ {o}] = Cost(x) + f[(T \ {o}) \ {x}]
        <5>1. x \in T \ {o}
          BY <3>2
        <5> QED BY <2>4, <2>6, <5>1
      <4>2. f[T \ {x}] = Cost(o) + f[(T \ {x}) \ {o}]
        <5>1. o \in T \ {x}
          BY <2>6, <3>2
        <5> QED BY <2>4, <5>1
      <4>3. (T \ {o}) \ {x} = (T \ {x}) \ {o}
        OBVIOUS
      <4>4. PICK r : r = f[(T \ {x}) \ {o}]
        OBVIOUS
      <4>5. r \in Nat
        <5>1. Good(T \ {x}) /\ o \in T \ {x}
          BY <2>4, <2>6, <3>2
        <5>2. (T \ {x}) \ {o} \in SUBSET S /\ ~(Cardinality(T) <= Cardinality((T \ {x}) \ {o}))
          <6>1. T \ {x} \in SUBSET S
            BY <2>2
          <6>2. /\ Cardinality(T \ {x}) = Cardinality(T) - 1 /\ Cardinality(T) \in Nat
                /\ Cardinality((T \ {x}) \ {o}) = Cardinality(T \ {x}) - 1
            BY <2>2, <2>3, <5>1, <6>1
          <6> QED BY <6>1, <6>2
        <5>3. Good((T \ {x}) \ {o})
          BY <2>1, <5>2
        <5> QED BY <4>4, <5>3
      <4>6. Cost(x) \in Nat /\ Cost(o) \in Nat
        BY <2>2, <2>6, CostType
      <4> HIDE DEF o
      <4>7. f[T \ {o}] = Cost(x) + r /\ f[T \ {x}] = Cost(o) + r
        BY <4>1, <4>2, <4>3, <4>4
      <4> QED BY <2>6, <4>5, <4>6, <4>7
    <3> QED BY <3>1, <3>2
  <2> QED BY <2>2, <2>7, <2>8
<1>3. f[{}] = 0
  BY <1>1
<1>4. \A T \in SUBSET S : Good(T)
  BY <1>2
<1> QED BY <1>3, <1>4 DEF Additive

LEMMA AdditiveAgree ==
    ASSUME NEW B, NEW A \in SUBSET B, IsFiniteSet(B),
           NEW f, Additive(A, f), NEW g, Additive(B, g)
    PROVE  \A T \in SUBSET A : f[T] = g[T]
<1> DEFINE Bad == {T \in SUBSET A : f[T] # g[T]}
<1>1. IsFiniteSet(A)
  BY FS_Subset
<1>2. Bad = {}
  <2> SUFFICES ASSUME Bad # {} PROVE FALSE
    OBVIOUS
  <2>1. PICK T \in Bad : \A U \in Bad : Cardinality(T) <= Cardinality(U)
    <3>1. Bad \in SUBSET (SUBSET A)
      OBVIOUS
    <3> HIDE DEF Bad
    <3> QED BY <1>1, <3>1, SmallestSubset
  <2>2. T \in SUBSET A /\ T \in SUBSET B /\ f[T] # g[T]
    OBVIOUS
  <2>3. T # {}
    BY <2>2 DEF Additive
  <2>4. PICK x \in T : TRUE
    BY <2>3
  <2>5. T \ {x} \in SUBSET A /\ ~(Cardinality(T) <= Cardinality(T \ {x}))
    <3>1. IsFiniteSet(T)
      BY <1>1, <2>2, FS_Subset
    <3>2. /\ Cardinality(T) \in Nat /\ x \in T
          /\ Cardinality(T \ {x}) = Cardinality(T) - 1
      BY <2>3, <2>4, <3>1, FS_RemoveElement, FS_CardinalityType
    <3>3. ~(Cardinality(T) <= Cardinality(T \ {x}))
      BY <3>2
    <3> HIDE DEF Bad
    <3> QED BY <2>2, <3>3
  <2>6. f[T \ {x}] = g[T \ {x}]
    BY <2>1, <2>5
  <2> QED BY <2>2, <2>6 DEF Additive
<1> QED BY <1>2

LEMMA TotalEmpty == Total({}) = 0
<1>1. IsFiniteSet({}) /\ {} \in SUBSET Message
  BY FS_EmptySet
<1>2. PICK h : Adds(SUBSET {}, h) /\ Total({}) = h[{}]
  BY <1>1, AddsExists, TotalUnfolds
<1>3. Additive({}, h)
  BY <1>1, <1>2, AddsIsAdditive
<1> QED BY <1>2, <1>3 DEF Additive

LEMMA TotalAdds ==
    ASSUME NEW S \in SUBSET Message, IsFiniteSet(S), NEW m \in Message \ S
    PROVE  /\ Total(S) \in Nat
           /\ Total(S \cup {m}) = Cost(m) + Total(S)
<1> DEFINE B == S \cup {m}
<1>1. IsFiniteSet(B) /\ B \in SUBSET Message
  BY FS_AddElement
<1>2. PICK f : Adds(SUBSET S, f) /\ Total(S) = f[S]
  BY AddsExists, TotalUnfolds
<1>3. PICK g : Adds(SUBSET B, g) /\ Total(B) = g[B]
  BY <1>1, AddsExists, TotalUnfolds
<1>4. Additive(S, f) /\ Additive(B, g)
  BY <1>1, <1>2, <1>3, AddsIsAdditive
<1>5. f[S] = g[S]
  BY <1>1, <1>4, AdditiveAgree
<1>6. g[B] = Cost(m) + g[B \ {m}] /\ B \ {m} = S
  BY <1>4 DEF Additive
<1>7. f[S] \in Nat
  BY <1>4 DEF Additive
<1> QED BY <1>2, <1>3, <1>5, <1>6, <1>7

LEMMA NewestFacts ==
    ASSUME NEW S \in SUBSET Message, IsFiniteSet(S), S # {}
    PROVE  Newest(S) \in S /\ \A n \in S : n.id <= Newest(S).id
<1> DEFINE Above(m) == {n \in S : n.id > m.id}
           Bad == {Above(m) : m \in S}
<1>1. \A m \in S : m.id \in Nat
  BY DEF Message, Ids
<1>2. PICK U \in Bad : \A V \in Bad : Cardinality(U) <= Cardinality(V)
  <2>1. Bad \in SUBSET (SUBSET S) /\ Bad # {}
    OBVIOUS
  <2> HIDE DEF Bad
  <2> QED BY <2>1, SmallestSubset
<1>3. PICK m \in S : U = Above(m)
  OBVIOUS
<1>4. ASSUME NEW n \in Above(m) PROVE FALSE
  <2>1. Above(n) \subseteq Above(m) /\ n \notin Above(n) /\ Above(m) \in SUBSET S
    BY <1>1, <1>4
  <2>2. n \in S /\ Cardinality(Above(m)) <= Cardinality(Above(n))
    BY <1>2, <1>3
  <2>3. IsFiniteSet(Above(m)) /\ Above(m) # Above(n)
    BY <1>4, <2>1, FS_Subset
  <2>4. Cardinality(Above(n)) < Cardinality(Above(m))
    <3>1. /\ Cardinality(Above(n)) <= Cardinality(Above(m))
          /\ Cardinality(Above(n)) = Cardinality(Above(m)) => Above(n) = Above(m)
          /\ IsFiniteSet(Above(n))
      BY <2>1, <2>3, FS_Subset
    <3>2. Cardinality(Above(n)) \in Nat /\ Cardinality(Above(m)) \in Nat
      BY <2>3, <3>1, FS_CardinalityType
    <3> HIDE DEF Above
    <3> QED BY <2>3, <3>1, <3>2
  <2>5. Cardinality(Above(n)) \in Nat /\ Cardinality(Above(m)) \in Nat
    BY <2>1, <2>3, FS_Subset, FS_CardinalityType
  <2> HIDE DEF Above
  <2> QED BY <2>2, <2>4, <2>5
<1>5. m \in S /\ \A n \in S : n.id <= m.id
  BY <1>1, <1>4
<1> QED BY <1>5 DEF Newest

Stuck(S, s) == S \ s.taken # {} => ~Fits(s, Newest(S \ s.taken))
Walked(S, n, s) ==
    /\ s.taken \subseteq S
    /\ s.used = Total(s.taken)
    /\ Cardinality(s.taken) <= MaxMessages
    /\ Cardinality(s.taken) > 1 => s.used <= CharBudget
    /\ \A m \in s.taken, o \in S : o.id > m.id => o \in s.taken
    /\ Cardinality(s.taken) = n \/ Stuck(S, s)

LEMMA OneMore ==
    ASSUME NEW S \in SUBSET Message, IsFiniteSet(S), NEW T \in SUBSET S, NEW m \in S \ T
    PROVE  /\ Cardinality(T) \in Nat /\ Cardinality(T \cup {m}) = Cardinality(T) + 1
           /\ Total(T) \in Nat /\ Cost(m) \in Nat
           /\ Total(T \cup {m}) = Total(T) + Cost(m)
<1>1. IsFiniteSet(T) /\ Cardinality(T) \in Nat
  BY FS_Subset, FS_CardinalityType
<1>2. Cardinality(T \cup {m}) = Cardinality(T) + 1
  BY <1>1, FS_AddElement
<1>3. T \in SUBSET Message /\ m \in Message \ T
  OBVIOUS
<1>4. Total(T) \in Nat /\ Total(T \cup {m}) = Cost(m) + Total(T) /\ Cost(m) \in Nat
  BY <1>1, <1>3, TotalAdds, CostType
<1> QED BY <1>1, <1>2, <1>4

LEMMA WalkStep ==
    ASSUME NEW S \in SUBSET Message, IsFiniteSet(S), NEW n \in Nat, NEW s, Walked(S, n, s)
    PROVE  Walked(S, n + 1, Walk(S, s))
<1> DEFINE m == Newest(S \ s.taken)
<1>1. CASE Stuck(S, s)
  <2>1. Walk(S, s) = s
    BY <1>1 DEF Walk, Stuck
  <2> QED BY <1>1, <2>1 DEF Walked
<1>2. CASE ~Stuck(S, s)
  <2>1. /\ S \ s.taken # {} /\ Fits(s, m)
        /\ Walk(S, s) = Take(s, m)
    BY <1>2 DEF Walk, Stuck
  <2>2. m \in S \ s.taken /\ \A o \in S \ s.taken : o.id <= m.id
    <3>1. S \ s.taken \in SUBSET Message /\ IsFiniteSet(S \ s.taken)
      BY FS_Subset
    <3> QED BY <2>1, <3>1, NewestFacts
  <2> HIDE DEF m
  <2>3. PICK t : t = Walk(S, s)
    OBVIOUS
  <2>4. /\ t.taken = s.taken \cup {m} /\ t.used = s.used + Cost(m)
        /\ Cardinality(s.taken) \in Nat
        /\ Cardinality(t.taken) = Cardinality(s.taken) + 1
        /\ Total(s.taken) \in Nat /\ Cost(m) \in Nat
        /\ Total(t.taken) = Total(s.taken) + Cost(m)
    <3>1. s.taken \in SUBSET S /\ m \in S \ s.taken
      BY <2>2 DEF Walked
    <3>2. t.taken = s.taken \cup {m} /\ t.used = s.used + Cost(m)
      BY <2>1, <2>3 DEF Take
    <3> QED BY <3>1, <3>2, OneMore
  <2>5. Cardinality(t.taken) = n + 1
    BY <1>2, <2>4 DEF Walked
  <2>6. t.taken \subseteq S /\ t.used = Total(t.taken)
    BY <2>2, <2>4 DEF Walked
  <2>7. /\ Cardinality(t.taken) <= MaxMessages
        /\ Cardinality(t.taken) > 1 => t.used <= CharBudget
    <3>1. MaxMessages \in Nat /\ Cardinality({}) = 0
      BY ChatConstants, FS_EmptySet
    <3> QED BY <2>1, <2>4, <3>1 DEF Fits
  <2>8. \A a \in t.taken, o \in S : o.id > a.id => o \in t.taken
    <3>1. \A o \in S : o.id \in Nat
      BY DEF Message, Ids
    <3> QED BY <2>2, <2>4, <3>1 DEF Walked
  <2> QED BY <2>3, <2>5, <2>6, <2>7, <2>8 DEF Walked
<1> QED BY <1>1, <1>2

WalkFrom(S, N, w) ==
    w = [n \in 0 .. N |-> IF n = 0 THEN [taken |-> {}, used |-> 0] ELSE Walk(S, w[n - 1])]

LEMMA WalkExists == ASSUME NEW S, NEW N \in Nat PROVE \E w : WalkFrom(S, N, w)
<1> DEFINE Bad == {n \in Nat : ~ \E w : WalkFrom(S, n, w)}
<1>1. Bad = {}
  <2> SUFFICES ASSUME Bad # {} PROVE FALSE
    OBVIOUS
  <2>1. PICK n \in Bad : \A k \in Bad : n <= k
    <3>1. Bad \in SUBSET Nat
      OBVIOUS
    <3> HIDE DEF Bad
    <3> QED BY <3>1, LeastElement
  <2>2. n \in Nat /\ ~ \E w : WalkFrom(S, n, w)
    OBVIOUS
  <2>3. CASE n = 0
    <3> DEFINE w == [i \in 0 .. n |-> [taken |-> {}, used |-> 0]]
    <3>1. WalkFrom(S, n, w)
      BY <2>3 DEF WalkFrom
    <3> QED BY <2>2, <3>1
  <2>4. CASE n # 0
    <3>1. n - 1 \in Nat /\ n - 1 \notin Bad
      BY <2>1, <2>2, <2>4
    <3>2. PICK v : WalkFrom(S, n - 1, v)
      BY <3>1
    <3>3. \A i \in 0 .. n - 1 :
            v[i] = IF i = 0 THEN [taken |-> {}, used |-> 0] ELSE Walk(S, v[i - 1])
      BY <3>2 DEF WalkFrom
    <3> DEFINE w == [i \in 0 .. n |-> IF i = n THEN Walk(S, v[n - 1]) ELSE v[i]]
    <3>4. \A i \in 0 .. n :
            w[i] = IF i = 0 THEN [taken |-> {}, used |-> 0] ELSE Walk(S, w[i - 1])
      <4> TAKE i \in 0 .. n
      <4>1. CASE i = n
        <5>1. n - 1 \in 0 .. n /\ w[n - 1] = v[n - 1]
          BY <2>2, <3>1
        <5> QED BY <2>4, <4>1, <5>1
      <4>2. CASE i # n
        <5>1. i \in 0 .. n - 1
          BY <2>2, <4>2
        <5>2. i # 0 => i - 1 \in 0 .. n /\ i - 1 # n
          BY <2>2, <5>1
        <5> QED BY <3>3, <4>2, <5>1, <5>2
      <4> QED BY <4>1, <4>2
    <3>5. WalkFrom(S, n, w)
      BY <3>4 DEF WalkFrom
    <3> QED BY <2>2, <3>5
  <2> QED BY <2>3, <2>4
<1>2. N \notin Bad
  BY <1>1
<1> QED BY <1>2

LEMMA WalkEnds ==
    ASSUME NEW S \in SUBSET Message, IsFiniteSet(S), NEW N \in Nat, NEW w, WalkFrom(S, N, w)
    PROVE  Walked(S, N, w[N])
<1> DEFINE Bad == {n \in Nat : n <= N /\ ~Walked(S, n, w[n])}
<1>1. \A n \in 0 .. N : w[n] = IF n = 0 THEN [taken |-> {}, used |-> 0] ELSE Walk(S, w[n - 1])
  BY DEF WalkFrom
<1>2. Bad = {}
  <2> SUFFICES ASSUME Bad # {} PROVE FALSE
    OBVIOUS
  <2>1. PICK n \in Bad : \A k \in Bad : n <= k
    <3>1. Bad \in SUBSET Nat
      OBVIOUS
    <3> HIDE DEF Bad
    <3> QED BY <3>1, LeastElement
  <2>2. n \in 0 .. N /\ ~Walked(S, n, w[n])
    OBVIOUS
  <2>3. CASE n = 0
    <3>1. w[n].taken = {} /\ w[n].used = 0
      BY <1>1, <2>2, <2>3
    <3>2. Total({}) = 0 /\ Cardinality({}) = 0
      BY TotalEmpty, FS_EmptySet
    <3> QED BY <2>2, <2>3, <3>1, <3>2, ChatConstants DEF Walked
  <2>4. CASE n # 0
    <3>1. n - 1 \in Nat /\ n - 1 <= N /\ ~(n <= n - 1)
      BY <2>2, <2>4
    <3>2. Walked(S, n - 1, w[n - 1])
      BY <2>1, <3>1
    <3>3. Walked(S, (n - 1) + 1, w[n])
      BY <1>1, <2>2, <2>4, <3>1, <3>2, WalkStep
    <3> QED BY <2>2, <3>3
  <2> QED BY <2>3, <2>4
<1>3. N \notin Bad
  BY <1>2
<1> QED BY <1>3

LEMMA SelectWalked ==
    ASSUME NEW S \in SUBSET Message, IsFiniteSet(S)
    PROVE  \E s : s.taken = Select(S) /\ Walked(S, Cardinality(S), s)
<1>1. Cardinality(S) \in Nat
  BY FS_CardinalityType
<1>2. PICK w : w = CHOOSE v : WalkFrom(S, Cardinality(S), v)
  OBVIOUS
<1>3. WalkFrom(S, Cardinality(S), w)
  BY <1>1, <1>2, WalkExists
<1>4. Select(S) = w[Cardinality(S)].taken
  BY <1>2 DEF Select, WalkFrom
<1> QED BY <1>1, <1>3, <1>4, WalkEnds

LEMMA SelectIsLongestRecent ==
    ASSUME NEW S \in SUBSET Message, IsFiniteSet(S), \A m, n \in S : m.id = n.id => m = n
    PROVE  LongestRecent(Select(S), S) /\ (S # {} => Select(S) # {})
<1>1. PICK s : s.taken = Select(S) /\ Walked(S, Cardinality(S), s)
  BY SelectWalked
<1> DEFINE T == s.taken
           m == Newest(S \ T)
<1>2. Stuck(S, s)
  <2>1. CASE Cardinality(T) = Cardinality(S)
    <3>1. T = S
      BY <1>1, <2>1, FS_Subset DEF Walked
    <3> QED BY <3>1 DEF Stuck
  <2> QED BY <1>1, <2>1 DEF Walked
<1>3. T \subseteq S /\ IsFiniteSet(T) /\ Cardinality(T) \in Nat /\ Cardinality({}) = 0
  BY <1>1, FS_Subset, FS_CardinalityType, FS_EmptySet DEF Walked
<1>4. CharBudget \in Nat /\ MaxMessages \in Nat \ {0}
  BY ChatConstants
<1>5. Fitting(T)
  <2>1. /\ Cardinality(T) <= MaxMessages
        /\ Cardinality(T) > 1 => Total(T) <= CharBudget
    BY <1>1 DEF Walked
  <2> QED BY <1>3, <2>1 DEF Fitting
<1>6. S \ T # {} => m \in S \ T /\ \A o \in S \ T : o.id <= m.id
  <2>1. S \ T \in SUBSET Message /\ IsFiniteSet(S \ T)
    BY FS_Subset
  <2> QED BY <2>1, NewestFacts
<1>7. ASSUME NEW n \in S \ T, \A o \in S \ T : o.id <= n.id
      PROVE  ~Fitting(T \cup {n})
  <2>1. n = m
    <3>1. m.id \in Nat /\ n.id \in Nat /\ m.id <= n.id /\ n.id <= m.id
      BY <1>6, <1>7 DEF Message, Ids
    <3>2. m.id = n.id
      BY <3>1
    <3> QED BY <1>6, <3>2
  <2>2. ~Fits(s, n)
    BY <1>2, <2>1 DEF Stuck
  <2> HIDE DEF m
  <2>3. /\ Cardinality(T \cup {n}) = Cardinality(T) + 1
        /\ Total(T) \in Nat /\ Cost(n) \in Nat
        /\ Total(T \cup {n}) = Total(T) + Cost(n) /\ s.used = Total(T)
    <3>1. T \in SUBSET S /\ n \in S \ T
      BY <1>3
    <3>2. s.used = Total(T)
      BY <1>1 DEF Walked
    <3> HIDE DEF T
    <3> QED BY <3>1, <3>2, OneMore
  <2>4. CASE ~(Cardinality(T) < MaxMessages)
    BY <1>3, <1>4, <2>3, <2>4 DEF Fitting
  <2>5. CASE T # {} /\ ~(s.used + Cost(n) <= CharBudget)
    <3>1. Cardinality(T) # 0
      BY <1>3, <2>5, FS_EmptySet
    <3>2. Cardinality(T \cup {n}) > 1 /\ ~(Total(T \cup {n}) <= CharBudget)
      BY <1>3, <2>3, <2>5, <3>1
    <3> QED BY <1>3, <2>3, <3>2 DEF Fitting
  <2> QED BY <2>2, <2>4, <2>5 DEF Fits
<1>8. S # {} => T # {}
  BY <1>2, <1>3, <1>4 DEF Stuck, Fits
<1>9. \A a \in T, o \in S : o.id > a.id => o \in T
  BY <1>1 DEF Walked
<1> HIDE DEF T
<1>10. LongestRecent(T, S)
  BY <1>3, <1>5, <1>7, <1>9 DEF LongestRecent
<1> QED BY <1>1, <1>8, <1>10 DEF T

-------------------------------------------------------------------------------
(* Types and prompts. *)

Held == {"streaming", "answering", "storing", "stored"}
PromptInv == TypeOK /\ IsFiniteSet(messages) /\ PromptHasQuestion

LEMMA ExchangeParts ==
    ASSUME NEW x \in Exchange
    PROVE  /\ \A to \in Steps, n \in Draft \cup {None} :
                [x EXCEPT !.at = to, !.new = n] \in Exchange
           /\ \A S \in SUBSET Message :
                [x EXCEPT !.at = "streaming", !.heard = "created", !.prompt = S] \in Exchange
           /\ \A h \in {"nothing", "created", "completed", "error"} :
                [x EXCEPT !.at = "done", !.new = None, !.prompt = {}, !.text = "none",
                          !.heard = h] \in Exchange
<1>1. \A to \in Steps, n \in Draft \cup {None} : [x EXCEPT !.at = to, !.new = n] \in Exchange
  BY DEF Exchange
<1>2. \A S \in SUBSET Message :
        [x EXCEPT !.at = "streaming", !.heard = "created", !.prompt = S] \in Exchange
  BY DEF Exchange, Steps
<1>3. \A h \in {"nothing", "created", "completed", "error"} :
        [x EXCEPT !.at = "done", !.new = None, !.prompt = {}, !.text = "none",
                  !.heard = h] \in Exchange
  BY DEF Exchange, Steps
<1> QED BY <1>1, <1>2, <1>3

LEMMA Becomes ==
    ASSUME TypeOK, NEW e \in Exchanges, NEW y \in Exchange,
           exchanges' = [exchanges EXCEPT ![e] = y]
    PROVE  exchanges' \in [Exchanges -> Exchange]
BY DEF TypeOK

LEMMA LoadSelects ==
    ASSUME ChatInv, PromptInv, NEW e \in Exchanges, Load(e)
    PROVE  LET H == InConversation(exchanges[e].conversation)
           IN  /\ exchanges'[e].prompt = Select(H) /\ LongestRecent(Select(H), H)
               /\ exchanges'[e].conversation = exchanges[e].conversation
               /\ \E q \in H : q.exchange = e /\ q.role = "user" /\ Select(H) # {}
<1> DEFINE H == InConversation(exchanges[e].conversation)
<1>1. H \in SUBSET Message /\ IsFiniteSet(H) /\ \A m, n \in H : m.id = n.id => m = n
  BY FS_Subset DEF PromptInv, TypeOK, InConversation, ChatInv, OwnIdentity
<1>2. PICK q \in H : q.exchange = e /\ q.role = "user"
  BY DEF Load, At, ChatInv, StoredInStep, Asked, Question, InConversation
<1>3. LongestRecent(Select(H), H) /\ Select(H) # {}
  <2> HIDE DEF H
  <2> QED BY <1>1, <1>2, SelectIsLongestRecent
<1>4. /\ exchanges'[e].prompt = Select(H)
      /\ exchanges'[e].conversation = exchanges[e].conversation
  <2>1. exchanges \in [Exchanges -> Exchange]
    BY DEF PromptInv, TypeOK
  <2>2. PICK S : S = Select(H)
    OBVIOUS
  <2>3. exchanges' = [exchanges EXCEPT ![e].at = "streaming", ![e].heard = "created", ![e].prompt = S]
    BY <2>2 DEF Load
  <2> QED BY <2>1, <2>2, <2>3 DEF Exchange
<1> QED BY <1>2, <1>3, <1>4

LEMMA TypeKept == ASSUME ChatInv, PromptInv, Next PROVE TypeOK'
<1> USE DEF TypeOK, PromptInv
<1>1. ASSUME NEW e \in Exchanges, NEW c \in Conversations, Find(e, c) PROVE TypeOK'
  BY <1>1 DEF Find, Idle, Exchange, Steps, database
<1>2. ASSUME NEW e \in Exchanges, NEW role \in {"user", "assistant"}, NEW size \in Sizes,
             NEW target \in Ids \cup {None}, NEW to \in Steps,
             exchanges[e].conversation \in Conversations, Drafts(e, role, size, target, to),
             UNCHANGED <<database, lastId>>
      PROVE  TypeOK'
  <2> DEFINE n == [id |-> None, conversation |-> exchanges[e].conversation, role |-> role,
                   size |-> size, created |-> clock + 1, replyTo |-> target, exchange |-> e]
  <2>1. n \in Draft
    BY <1>2 DEF Draft, Times
  <2>2. PICK k \in Draft : k = n
    BY <2>1
  <2>3. exchanges' = [exchanges EXCEPT ![e].at = to, ![e].new = k] /\ clock' = clock + 1
    BY <1>2, <2>2 DEF Drafts
  <2>4. exchanges' = [exchanges EXCEPT ![e] = [exchanges[e] EXCEPT !.at = to, !.new = k]]
    BY <2>3
  <2>5. exchanges' \in [Exchanges -> Exchange]
    BY <2>4, ExchangeParts, Becomes
  <2> QED BY <1>2, <2>3, <2>5 DEF database
<1>3. ASSUME NEW e \in Exchanges, NEW size \in Sizes, NEW target \in Named,
             Ask(e, size, target)
      PROVE  TypeOK'
  <2>1. target \in Ids \cup {None} /\ exchanges[e].conversation \in Conversations
    BY <1>3, NamedTyped DEF Ask, At, ChatInv, Typed
  <2> QED BY <1>2, <1>3, <2>1 DEF Ask, Steps
<1>4. ASSUME NEW e \in Exchanges, NEW size \in Sizes, EndOfStream(e, size) PROVE TypeOK'
  <2>1. exchanges[e].conversation \in Conversations
    BY <1>4 DEF EndOfStream, At, ChatInv, Typed
  <2> QED BY <1>2, <1>4, <2>1 DEF EndOfStream, Steps
<1>6. ASSUME NEW e \in Exchanges, InsertQuestion(e) \/ \E named \in Named : InsertReply(e, named)
      PROVE  TypeOK'
  <2>1. Inserts(e)
    BY <1>6, InsertQuestionInserts, InsertReplyInserts
  <2>2. PICK n \in Draft : exchanges'[e].new = n
    BY <2>1 DEF Inserts
  <2>3. PICK to \in Steps : exchanges'[e].at = to
    BY <2>1 DEF Inserts, Steps
  <2>4. PICK y : y = exchanges'[e]
    OBVIOUS
  <2>5. exchanges' = [exchanges EXCEPT ![e] = y]
    BY <1>6, <2>4 DEF InsertQuestion, InsertReply
  <2>6. y = [exchanges[e] EXCEPT !.at = to, !.new = n]
    <3>1. CASE InsertQuestion(e)
      <4>1. y = [exchanges[e] EXCEPT !.at = "saving", !.new = [exchanges[e].new EXCEPT !.id = lastId + 1]]
        BY <2>4, <3>1 DEF InsertQuestion
      <4> QED BY <2>2, <2>3, <2>4, <4>1 DEF Exchange
    <3>2. CASE \E named \in Named : InsertReply(e, named)
      <4>1. PICK named \in Named : InsertReply(e, named)
        BY <3>2
      <4>2. PICK q : q = Target(exchanges[e].conversation, named)
        OBVIOUS
      <4>3. y = [exchanges[e] EXCEPT !.at = "storing",
                   !.new = [exchanges[e].new EXCEPT !.id = lastId + 1, !.replyTo = q]]
        BY <2>4, <4>1, <4>2 DEF InsertReply
      <4> QED BY <2>2, <2>3, <2>4, <4>3 DEF Exchange
    <3> QED BY <1>6, <3>1, <3>2
  <2>7. exchanges' \in [Exchanges -> Exchange]
    BY <2>5, <2>6, ExchangeParts, Becomes
  <2> QED BY <2>1, <2>7 DEF Inserts, database
<1>7. ASSUME NEW e \in Exchanges, SaveQuestion(e) \/ StoreReply(e) PROVE TypeOK'
  <2>1. Commits(e) /\ exchanges[e].at \in Inserted
    BY <1>7, SaveQuestionCommits, StoreReplyCommits DEF SaveQuestion, StoreReply, At, Inserted
  <2>2. PICK m \in Message : m = exchanges[e].new
    BY <2>1, CommittedRow
  <2>3. rows' \in [Conversations -> Row] /\ messages' \subseteq Message
    BY <2>1, <2>2, BumpFacts DEF Commits, ChatInv, Message
  <2>4. exchanges' \in [Exchanges -> Exchange]
    BY <1>7 DEF SaveQuestion, StoreReply, Exchange, Steps
  <2>5. generations' \subseteq Ids
    BY <1>7, <2>2 DEF SaveQuestion, StoreReply, Message
  <2> QED BY <2>1, <2>3, <2>4, <2>5 DEF Commits
<1>8. ASSUME NEW e \in Exchanges, Load(e) PROVE TypeOK'
  <2>1. PICK S \in SUBSET Message : S = Select(InConversation(exchanges[e].conversation))
    BY <1>8, LoadSelects DEF LongestRecent, InConversation
  <2>2. exchanges' = [exchanges EXCEPT ![e] = [exchanges[e] EXCEPT
                        !.at = "streaming", !.heard = "created", !.prompt = S]]
    BY <1>8, <2>1 DEF Load
  <2>3. exchanges' \in [Exchanges -> Exchange]
    BY <2>2, ExchangeParts, Becomes
  <2> QED BY <1>8, <2>3 DEF Load, database
<1>9. ASSUME NEW e \in Exchanges, Delta(e) \/ Completion(e) PROVE TypeOK'
  BY <1>9 DEF Delta, Completion, Exchange, database
<1>10. ASSUME NEW e \in Exchanges, Deliver(e) \/ ProviderFails(e) \/ Abandon(e) PROVE TypeOK'
  <2>1. PICK h \in {"nothing", "created", "completed", "error"} : Ends(e, h)
    BY <1>10 DEF Deliver, ProviderFails, Abandon, Exchange
  <2>2. exchanges' = [exchanges EXCEPT ![e] = [exchanges[e] EXCEPT
          !.at = "done", !.new = None, !.prompt = {}, !.text = "none", !.heard = h]]
    BY <2>1 DEF Ends
  <2>3. exchanges' \in [Exchanges -> Exchange]
    BY <2>2, ExchangeParts, Becomes
  <2> QED BY <1>10, <2>3 DEF Deliver, ProviderFails, Abandon, database
<1>11. ASSUME NEW c \in Conversations, SoftDelete(c) PROVE TypeOK'
  BY <1>11 DEF SoftDelete, Row
<1> QED BY <1>1, <1>3, <1>4, <1>6, <1>7, <1>8, <1>9, <1>10, <1>11 DEF Next

\* Only Load gives a prompt, and tells the client so.
Keeps(x, y) ==
    /\ y.at \in Held => /\ x.at \in Held
                        /\ y.prompt = x.prompt /\ y.conversation = x.conversation
    /\ y.heard = "created" => x.heard = "created"

LEMMA OthersKeep ==
    ASSUME ChatInv, TypeOK, Next, NEW e \in Exchanges, ~Load(e)
    PROVE  Keeps(exchanges[e], exchanges'[e])
<1> USE DEF TypeOK
<1>1. ASSUME NEW f \in Exchanges, NEW c \in Conversations, Find(f, c)
      PROVE  Keeps(exchanges[e], exchanges'[e])
  BY <1>1 DEF Find, Idle, Keeps, Held
<1>2. ASSUME NEW f \in Exchanges, NEW size \in Sizes, NEW target \in Named, Ask(f, size, target)
      PROVE  Keeps(exchanges[e], exchanges'[e])
  BY <1>2 DEF Ask, Drafts, Keeps, Held, Exchange
<1>3. ASSUME NEW f \in Exchanges, NEW size \in Sizes, EndOfStream(f, size)
      PROVE  Keeps(exchanges[e], exchanges'[e])
  BY <1>3 DEF EndOfStream, At, Drafts, Keeps, Held, Exchange
<1>4. ASSUME NEW f \in Exchanges, NEW named \in Named, InsertReply(f, named)
      PROVE  Keeps(exchanges[e], exchanges'[e])
  BY <1>4 DEF InsertReply, At, Keeps, Held, Exchange
<1>5. ASSUME NEW f \in Exchanges,
             \/ InsertQuestion(f) \/ SaveQuestion(f) \/ StoreReply(f)
             \/ Delta(f) \/ Completion(f)
      PROVE  Keeps(exchanges[e], exchanges'[e])
  BY <1>5 DEF InsertQuestion, SaveQuestion, StoreReply, Delta, Completion, At, Keeps, Held, Exchange
<1>6. ASSUME NEW f \in Exchanges, Deliver(f) \/ ProviderFails(f) \/ Abandon(f)
      PROVE  Keeps(exchanges[e], exchanges'[e])
  BY <1>6 DEF Deliver, ProviderFails, Abandon, Ends, Keeps, Held, Exchange
<1>7. ASSUME NEW f \in Exchanges, Load(f) PROVE Keeps(exchanges[e], exchanges'[e])
  BY <1>7 DEF Load, Keeps
<1>8. ASSUME NEW c \in Conversations, SoftDelete(c) PROVE Keeps(exchanges[e], exchanges'[e])
  BY <1>8 DEF SoftDelete, Keeps
<1> QED BY <1>1, <1>2, <1>3, <1>4, <1>5, <1>6, <1>7, <1>8 DEF Next

LEMMA InitPromptInv == Init => PromptInv
<1> SUFFICES ASSUME Init PROVE PromptInv
  OBVIOUS
<1>1. Idle \in Exchange
  BY DEF Idle, Exchange, Steps
<1>2. TypeOK
  BY <1>1 DEF Init, TypeOK, Row
<1>3. IsFiniteSet(messages) /\ PromptHasQuestion
  BY FS_EmptySet DEF Init, PromptHasQuestion, Idle
<1> QED BY <1>2, <1>3 DEF PromptInv

LEMMA NextPromptInv == ChatInv /\ PromptInv /\ [Next]_vars => PromptInv'
<1> SUFFICES ASSUME ChatInv, PromptInv, [Next]_vars PROVE PromptInv'
  OBVIOUS
<1>1. CASE UNCHANGED vars
  BY <1>1 DEF vars, PromptInv, TypeOK, PromptHasQuestion, InConversation
<1>2. CASE Next
  <2>1. TypeOK'
    BY <1>2, TypeKept
  <2>2. messages \subseteq messages' /\ IsFiniteSet(messages)'
    <3>1. \/ messages' = messages
          \/ \E e \in Exchanges : messages' = messages \cup {exchanges[e].new}
      BY <1>2, NextKinds DEF Quiet, Inserts, Commits, SoftDelete, database
    <3> QED BY <3>1, FS_AddElement DEF PromptInv
  <2>3. ASSUME NEW e \in Exchanges, exchanges'[e].at \in Held
        PROVE  /\ \A m \in exchanges'[e].prompt :
                     m \in messages' /\ m.conversation = exchanges'[e].conversation
               /\ exchanges'[e].prompt # {}
               /\ \E q \in messages' :
                    /\ q.exchange = e /\ q.role = "user"
                    /\ q \in exchanges'[e].prompt \/ \A m \in exchanges'[e].prompt : m.id > q.id
    <3>1. CASE Load(e)
      <4> DEFINE H == InConversation(exchanges[e].conversation)
      <4>1. PICK q \in H : /\ exchanges'[e].prompt = Select(H) /\ LongestRecent(Select(H), H)
                           /\ exchanges'[e].conversation = exchanges[e].conversation
                           /\ q.exchange = e /\ q.role = "user" /\ Select(H) # {}
        BY <3>1, LoadSelects
      <4>2. \A m \in H : m \in messages' /\ m.conversation = exchanges'[e].conversation
        BY <2>2, <4>1 DEF InConversation
      <4>3. \A m, n \in H : m.id \in Nat /\ (m.id = n.id => m = n)
        BY DEF InConversation, PromptInv, TypeOK, Message, Ids, ChatInv, OwnIdentity
      <4>4. q \in Select(H) \/ \A m \in Select(H) : m.id > q.id
        <5> HIDE DEF H
        <5> QED BY <4>1, <4>3 DEF LongestRecent
      <4>5. Select(H) \subseteq H
        BY <4>1 DEF LongestRecent
      <4>6. q \in messages'
        BY <2>2 DEF InConversation
      <4> HIDE DEF H
      <4> QED BY <4>1, <4>2, <4>4, <4>5, <4>6
    <3>2. CASE ~Load(e)
      <4>1. /\ exchanges[e].at \in Held /\ exchanges'[e].prompt = exchanges[e].prompt
            /\ exchanges'[e].conversation = exchanges[e].conversation
        BY <1>2, <2>3, <3>2, OthersKeep DEF Keeps, PromptInv
      <4> QED BY <2>2, <4>1 DEF PromptInv, PromptHasQuestion, InConversation, Held
    <3> QED BY <3>1, <3>2
  <2>4. PromptHasQuestion'
    BY <2>3 DEF PromptHasQuestion, Held, InConversation
  <2> QED BY <2>1, <2>2, <2>4 DEF PromptInv
<1> QED BY <1>1, <1>2

LEMMA PromptInvHolds == Spec => []PromptInv
BY InitPromptInv, NextPromptInv, ChatInvHolds, PTL DEF Spec

(***************************************************************************)
(* Every variable holds what the code's annotations say, for any number of *)
(* exchanges and conversations.                                            *)
(***************************************************************************)
THEOREM ChatTypes == Spec => []TypeOK
<1>1. PromptInv => TypeOK
  BY DEF PromptInv
<1> QED BY <1>1, PromptInvHolds, PTL

(***************************************************************************)
(* prepare_message: the model reads messages of the conversation it was    *)
(* asked in, its question among them unless newer ones took all the room,  *)
(* for any sizes and any budget.                                           *)
(***************************************************************************)
THEOREM PromptsHaveTheQuestion == Spec => []PromptHasQuestion
<1>1. PromptInv => PromptHasQuestion
  BY DEF PromptInv
<1> QED BY <1>1, PromptInvHolds, PTL

(***************************************************************************)
(* select_messages: the walk back over the history stops exactly where the *)
(* longest run of newest messages that fits ends, whatever the history.    *)
(***************************************************************************)
THEOREM PromptsAreLongestRecent == Spec => PromptIsLongestRecent
<1> DEFINE Right == \A e \in Exchanges :
                      exchanges[e].heard = "nothing" /\ exchanges'[e].heard = "created" =>
                          LongestRecent(exchanges'[e].prompt,
                                        InConversation(exchanges[e].conversation))
<1>1. ChatInv /\ PromptInv /\ [Next]_vars => [Right]_vars
  <2> SUFFICES ASSUME ChatInv, PromptInv, Next, NEW e \in Exchanges,
                      exchanges[e].heard = "nothing", exchanges'[e].heard = "created"
               PROVE  LongestRecent(exchanges'[e].prompt,
                                    InConversation(exchanges[e].conversation))
    OBVIOUS
  <2>1. Load(e)
    BY OthersKeep DEF Keeps, PromptInv
  <2> QED BY <2>1, LoadSelects
<1> QED BY <1>1, ChatInvHolds, PromptInvHolds, PTL DEF Spec, PromptIsLongestRecent

-------------------------------------------------------------------------------
(* The refinement of Transcript. *)

Told(m) == [id |-> m.id, exchange |-> m.exchange, conversation |-> m.conversation,
            role |-> m.role]
Entries == {Told(m) : m \in messages}
Closed == {c \in Conversations : rows[c].status = "DELETED"}

LEMMA CommitSays ==
    ASSUME ChatInv, NEW e \in Exchanges, Commits(e) PROVE Reader!Next
<1> DEFINE x == exchanges[e]
<1>1. x.at \in {"saving", "storing"} /\ messages' = messages \cup {x.new}
  BY DEF Commits
<1>2. PICK m \in Message :
        /\ m = x.new /\ m.exchange = e /\ m.conversation = x.conversation
        /\ m.role = (IF x.at = "saving" THEN "user" ELSE "assistant")
        /\ \A n \in messages : n.id # m.id
  BY <1>1, CommittedRow DEF Inserted
<1> DEFINE t == Told(m)
<1>3. /\ t.id = m.id /\ t.exchange = e /\ t.conversation = x.conversation /\ t.role = m.role
      /\ t \in Reader!Entry
  BY <1>2 DEF Told, Message, Reader!Entry
<1>4. \A n \in Entries : \E o \in messages :
        n.id = o.id /\ n.exchange = o.exchange /\ n.role = o.role
  BY DEF Entries, Told
<1>5. Entries' = Entries \cup {t}
  BY <1>1, <1>2 DEF Entries
<1>6. \A n \in Entries : n.id # t.id
  BY <1>2, <1>3, <1>4
<1>7. Closed' = Closed
  BY <1>2, BumpFacts DEF Commits, ChatInv, Closed
<1>8. Reader!Says(t)
  BY <1>5, <1>6, <1>7 DEF Reader!Says, Entries, Closed, Told
<1>9. CASE x.at = "saving"
  <2>1. \A n \in Entries : n.exchange # e
    BY <1>4, <1>9 DEF ChatInv, StoredInStep, Unasked
  <2>2. Reader!Ask(t)
    BY <1>2, <1>3, <1>8, <1>9, <2>1 DEF Reader!Ask, Entries, Told
  <2> QED BY <1>3, <1>5, <1>6, <2>2 DEF Reader!Next, Entries, Told
<1>10. CASE x.at = "storing"
  <2>1. PICK q \in messages : Question(e, q) /\ q.id < m.id
    BY <1>2, <1>10 DEF ChatInv, StoredInStep
  <2>2. /\ Told(q) \in Entries /\ Told(q).exchange = e /\ Told(q).role = "user"
        /\ Told(q).conversation = x.conversation /\ Told(q).id < t.id
    BY <1>3, <2>1 DEF Entries, Told, Question
  <2>3. \A n \in Entries : n.exchange = e => n.role = "user"
    BY <1>4, <1>10 DEF ChatInv, StoredInStep, Asked
  <2>4. Reader!Answer(t)
    BY <1>2, <1>3, <1>8, <1>10, <2>2, <2>3 DEF Reader!Answer, Entries, Told
  <2> QED BY <1>3, <1>5, <1>6, <2>4 DEF Reader!Next, Entries, Told
<1> QED BY <1>1, <1>9, <1>10

LEMMA SoftDeleteCloses ==
    ASSUME ChatInv, NEW c \in Conversations, SoftDelete(c) PROVE Reader!Next
<1>1. messages' = messages /\ rows[c].status = "ACTIVE"
  BY DEF SoftDelete
<1>2. /\ rows'[c].status = "DELETED"
      /\ \A d \in Conversations \ {c} : rows'[d].status = rows[d].status
  BY DEF SoftDelete, ChatInv, Typed, Row
<1>3. c \notin Closed /\ Closed' = Closed \cup {c} /\ Entries' = Entries
  BY <1>1, <1>2 DEF Closed, Entries
<1>4. Reader!Close(c) /\ c \in Closed' \ Closed
  BY <1>3 DEF Reader!Close, Closed, Entries, Told
<1> QED BY <1>4 DEF Reader!Next, Closed

LEMMA InitTranscript == Init => Reader!Init
BY DEF Init, Reader!Init

LEMMA NextTranscript == ChatInv /\ [Next]_vars => [Reader!Next]_Reader!vars
<1> SUFFICES ASSUME ChatInv, [Next]_vars PROVE [Reader!Next]_Reader!vars
  OBVIOUS
<1>1. ASSUME UNCHANGED <<messages, rows>> PROVE UNCHANGED Reader!vars
  BY <1>1 DEF Reader!vars
<1> QED BY <1>1, NextKinds, CommitSays, SoftDeleteCloses
        DEF vars, Quiet, Inserts, database

(***************************************************************************)
(* The tables implement the transcript: each exchange says one question,   *)
(* at most one reply follows it in its conversation, nothing is taken back *)
(* and what is deleted stays deleted.                                      *)
(***************************************************************************)
THEOREM TranscriptImplemented == Spec => TranscriptKept
BY InitTranscript, NextTranscript, ChatInvHolds, PTL DEF Spec, TranscriptKept, Reader!Spec
===============================================================================
