------------------------------ MODULE ChatStream ------------------------------
(***************************************************************************)
(* One message and its streamed reply: backend/app/services/ai_service.py, *)
(* with the part of ai/context.py that picks the history the model sees.   *)
(* An exchange is one POST; its handler holds no database session while    *)
(* the provider streams, so exchanges of one conversation, and its         *)
(* deletion, interleave at every await, and "at" names the await an        *)
(* exchange is suspended in.                                               *)
(*                                                                         *)
(* A row becomes visible when its transaction commits; until then it lives *)
(* in the exchange that writes it.  An identity is handed out when the row *)
(* is flushed and is not handed out again if the transaction rolls back.   *)
(***************************************************************************)
EXTENDS Integers, FiniteSetsExt

CONSTANTS
    Exchanges,       \* bound: the messages the users ever send
    Conversations,
    Sizes,           \* characters a message may have
    None,            \* no conversation yet, no reply target
    CharsPerToken,   \* CHARS_PER_TOKEN
    CharBudget,      \* context_window * CHARS_PER_TOKEN, or ai_default_context_chars
    MaxMessages      \* ai_context_max_messages

ASSUME ChatConstants ==
    /\ None \notin Nat \cup Conversations
    /\ Sizes \subseteq Nat \ {0}
    /\ {CharsPerToken, CharBudget, MaxMessages} \subseteq Nat \ {0}

VARIABLES
    messages,     \* MESSAGES, committed
    generations,  \* MESSAGE_GENERATIONS: the replies they are about
    rows,         \* CONVERSATIONS: STATUS and LAST_MESSAGE_AT
    exchanges,    \* the handlers
    lastId,       \* the identity handed out last
    clock         \* how often utcnow() was read: no two readings are equal

vars == <<messages, generations, rows, exchanges, lastId, clock>>
database == <<messages, generations, rows>>

Ids == Nat \ {0}
Times == Nat \ {0}
Never == 0   \* LAST_MESSAGE_AT is NULL

Message == [id : Ids, conversation : Conversations, role : {"user", "assistant"},
            size : Sizes, created : Times, replyTo : Ids \cup {None}, exchange : Exchanges]
Row == [status : {"ACTIVE", "DELETED"}, last : Times \cup {Never}]

\* new: the row being written, without its identity until the INSERT is through.
\* prompt: what the model was given to read.  text: how much of its reply has
\* arrived.  heard: what the client was told last.
Steps == {"idle", "found", "asking", "saving", "loading", "streaming", "answering",
          "storing", "stored", "done"}
Draft == [id : Ids \cup {None}, conversation : Conversations, role : {"user", "assistant"},
          size : Sizes, created : Times, replyTo : Ids \cup {None}, exchange : Exchanges]
Exchange == [at : Steps, conversation : Conversations \cup {None},
             new : Draft \cup {None}, prompt : SUBSET Message,
             text : {"none", "part", "whole"},
             heard : {"nothing", "created", "completed", "error"}]
Idle == [at |-> "idle", conversation |-> None, new |-> None, prompt |-> {},
         text |-> "none", heard |-> "nothing"]

InConversation(c) == {m \in messages : m.conversation = c}
At(e, step) == exchanges[e].at = step
\* A handler that ends drops what it held.
Ends(e, heard) ==
    exchanges' = [exchanges EXCEPT
      ![e].at = "done", ![e].new = None, ![e].prompt = {}, ![e].text = "none",
      ![e].heard = heard]

-------------------------------------------------------------------------------
\* ai/context.py: the history that fits.

\* estimate_tokens
Cost(m) == IF m.size < CharsPerToken THEN 1 ELSE m.size \div CharsPerToken

\* select_messages walks back from the newest message and stops at the first that
\* does not fit; the newest always does.  The budget counts characters, the cost
\* tokens.
Fits(s, m) ==
    /\ Cardinality(s.taken) < MaxMessages
    /\ s.taken = {} \/ s.used + Cost(m) <= CharBudget
\* The walk meets the messages in the reverse of the order of their ids.
\* Mutant: it meets them in that order.
Oldest(S) == CHOOSE m \in S : \A n \in S : m.id <= n.id
Newest(S) ==
    CHOOSE m \in S : \A n \in S : n.id <= m.id
Take(s, m) == [taken |-> s.taken \cup {m}, used |-> s.used + Cost(m)]
\* A message that did not fit does not fit later: the walk has stopped.
Walk(history, s) ==
    LET left == history \ s.taken
    IN  IF left # {} /\ Fits(s, Newest(left)) THEN Take(s, Newest(left)) ELSE s
Select(history) ==
    LET w[n \in 0 .. Cardinality(history)] ==
          IF n = 0 THEN [taken |-> {}, used |-> 0] ELSE Walk(history, w[n - 1])
    IN  w[Cardinality(history)].taken

-------------------------------------------------------------------------------
\* prepare_message, first session: the question is stored.

\* The conversation is there and active.
Find(e, c) ==
    /\ At(e, "idle")
    /\ rows[c].status = "ACTIVE"
    /\ exchanges' = [exchanges EXCEPT ![e] = [Idle EXCEPT !.at = "found", !.conversation = c]]
    /\ UNCHANGED <<database, lastId, clock>>

\* A row to insert, dated now, and the handler waiting at "to".
Drafts(e, role, size, target, to) ==
    /\ exchanges' = [exchanges EXCEPT
         ![e].at = to,
         ![e].new = [id |-> None, conversation |-> exchanges[e].conversation, role |-> role,
                     size |-> size, created |-> clock + 1, replyTo |-> target, exchange |-> e]]
    /\ clock' = clock + 1

Quotable(c, target) == \E m \in InConversation(c) : m.id = target

\* The message quoted, if any, is one of this conversation.
Ask(e, size, target) ==
    /\ At(e, "found")
    /\ target = None \/ Quotable(exchanges[e].conversation, target)
    /\ Drafts(e, "user", size, target, "asking")
    /\ UNCHANGED <<database, lastId>>

\* The INSERT gives the row its identity.
\* Mutant: the row is added and the INSERT left to the commit.
InsertQuestionLater(e) ==
    /\ At(e, "asking")
    /\ exchanges' = [exchanges EXCEPT ![e].at = "saving"]
    /\ UNCHANGED <<database, lastId, clock>>
InsertQuestion(e) ==
    /\ At(e, "asking")
    /\ exchanges' = [exchanges EXCEPT ![e].at = "saving", ![e].new.id = lastId + 1]
    /\ lastId' = lastId + 1
    /\ UNCHANGED <<database, clock>>

\* An UPDATE names the columns that changed, so the status the handler read when
\* it began is not written back.
\* Mutant: the whole row is written, with the status as it was read.
BumpWholeRow(m) ==
    rows' = [rows EXCEPT ![m.conversation] = [status |-> "ACTIVE", last |-> m.created]]
\* Mutant: LAST_MESSAGE_AT is dated anew at the commit.
BumpAtCommit(m) ==
    rows' = [rows EXCEPT ![m.conversation].last = clock]
Bump(m) ==
    rows' = [rows EXCEPT ![m.conversation].last = m.created]

\* The commit of the question and of LAST_MESSAGE_AT.
\* Mutant: the transaction is left open.
SaveQuestionUncommitted(e) ==
    /\ At(e, "saving")
    /\ exchanges' = [exchanges EXCEPT ![e].at = "loading", ![e].new = None]
    /\ UNCHANGED <<database, lastId, clock>>
SaveQuestion(e) ==
    /\ At(e, "saving")
    /\ messages' = messages \cup {exchanges[e].new}
    /\ Bump(exchanges[e].new)
    /\ exchanges' = [exchanges EXCEPT ![e].at = "loading", ![e].new = None]
    /\ UNCHANGED <<generations, lastId, clock>>

\* Second session: the history is read as it is now, the context is built, and the
\* response starts.
Load(e) ==
    /\ At(e, "loading")
    /\ exchanges' = [exchanges EXCEPT
         ![e].at = "streaming", ![e].heard = "created",
         ![e].prompt = Select(InConversation(exchanges[e].conversation))]
    /\ UNCHANGED <<database, lastId, clock>>

-------------------------------------------------------------------------------
\* stream_response: what the provider sends, and the reply stored at its end.

Delta(e) ==
    /\ At(e, "streaming") /\ exchanges[e].text = "none"
    /\ exchanges' = [exchanges EXCEPT ![e].text = "part"]
    /\ UNCHANGED <<database, lastId, clock>>

Completion(e) ==
    /\ At(e, "streaming") /\ exchanges[e].text # "whole"
    /\ exchanges' = [exchanges EXCEPT ![e].text = "whole"]
    /\ UNCHANGED <<database, lastId, clock>>

\* The stream is over: what it said is parsed, and the reply dated.
\* Mutant: what has arrived is stored, completed or not.
EndOfStreamPartial(e, size) ==
    /\ At(e, "streaming") /\ exchanges[e].text # "none"
    /\ Drafts(e, "assistant", size, None, "answering")
    /\ UNCHANGED <<database, lastId>>
EndOfStream(e, size) ==
    /\ At(e, "streaming") /\ exchanges[e].text = "whole"
    /\ Drafts(e, "assistant", size, None, "answering")
    /\ UNCHANGED <<database, lastId>>

\* The model may name any id as the message it answers; one that is not in the
\* conversation degrades to a plain reply.
\* Mutant: the reply goes wherever the model said.
TargetUnchecked(c, named) == named
Target(c, named) ==
    IF Quotable(c, named) THEN named ELSE None
InsertReply(e, named) ==
    /\ At(e, "answering")
    /\ exchanges' = [exchanges EXCEPT
         ![e].at = "storing", ![e].new.id = lastId + 1,
         ![e].new.replyTo = Target(exchanges[e].conversation, named)]
    /\ lastId' = lastId + 1
    /\ UNCHANGED <<database, clock>>

\* The commit of the reply, its telemetry and LAST_MESSAGE_AT.
\* Mutant: the telemetry has a transaction of its own.
StoreReplyWithoutTelemetry(e) ==
    /\ At(e, "storing")
    /\ messages' = messages \cup {exchanges[e].new}
    /\ Bump(exchanges[e].new)
    /\ exchanges' = [exchanges EXCEPT ![e].at = "stored", ![e].new = None]
    /\ UNCHANGED <<generations, lastId, clock>>
StoreReply(e) ==
    /\ At(e, "storing")
    /\ messages' = messages \cup {exchanges[e].new}
    /\ generations' = generations \cup {exchanges[e].new.id}
    /\ Bump(exchanges[e].new)
    /\ exchanges' = [exchanges EXCEPT ![e].at = "stored", ![e].new = None]
    /\ UNCHANGED <<lastId, clock>>

Deliver(e) ==
    /\ At(e, "stored")
    /\ Ends(e, "completed")
    /\ UNCHANGED <<database, lastId, clock>>

\* The provider failed, or its stream ended before the reply did.
ProviderFails(e) ==
    /\ At(e, "streaming")
    /\ Ends(e, "error")
    /\ UNCHANGED <<database, lastId, clock>>

\* The database or the configuration fails a handler, or the client of a response
\* that has started goes away: an open transaction rolls back.
Abandon(e) ==
    /\ exchanges[e].at \notin {"idle", "done"}
    /\ Ends(e, exchanges[e].heard)
    /\ UNCHANGED <<database, lastId, clock>>

\* ConversationService.soft_delete
SoftDelete(c) ==
    /\ rows[c].status = "ACTIVE"
    /\ rows' = [rows EXCEPT ![c].status = "DELETED"]
    /\ UNCHANGED <<messages, generations, exchanges, lastId, clock>>

Init ==
    /\ messages = {} /\ generations = {}
    /\ rows = [c \in Conversations |-> [status |-> "ACTIVE", last |-> Never]]
    /\ exchanges = [e \in Exchanges |-> Idle]
    /\ lastId = 0 /\ clock = 0

\* What a client or the model may name: an id handed out, the next one, or none.
Named == 1 .. lastId + 1 \cup {None}

Next ==
    \/ \E e \in Exchanges :
         \/ \E c \in Conversations : Find(e, c)
         \/ \E size \in Sizes, target \in Named : Ask(e, size, target)
         \/ \E size \in Sizes : EndOfStream(e, size)
         \/ \E named \in Named : InsertReply(e, named)
         \/ InsertQuestion(e) \/ SaveQuestion(e) \/ Load(e)
         \/ Delta(e) \/ Completion(e)
         \/ StoreReply(e) \/ Deliver(e)
         \/ ProviderFails(e) \/ Abandon(e)
    \/ \E c \in Conversations : SoftDelete(c)

Spec == Init /\ [][Next]_vars

-------------------------------------------------------------------------------
\* Every variable holds what the code's type annotations say.
TypeOK ==
    /\ messages \subseteq Message /\ generations \subseteq Ids
    /\ rows \in [Conversations -> Row]
    /\ exchanges \in [Exchanges -> Exchange]
    /\ lastId \in Nat /\ clock \in Nat

Replies == {m \in messages : m.role = "assistant"}

\* stream_response: a client that was told of its question, or of the reply, finds it
\* stored, whoever failed or deleted the conversation meanwhile.
ToldIsStored ==
    \A e \in Exchanges :
        /\ exchanges[e].heard = "completed" => \E m \in Replies : m.exchange = e
        /\ exchanges[e].heard # "nothing" => \E m \in messages \ Replies : m.exchange = e

\* _persist_assistant_message: replies and their telemetry rows go together.
TelemetryPerReply == generations = {m.id : m \in Replies}

\* prepare_message and _persist_assistant_message: a message quotes only what came
\* before it in its own conversation, whatever id the client or the model sent.
QuotesStayInside ==
    \A m \in messages : m.replyTo # None =>
        \E n \in InConversation(m.conversation) : n.id = m.replyTo /\ n.id < m.id

\* prepare_message: the model reads messages of its conversation, the question
\* among them unless newer messages of other exchanges took all the room.
PromptHasQuestion ==
    \A e \in Exchanges : exchanges[e].at \in {"streaming", "answering", "storing", "stored"} =>
        /\ exchanges[e].prompt \subseteq InConversation(exchanges[e].conversation)
        /\ exchanges[e].prompt # {}
        /\ \E q \in messages :
             /\ q.exchange = e /\ q.role = "user"
             /\ q \in exchanges[e].prompt \/ \A m \in exchanges[e].prompt : m.id > q.id

\* LAST_MESSAGE_AT is the time of a message that is there, or NULL when none is: a
\* rolled back message leaves no trace in it.
LastIsAMessage ==
    \A c \in Conversations :
        IF rows[c].last = Never THEN InConversation(c) = {}
        ELSE \E m \in InConversation(c) : m.created = rows[c].last

\* select_messages picks the longest run of newest messages that fits: all newer
\* ones are in, and the next older one would not fit any more.
Total(S) == FoldSet(LAMBDA m, sum : Cost(m) + sum, 0, S)
Fitting(S) ==
    /\ Cardinality(S) <= MaxMessages
    /\ Cardinality(S) <= 1 \/ Total(S) <= CharBudget
LongestRecent(S, history) ==
    /\ S \subseteq history /\ Fitting(S)
    /\ \A m \in S, n \in history : n.id > m.id => n \in S
    /\ \A n \in history \ S : (\A m \in history \ S : m.id <= n.id) => ~Fitting(S \cup {n})
PromptIsLongestRecent ==
    [][\A e \in Exchanges :
          exchanges[e].heard = "nothing" /\ exchanges'[e].heard = "created" =>
              LongestRecent(exchanges'[e].prompt,
                            InConversation(exchanges[e].conversation))]_vars

\* stream_response: nothing partial is stored.  A reply comes in only from an exchange
\* whose provider has completed it, never from one that failed or was cut off.
NothingPartial ==
    [][\A m \in messages' \ messages :
          m.role = "assistant" => exchanges[m.exchange].text = "whole"]_vars

\* The promise to the reader: one question and at most one reply per exchange, nothing
\* taken back, and a deleted conversation never active again, whatever an exchange
\* that began before it writes afterwards.
Reader == INSTANCE Transcript WITH
    entries <- {[id |-> m.id, exchange |-> m.exchange, conversation |-> m.conversation,
                 role |-> m.role] : m \in messages},
    closed <- {c \in Conversations : rows[c].status = "DELETED"}
TranscriptKept == Reader!Spec

\* backend/docs/database.md, line 177: LAST_MESSAGE_AT is "Bumped by the app on every
\* message".  It is never older than a message of its conversation.
LastIsNewest ==
    \A m \in messages : rows[m.conversation].last >= m.created

\* backend/README.md, lines 495-496: the history is "the most recent messages that
\* fit a token budget (context_window x 4 chars ...)".  More than one message never
\* takes more characters than that.
HistoryWithinChars ==
    \A e \in Exchanges :
        LET S == exchanges[e].prompt
        IN  Cardinality(S) <= 1
              \/ FoldSet(LAMBDA m, sum : m.size + sum, 0, S) <= CharBudget
===============================================================================
