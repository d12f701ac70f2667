------------------------------ MODULE Transcript ------------------------------
(***************************************************************************)
(* What a conversation's reader may rely on (backend/README.md, "AI        *)
(* streaming"): messages are only ever added, each exchange says one       *)
(* question, at most one reply follows it, later and in the same           *)
(* conversation, and a deleted conversation stays deleted.                 *)
(* ChatStream implements this.                                             *)
(***************************************************************************)
EXTENDS Integers

CONSTANTS Exchanges, Conversations,
          Ids   \* what the identity column may hand out, in order

VARIABLES
    entries,  \* the messages, as what identifies them
    closed    \* conversations that were deleted

vars == <<entries, closed>>

Entry == [id : Ids, exchange : Exchanges, conversation : Conversations,
          role : {"user", "assistant"}]

\* A message is added under an identity no other has.
Says(m) ==
    /\ \A n \in entries : n.id # m.id
    /\ entries' = entries \cup {m}
    /\ UNCHANGED closed

Ask(m) ==
    /\ m.role = "user"
    /\ \A n \in entries : n.exchange # m.exchange
    /\ Says(m)

Answer(m) ==
    /\ m.role = "assistant"
    /\ \E question \in entries :
         /\ question.exchange = m.exchange /\ question.role = "user"
         /\ question.conversation = m.conversation /\ question.id < m.id
    /\ \A n \in entries : n.exchange = m.exchange => n.role = "user"
    /\ Says(m)

Close(c) ==
    /\ closed' = closed \cup {c}
    /\ UNCHANGED entries

Init == entries = {} /\ closed = {}

Next ==
    \/ \E m \in entries' \ entries : m \in Entry /\ (Ask(m) \/ Answer(m))
    \/ \E c \in closed' \ closed : c \in Conversations /\ Close(c)

Spec == Init /\ [][Next]_vars
===============================================================================
