-------------------------------- MODULE Catalog --------------------------------
(***************************************************************************)
(* What conversations are made of, and everyone who writes it: characters  *)
(* (backend/app/services/character_service.py), models (model_service.py), *)
(* personas (persona_service.py), the user's default model                 *)
(* (user_service.py) and the conversations themselves                      *)
(* (conversation_service.py), with their repositories.                     *)
(*                                                                         *)
(* An action is what one request does from an await to the next.  Each     *)
(* request has a session of its own: it reads rows, decides, and in its    *)
(* commit writes the columns in which a row it read has become different.  *)
(***************************************************************************)
EXTENDS Naturals, FiniteSets

CONSTANTS
    Users, Admins,                                  \* whose role is ROLE_admin
    Characters, Models, Personas, Conversations,    \* primary keys: the bounds on rows
    Requests,                                       \* the bound on requests
    ModelNames, Places,                             \* MODEL_NAME; provider and endpoint
    Tables,                                         \* the tables there may be at first
    None                                            \* NULL

ASSUME CatalogConstants ==
    /\ Models \subseteq Nat /\ Admins \subseteq Users
    /\ None \notin Models \cup Personas

VARIABLES
    db,        \* the tables
    requests,
    outlived   \* the conversations there were when a persona, since deleted, was detached

vars == <<db, requests, outlived>>

\* "NONE": no row yet, "ERASED": no longer.  A model is "DELETED" while ACTIVE = 0.
Live == {"ACTIVE", "DELETED"}
Status == Live \cup {"NONE", "ERASED"}
Texts == {"given", "edited"}    \* what else a row says

Character == [owner : Users \cup {None}, text : Texts, status : Status]
Model == [name : ModelNames \cup {None}, place : Places \cup {None}, status : Status]
Persona == [user : Users \cup {None}, text : Texts, status : Status]
Conversation == [user : Users \cup {None}, character : Characters \cup {None},
                 model : Models \cup {None}, persona : Personas \cup {None},
                 text : Texts, status : Status]
User == [model : Models \cup {None}]    \* DEFAULT_MODEL_ID

Keys == [character |-> Characters, model |-> Models, persona |-> Personas,
         conversation |-> Conversations, user |-> Users]
Rows == [character |-> Character, model |-> Model, persona |-> Persona,
         conversation |-> Conversation, user |-> User]

\* At first no offer is there twice, and a conversation has no persona or its user's.
ASSUME TablesLegal ==
    \A start \in Tables :
        /\ start = [t \in DOMAIN Keys |-> start[t]]
        /\ \A t \in DOMAIN Keys : start[t] \in [Keys[t] -> Rows[t]]
        /\ \A m, n \in Models :
             m # n /\ start.model[m].status \in Live /\ start.model[n].status \in Live
               => start.model[m].name # start.model[n].name \/ start.model[m].place # start.model[n].place
        /\ \A k \in Conversations : start.conversation[k].persona # None =>
             LET persona == start.persona[start.conversation[k].persona]
             IN  persona.user = start.conversation[k].user /\ persona.status = "ACTIVE"

Existing(t) == {k \in Keys[t] : db[t][k].status \in Live}
Active(t, k) == db[t][k].status = "ACTIVE"

\* seen, want: a row as this request has it and as it is to be; model: one to look up.
Fresh == [at |-> "new", user |-> None, table |-> "user", key |-> None, seen |-> <<>>,
          want |-> <<>>, model |-> None, linked |-> {}, there |-> {}]
Done == [Fresh EXCEPT !.at = "done"]
Enters(r, q) == requests[r] = Fresh /\ requests' = [requests EXCEPT ![r] = q]
Resumes(r, from, q) == requests[r].at = from /\ requests' = [requests EXCEPT ![r] = q]
Ends(r, from) == Resumes(r, from, Done)

\* A row to be inserted, and a row that was read to be changed.
Adds(u, at, t, row) == [Fresh EXCEPT !.at = at, !.user = u, !.table = t, !.want = row]
Edits(u, at, t, k, row) ==
    [Fresh EXCEPT !.at = at, !.user = u, !.table = t, !.key = k, !.seen = db[t][k], !.want = row]

-------------------------------------------------------------------------------
\* Characters.

\* get_visible: built-in ones and one's own, while they are active.
Visible(c, u) == Active("character", c) /\ db.character[c].owner \in {None, u}
Readable(c, u) == IF u \in Admins THEN c \in Existing("character") ELSE Visible(c, u)
Writable(c, u) == Readable(c, u) /\ (u \in Admins \/ db.character[c].owner = u)

\* _reject_admin_fields: owner_user_id and status are an administrator's to set.
Settable(u, values, own) == IF u \in Admins THEN values ELSE {own}

CreateCharacter(r, u) ==
    /\ \E o \in Settable(u, Users \cup {None}, u), s \in Settable(u, Live, "ACTIVE") :
         Enters(r, Adds(u, "adding", "character",
                        [owner |-> o, text |-> "given", status |-> s]))
    /\ UNCHANGED <<db, outlived>>
UpdateCharacter(r, u, c) ==
    LET row == db.character[c]
    IN  /\ Writable(c, u)
        /\ \E t \in Texts, o \in Settable(u, Users \cup {None}, row.owner),
              s \in Settable(u, Live, row.status) :
             Enters(r, Edits(u, "saving", "character", c,
                             [owner |-> o, text |-> t, status |-> s]))
        /\ UNCHANGED <<db, outlived>>
DeleteCharacter(r, u, c) ==
    /\ Writable(c, u)
    /\ Enters(r, Edits(u, "saving", "character", c,
                       [db.character[c] EXCEPT !.status = "DELETED"]))
    /\ UNCHANGED <<db, outlived>>

-------------------------------------------------------------------------------
\* Models, behind require_admin.

Duplicate(row, k) ==
    \E m \in Existing("model") \ {k} : db.model[m].name = row.name /\ db.model[m].place = row.place

\* create looks for a duplicate once its references have been looked up.
CreateModel(r, u) ==
    /\ u \in Admins
    /\ \E n \in ModelNames, p \in Places, s \in Live :
         Enters(r, Adds(u, "checking", "model", [name |-> n, place |-> p, status |-> s]))
    /\ UNCHANGED <<db, outlived>>
UpdateModel(r, u, m) ==
    /\ u \in Admins /\ m \in Existing("model")
    /\ \E n \in ModelNames, p \in Places, s \in Live :
         Enters(r, Edits(u, "checking", "model", m, [name |-> n, place |-> p, status |-> s]))
    /\ UNCHANGED <<db, outlived>>
\* _check_unique, against the row as this request has it; a model that was deactivated
\* counts.
\* Mutant: only the models on offer do.
CheckUniqueActive(r) ==
    LET q == requests[r]
        next == IF q.key = None THEN "adding" ELSE "saving"
        taken == \E m \in Models \ {q.key} : /\ Active("model", m)
                                             /\ db.model[m].name = q.want.name
                                             /\ db.model[m].place = q.want.place
    IN  /\ Resumes(r, "checking", IF taken THEN Done ELSE [q EXCEPT !.at = next])
        /\ UNCHANGED <<db, outlived>>
CheckUnique(r) ==
    LET q == requests[r]
        next == IF q.key = None THEN "adding" ELSE "saving"
    IN  /\ Resumes(r, "checking", IF Duplicate(q.want, q.key) THEN Done
                                  ELSE [q EXCEPT !.at = next])
        /\ UNCHANGED <<db, outlived>>
Deactivate(r, u, m) ==
    /\ u \in Admins /\ m \in Existing("model")
    /\ Enters(r, Edits(u, "saving", "model", m, [db.model[m] EXCEPT !.status = "DELETED"]))
    /\ UNCHANGED <<db, outlived>>

\* update_profile: a model that is active may become the user's default.
ChooseDefault(r, u, m) ==
    /\ Enters(r, [Edits(u, "choosing", "user", u, [model |-> m]) EXCEPT !.model = m])
    /\ UNCHANGED <<db, outlived>>
CheckDefault(r) ==
    LET q == requests[r]
    IN  /\ q.at = "choosing"
        /\ Resumes(r, "choosing", IF Active("model", q.model) THEN [q EXCEPT !.at = "saving"]
                                  ELSE Done)
        /\ UNCHANGED <<db, outlived>>

-------------------------------------------------------------------------------
\* Personas: every operation is scoped to its owner, administrators included.

Owned(p, u) == Active("persona", p) /\ db.persona[p].user = u

CreatePersona(r, u) ==
    /\ Enters(r, Adds(u, "adding", "persona", [user |-> u, text |-> "given", status |-> "ACTIVE"]))
    /\ UNCHANGED <<db, outlived>>
UpdatePersona(r, u, p) ==
    /\ Owned(p, u)
    /\ Enters(r, Edits(u, "saving", "persona", p, [db.persona[p] EXCEPT !.text = "edited"]))
    /\ UNCHANGED <<db, outlived>>
DeletePersona(r, u, p) ==
    /\ Owned(p, u)
    /\ Enters(r, Edits(u, "detaching", "persona", p, [db.persona[p] EXCEPT !.status = "ERASED"]))
    /\ UNCHANGED <<db, outlived>>

\* Mutant: only the conversations that still show.
LinkedActive(p) ==
    {k \in Existing("conversation") : db.conversation[k].persona = p /\ Active("conversation", k)}
Linked(p) == {k \in Existing("conversation") : db.conversation[k].persona = p}

\* detach_from_conversations: the UPDATE sees the rows there are, and until the commit
\* nobody sees what it did.
Detach(r) ==
    LET q == requests[r]
    IN  /\ q.at = "detaching"
        /\ Resumes(r, "detaching", [q EXCEPT !.at = "erasing", !.linked = Linked(q.key),
                                             !.there = Existing("conversation")])
        /\ UNCHANGED <<db, outlived>>
\* The DELETE, and the commit of both.
Erase(r) ==
    LET q == requests[r]
    IN  /\ Ends(r, "erasing")
        /\ db' = [db EXCEPT !.persona[q.key].status = "ERASED",
                            !.conversation = [k \in Conversations |->
                                IF k \in q.linked THEN [@[k] EXCEPT !.persona = None] ELSE @[k]]]
        /\ outlived' = [outlived EXCEPT ![q.key] = @ \cup q.there]

-------------------------------------------------------------------------------
\* Conversations.

\* create: the character, the model (m, the user's default, the first active one) and
\* the persona are looked up one after the other, then the row goes in.
StartConversation(r, u, c, m, p) ==
    /\ Visible(c, u)
    /\ Enters(r, [Adds(u, IF m = None THEN "defaulting" ELSE "explicit", "conversation",
                       [user |-> u, character |-> c, model |-> None, persona |-> p,
                        text |-> "given", status |-> "ACTIVE"])
                    EXCEPT !.model = m])
    /\ UNCHANGED <<db, outlived>>

Picks(q, m) == [q EXCEPT !.at = IF q.want.persona = None THEN "adding" ELSE "posing",
                         !.model = None, !.want.model = m]
ResolveExplicit(r) ==
    LET q == requests[r]
    IN  /\ q.at = "explicit"
        /\ Resumes(r, "explicit", IF Active("model", q.model) THEN Picks(q, q.model) ELSE Done)
        /\ UNCHANGED <<db, outlived>>
ReadDefault(r) ==
    LET q == requests[r]
        m == db.user[q.user].model
    IN  /\ q.at = "defaulting"
        /\ Resumes(r, "defaulting", IF m = None THEN [q EXCEPT !.at = "first"]
                                    ELSE [q EXCEPT !.at = "default", !.model = m])
        /\ UNCHANGED <<db, outlived>>
ResolveDefault(r) ==
    LET q == requests[r]
    IN  /\ q.at = "default"
        /\ Resumes(r, "default", IF Active("model", q.model) THEN Picks(q, q.model)
                                 ELSE [q EXCEPT !.at = "first", !.model = None])
        /\ UNCHANGED <<db, outlived>>
\* first_active, or 503.
ResolveFirst(r) ==
    LET offered == {m \in Models : Active("model", m)}
    IN  /\ IF offered = {} THEN Ends(r, "first")
           ELSE \E m \in offered : (\A n \in offered : m <= n)
                                    /\ Resumes(r, "first", Picks(requests[r], m))
        /\ UNCHANGED <<db, outlived>>
VerifyPersona(r) ==
    LET q == requests[r]
    IN  /\ q.at = "posing"
        /\ Resumes(r, "posing", IF Owned(q.want.persona, q.user) THEN [q EXCEPT !.at = "adding"]
                                ELSE Done)
        /\ UNCHANGED <<db, outlived>>

\* get_active_for_user
Opens(k, u) == Active("conversation", k) /\ db.conversation[k].user = u
RenameConversation(r, u, k) ==
    /\ Opens(k, u)
    /\ Enters(r, Edits(u, "saving", "conversation", k,
                       [db.conversation[k] EXCEPT !.text = "edited"]))
    /\ UNCHANGED <<db, outlived>>
DeleteConversation(r, u, k) ==
    /\ Opens(k, u)
    /\ Enters(r, Edits(u, "saving", "conversation", k,
                       [db.conversation[k] EXCEPT !.status = "DELETED"]))
    /\ UNCHANGED <<db, outlived>>

-------------------------------------------------------------------------------
\* The commits.

\* UK_AI_MODELS_PROVIDER_ID_MODEL_NAME holds of what is written; a row that is gone
\* cannot be.
Fits(q, row) ==
    /\ q.table = "model" => ~Duplicate(row, q.key)
    /\ q.table = "persona" => row.status # "ERASED"

\* Mutant: all of the row.
WholeRow(row, q) == q.want
\* Only the columns that differ from what was read.
Merged(row, q) == [c \in DOMAIN row |-> IF q.want[c] # q.seen[c] THEN q.want[c] ELSE row[c]]

\* Each add; CONVERSATIONS.USER_PERSONA_ID has no constraint.
Insert(r) ==
    LET q == requests[r]
        free == {k \in Keys[q.table] : db[q.table][k].status = "NONE"}
    IN  /\ q.at = "adding" /\ Fits(q, q.want) /\ free # {}
        /\ Ends(r, "adding")
        /\ db' = [db EXCEPT ![q.table][CHOOSE k \in free : TRUE] = q.want]
        /\ UNCHANGED outlived
Save(r) ==
    LET q == requests[r]
        row == Merged(db[q.table][q.key], q)
    IN  /\ q.at = "saving" /\ Fits(q, row)
        /\ Ends(r, "saving")
        /\ db' = [db EXCEPT ![q.table][q.key] = row]
        /\ UNCHANGED outlived

\* A lost race, a failing database, a refusal: the session rolls back what it did.
Fail(r) ==
    /\ requests[r].at # "done"
    /\ requests' = [requests EXCEPT ![r] = Done]
    /\ UNCHANGED <<db, outlived>>

\* Every request of the bound has had its answer.
Over == (\A r \in Requests : requests[r] = Done) /\ UNCHANGED vars

Init ==
    /\ db \in Tables
    /\ requests = [r \in Requests |-> Fresh]
    /\ outlived = [p \in Personas |-> {}]

Next ==
    \/ \E r \in Requests :
         \/ \E u \in Users :
              \/ CreateCharacter(r, u) \/ CreateModel(r, u) \/ CreatePersona(r, u)
              \/ \E c \in Characters :
                   \/ UpdateCharacter(r, u, c) \/ DeleteCharacter(r, u, c)
                   \/ \E m \in Models \cup {None}, p \in Personas \cup {None} :
                        StartConversation(r, u, c, m, p)
              \/ \E m \in Models :
                   UpdateModel(r, u, m) \/ Deactivate(r, u, m) \/ ChooseDefault(r, u, m)
              \/ \E p \in Personas : UpdatePersona(r, u, p) \/ DeletePersona(r, u, p)
              \/ \E k \in Conversations :
                   RenameConversation(r, u, k) \/ DeleteConversation(r, u, k)
         \/ CheckUnique(r) \/ CheckDefault(r) \/ Detach(r) \/ Erase(r)
         \/ ResolveExplicit(r) \/ ReadDefault(r) \/ ResolveDefault(r) \/ ResolveFirst(r)
         \/ VerifyPersona(r) \/ Insert(r) \/ Save(r) \/ Fail(r)
    \/ Over

Spec == Init /\ [][Next]_vars

-------------------------------------------------------------------------------
\* What a request's commit would write, as the tables are, and whether the constraint on
\* models would refuse it.
Written(q) == IF q.key = None THEN q.want ELSE Merged(db[q.table][q.key], q)
Clashes(r) ==
    LET q == requests[r]
    IN  q.table = "model" /\ q.at \in {"adding", "saving"} /\ ~Fits(q, Written(q))

\* model_service.py, _check_unique answers 409 "A model with this provider, name and
\* endpoint already exists"; a commit the constraint refuses is an uncaught 500.  Past its
\* check (deactivate makes none and needs none) a change comes to clash only when another
\* one of a model is written before it, or when the row it is about was changed after it
\* was read, so that what it checked is not what its commit would write.
ClashOnlyByRace ==
    [][\A r \in Requests : ~Clashes(r) /\ Clashes(r)' =>
          \/ \E s \in Requests \ {r} :
                requests[s].table = "model" /\ (Insert(s) \/ Save(s))
          \/ CheckUnique(r) /\ Written(requests[r]) # requests[r].want]_vars

\* persona_service.py: "a foreign persona id is indistinguishable from a nonexistent
\* one", and conversations using a deleted persona "fall back to no persona".  What a
\* conversation names is its own user's, or it was stored after the deletion had looked
\* for conversations to detach.
PersonasInPlace ==
    \A k \in Existing("conversation") :
        LET row == db.conversation[k]
        IN  row.persona # None =>
              /\ db.persona[row.persona].user = row.user
              /\ db.persona[row.persona].status = "ERASED" => k \notin outlived[row.persona]

\* Which request, of whom, asks for a column to be what it is not.
AskedFor(t, k, c, v) ==
    \E r \in Requests : LET q == requests[r] IN
        q.at = "saving" /\ q.table = t /\ q.key = k /\ q.user \in Admins
          /\ q.seen[c] # v /\ q.want[c] = v

\* What a step leaves as it was.
Sticks ==
    /\ \A k \in Existing("conversation") :
         /\ ~Active("conversation", k) => db'.conversation[k].status = "DELETED"
         /\ db.conversation[k].persona = None => db'.conversation[k].persona = None
    /\ \A t \in {"character", "model"} : \A k \in Existing(t) :
         db[t][k].status = "DELETED" /\ db'[t][k].status = "ACTIVE"
           => AskedFor(t, k, "status", "ACTIVE")
    /\ \A c \in Existing("character") :
         db'.character[c].owner # db.character[c].owner
           => AskedFor("character", c, "owner", db'.character[c].owner)
    /\ \A p \in Personas : db.persona[p].status = "ERASED" => db'.persona[p] = db.persona[p]

\* character_service.py, conversation_service.py, model_service.py: what was deleted or
\* detached stays so, and a character stays whose it is, under any other change that was
\* read before; only an administrator who saw it otherwise and asks for it changes that.
DeletionsStick == [][Sticks]_vars
===============================================================================
