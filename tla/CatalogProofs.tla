----------------------------- MODULE CatalogProofs ------------------------------
(***************************************************************************)
(* What the checks of Catalog's services and the columns their commits     *)
(* write add up to, for every number of users, rows and requests.          *)
(***************************************************************************)
EXTENDS Catalog, TLAPS

Names == {"character", "model", "persona", "conversation", "user"}
Values == {<<>>} \cup Character \cup Model \cup Persona \cup Conversation \cup User
AnyKey == {None} \cup Characters \cup Models \cup Personas \cup Conversations \cup Users
Steps == {"new", "done", "checking", "choosing", "explicit", "defaulting", "default",
          "first", "posing", "detaching", "erasing", "adding", "saving"}
Request == [at : Steps, user : Users \cup {None}, table : Names, key : AnyKey,
            seen : Values, want : Values, model : Models \cup {None},
            linked : SUBSET Conversations, there : SUBSET Conversations]

DbOK ==
    /\ db = [t \in Names |-> db[t]]
    /\ \A t \in Names : db[t] \in [Keys[t] -> Rows[t]]
    /\ outlived \in [Personas -> SUBSET Conversations]

\* What a request is about, at each await.
Shaped(q) ==
    /\ q \in Request
    /\ q.at \in {"saving", "detaching", "erasing"} =>
         q.key \in Keys[q.table] /\ q.seen \in Rows[q.table] /\ q.want \in Rows[q.table]
    /\ q.at = "adding" => q.key = None /\ q.want \in Rows[q.table]
    /\ q.at = "checking" =>
         /\ q.table = "model" /\ q.want \in Model /\ q.user \in Admins
         /\ q.key # None => q.key \in Models /\ q.seen \in Model
    /\ q.at = "choosing" =>
         /\ q.table = "user" /\ q.key \in Users /\ q.seen \in User /\ q.want \in User
         /\ q.model \in Models
    /\ q.at \in {"explicit", "defaulting", "default", "first", "posing"} =>
         /\ q.table = "conversation" /\ q.key = None /\ q.want \in Conversation
         /\ q.user \in Users /\ q.user = q.want.user
    /\ q.at \in {"detaching", "erasing"} => q.table = "persona"
    /\ q.at \in {"explicit", "default"} => q.model \in Models
    /\ q.at = "posing" => q.want.persona \in Personas

\* Which columns a change can be about.
Narrow(q) ==
    q.at = "saving" =>
      /\ q.table = "persona" => q.want.user = q.seen.user /\ q.want.status = q.seen.status
      /\ q.table = "conversation" =>
           /\ q.want.user = q.seen.user /\ q.want.persona = q.seen.persona
           /\ q.want.status \in {q.seen.status, "DELETED"}
      /\ q.table = "character" /\ q.user \notin Admins =>
           q.want.owner = q.seen.owner /\ q.want.status \in {q.seen.status, "DELETED"}
      /\ q.table = "model" => q.user \in Admins

\* A conversation to be added names a persona of its user's; a deletion knows the
\* conversations it has to detach.
Current(q) ==
    /\ q.at = "adding" /\ q.table = "conversation" /\ q.want.persona # None =>
         /\ db.persona[q.want.persona].user = q.want.user
         /\ db.persona[q.want.persona].status # "NONE"
    /\ q.at = "erasing" => \A k \in q.there :
         /\ db.conversation[k].status \in Live
         /\ db.conversation[k].persona = q.key => k \in q.linked

RequestsOK ==
    /\ DOMAIN requests = Requests
    /\ requests = [r \in Requests |-> requests[r]]
    /\ \A r \in Requests : Shaped(requests[r]) /\ Narrow(requests[r]) /\ Current(requests[r])

\* The constraint on models: no two rows are the same offer.
OffersDiffer == \A m \in Existing("model") : ~Duplicate(db.model[m], m)
\* The personas conversations name are rows, of the same user.
PersonasReal ==
    \A k \in Conversations :
        LET p == db.conversation[k].persona
        IN  p # None => /\ db.persona[p].status # "NONE"
                        /\ db.persona[p].user = db.conversation[k].user
\* A conversation a deletion detached is there, and stays detached.
DetachedForGood ==
    \A p \in Personas : \A k \in outlived[p] :
        db.conversation[k].status \in Live /\ db.conversation[k].persona # p

CatalogInv == DbOK /\ RequestsOK /\ OffersDiffer /\ PersonasReal /\ DetachedForGood

-------------------------------------------------------------------------------
\* The tables.

LEMMA Tables5 ==
    /\ Names = DOMAIN Keys /\ Names = DOMAIN Rows
    /\ Keys["character"] = Characters /\ Keys["model"] = Models
    /\ Keys["persona"] = Personas /\ Keys["conversation"] = Conversations
    /\ Keys["user"] = Users
    /\ Rows["character"] = Character /\ Rows["model"] = Model /\ Rows["persona"] = Persona
    /\ Rows["conversation"] = Conversation /\ Rows["user"] = User
  BY DEF Names, Keys, Rows

LEMMA TablesType ==
    ASSUME DbOK
    PROVE  /\ db.character \in [Characters -> Character] /\ db.model \in [Models -> Model]
           /\ db.persona \in [Personas -> Persona]
           /\ db.conversation \in [Conversations -> Conversation]
           /\ db.user \in [Users -> User]
  BY Tables5 DEF DbOK, Names

LEMMA FreshOK == Shaped(Fresh) /\ Narrow(Fresh) /\ Shaped(Done) /\ Narrow(Done)
                 /\ Current(Fresh) /\ Current(Done) /\ Fresh \in Request
  BY DEF Fresh, Done, Shaped, Narrow, Current, Request, Steps, Names, AnyKey, Values

\* The records requests begin with.
LEMMA AddsIs ==
    ASSUME NEW u \in Users, NEW at \in Steps, NEW t \in Names, NEW row \in Values
    PROVE  LET q == Adds(u, at, t, row)
           IN  /\ q \in Request
               /\ q.at = at /\ q.user = u /\ q.table = t /\ q.key = None /\ q.want = row
               /\ q.model = None
  BY FreshOK DEF Adds, Request, Fresh
LEMMA EditsIs ==
    ASSUME NEW u \in Users, NEW at \in Steps, NEW t \in Names, NEW k \in AnyKey,
           NEW row \in Values, db[t][k] \in Values
    PROVE  LET q == Edits(u, at, t, k, row)
           IN  /\ q \in Request
               /\ q.at = at /\ q.user = u /\ q.table = t /\ q.key = k /\ q.want = row
               /\ q.seen = db[t][k] /\ q.model = None
  BY FreshOK DEF Edits, Request, Fresh

LEMMA InitInv == Init => CatalogInv
<1> SUFFICES ASSUME Init PROVE CatalogInv
  OBVIOUS
<1> USE DEF Init
<1>1. DbOK
  BY TablesLegal, Tables5 DEF TablesLegal, DbOK
<1>2. RequestsOK
  BY FreshOK DEF RequestsOK
<1>3. OffersDiffer
  BY TablesLegal DEF TablesLegal, OffersDiffer, Existing, Duplicate, Keys
<1>4. PersonasReal
  BY TablesLegal DEF TablesLegal, PersonasReal
<1>5. DetachedForGood
  BY DEF DetachedForGood
<1> QED
  BY <1>1, <1>2, <1>3, <1>4, <1>5 DEF CatalogInv

-------------------------------------------------------------------------------
\* Steps that read and decide.

QuietStep(r, q) ==
    /\ requests' = [requests EXCEPT ![r] = q]
    /\ UNCHANGED <<db, outlived>>
    /\ Shaped(q) /\ Narrow(q) /\ Current(q)

\* When the tables stay, one request with what it may have is all that can go wrong.
LEMMA QuietInv ==
    ASSUME CatalogInv, NEW r \in Requests, NEW q, QuietStep(r, q) PROVE CatalogInv'
<1> USE DEF QuietStep, CatalogInv
<1>1. DbOK' /\ OffersDiffer' /\ PersonasReal' /\ DetachedForGood'
  BY DEF DbOK, OffersDiffer, PersonasReal, DetachedForGood, Existing, Duplicate
<1>2. RequestsOK'
  <2>2. ASSUME NEW s \in Requests
        PROVE  (Shaped(requests[s]) /\ Narrow(requests[s]) /\ Current(requests[s]))'
    <3>1. Shaped(requests'[s]) /\ Narrow(requests'[s]) /\ Current(requests'[s])
      BY DEF RequestsOK
    <3> QED
      BY <3>1 DEF Shaped, Narrow, Current
  <2>3. DOMAIN requests' = Requests /\ requests' = [s \in Requests |-> requests'[s]]
    BY DEF RequestsOK
  <2> QED
    BY <2>2, <2>3 DEF RequestsOK
<1> QED
  BY <1>1, <1>2

\* A new request, by what it is about.
LEMMA CharacterSteps ==
    ASSUME CatalogInv, NEW r \in Requests, NEW u \in Users, NEW c,
           \/ CreateCharacter(r, u)
           \/ c \in Characters /\ (UpdateCharacter(r, u, c) \/ DeleteCharacter(r, u, c))
    PROVE  \E q : QuietStep(r, q)
<1> USE TablesType, Tables5 DEF CatalogInv, QuietStep, Enters
<1>0. /\ c \in Characters => db.character[c] \in Character /\ c \in AnyKey
      /\ Character \subseteq Values
  BY DEF AnyKey, Values
<1> HIDE DEF CatalogInv
<1>1. CASE CreateCharacter(r, u)
  <2>1. PICK o \in Users \cup {None}, s \in Live :
          /\ requests' = [requests EXCEPT ![r] =
               Adds(u, "adding", "character", [owner |-> o, text |-> "given", status |-> s])]
          /\ UNCHANGED <<db, outlived>>
    BY <1>1 DEF CreateCharacter, Settable, Live
  <2> DEFINE q == Adds(u, "adding", "character", [owner |-> o, text |-> "given", status |-> s])
  <2>2. [owner |-> o, text |-> "given", status |-> s] \in Character
    BY DEF Character, Texts, Status
  <2>3. Shaped(q) /\ Narrow(q) /\ Current(q)
    <3>1. /\ q \in Request /\ q.at = "adding" /\ q.table = "character" /\ q.key = None
          /\ q.want \in Rows[q.table]
      BY <2>2, <1>0, AddsIs DEF Steps, Names
    <3> HIDE DEF q
    <3> QED
      BY <3>1 DEF Shaped, Narrow, Current
  <2> QED
    BY <2>1, <2>3
<1>2. CASE c \in Characters /\ UpdateCharacter(r, u, c)
  <2>1. PICK t \in Texts, o \in Settable(u, Users \cup {None}, db.character[c].owner),
             s \in Settable(u, Live, db.character[c].status) :
          /\ requests' = [requests EXCEPT ![r] =
               Edits(u, "saving", "character", c, [owner |-> o, text |-> t, status |-> s])]
          /\ UNCHANGED <<db, outlived>>
    BY <1>2 DEF UpdateCharacter
  <2> DEFINE q == Edits(u, "saving", "character", c, [owner |-> o, text |-> t, status |-> s])
  <2>2. [owner |-> o, text |-> t, status |-> s] \in Character
    BY <1>0, <1>2 DEF Character, Settable, Live, Status
  <2>3. u \notin Admins => o = db.character[c].owner /\ s = db.character[c].status
    BY DEF Settable
  <2>4. Shaped(q) /\ Narrow(q) /\ Current(q)
    BY <1>2, <2>2, <2>3, <1>0, EditsIs DEF Shaped, Narrow, Current, Steps, Names
  <2> QED
    BY <2>1, <2>4
<1>3. CASE c \in Characters /\ DeleteCharacter(r, u, c)
  <2> DEFINE w == [db.character[c] EXCEPT !.status = "DELETED"]
             q == Edits(u, "saving", "character", c, w)
  <2>1. w \in Character /\ w.owner = db.character[c].owner /\ w.status = "DELETED"
    BY <1>0, <1>3 DEF Character, Status, Live
  <2> HIDE DEF w
  <2>2. Shaped(q) /\ Narrow(q) /\ Current(q)
    BY <1>3, <2>1, <1>0, EditsIs DEF Shaped, Narrow, Current, Steps, Names
  <2> QED
    BY <2>2, <1>3 DEF DeleteCharacter, w
<1> QED
  BY <1>1, <1>2, <1>3

LEMMA ModelSteps ==
    ASSUME CatalogInv, NEW r \in Requests, NEW u \in Users, NEW m,
           \/ CreateModel(r, u)
           \/ /\ m \in Models
              /\ UpdateModel(r, u, m) \/ Deactivate(r, u, m) \/ ChooseDefault(r, u, m)
    PROVE  \E q : QuietStep(r, q)
<1> USE TablesType, Tables5 DEF CatalogInv, QuietStep, Enters
<1>0. /\ m \in Models => db.model[m] \in Model /\ m \in AnyKey
      /\ Model \subseteq Values
      /\ db.user[u] \in User /\ u \in AnyKey /\ User \subseteq Values
  BY DEF AnyKey, Values
<1> HIDE DEF CatalogInv
<1>1. CASE CreateModel(r, u)
  <2>1. PICK n \in ModelNames, p \in Places, s \in Live :
          /\ requests' = [requests EXCEPT ![r] =
               Adds(u, "checking", "model", [name |-> n, place |-> p, status |-> s])]
          /\ UNCHANGED <<db, outlived>>
    BY <1>1 DEF CreateModel
  <2> DEFINE q == Adds(u, "checking", "model", [name |-> n, place |-> p, status |-> s])
  <2>2. [name |-> n, place |-> p, status |-> s] \in Model
    BY DEF Model, Status
  <2>3. Shaped(q) /\ Narrow(q) /\ Current(q)
    BY <1>1, <2>2, <1>0, AddsIs DEF CreateModel, Shaped, Narrow, Current, Steps, Names
  <2> QED
    BY <2>1, <2>3
<1>2. CASE m \in Models /\ UpdateModel(r, u, m)
  <2>1. PICK n \in ModelNames, p \in Places, s \in Live :
          /\ requests' = [requests EXCEPT ![r] =
               Edits(u, "checking", "model", m, [name |-> n, place |-> p, status |-> s])]
          /\ UNCHANGED <<db, outlived>>
    BY <1>2 DEF UpdateModel
  <2> DEFINE q == Edits(u, "checking", "model", m, [name |-> n, place |-> p, status |-> s])
  <2>2. [name |-> n, place |-> p, status |-> s] \in Model
    BY DEF Model, Status
  <2>3. Shaped(q) /\ Narrow(q) /\ Current(q)
    BY <1>2, <2>2, <1>0, EditsIs DEF UpdateModel, Shaped, Narrow, Current, Steps, Names
  <2> QED
    BY <2>1, <2>3
<1>3. CASE m \in Models /\ Deactivate(r, u, m)
  <2> DEFINE w == [db.model[m] EXCEPT !.status = "DELETED"]
             q == Edits(u, "saving", "model", m, w)
  <2>1. w \in Model
    BY <1>0, <1>3 DEF Model, Status, Live
  <2> HIDE DEF w
  <2>2. Shaped(q) /\ Narrow(q) /\ Current(q)
    BY <1>3, <2>1, <1>0, EditsIs DEF Deactivate, Shaped, Narrow, Current, Steps, Names
  <2> QED
    BY <2>2, <1>3 DEF Deactivate, w
<1>4. CASE m \in Models /\ ChooseDefault(r, u, m)
  <2> DEFINE w == [model |-> m]
             e == Edits(u, "choosing", "user", u, w)
             q == [e EXCEPT !.model = m]
  <2>1. w \in User
    BY <1>4 DEF User
  <2> HIDE DEF w
  <2>2. /\ e \in Request /\ e.at = "choosing" /\ e.table = "user" /\ e.key = u /\ e.want = w
        /\ e.seen = db.user[u]
    BY <2>1, <1>0, EditsIs DEF Steps, Names
  <2> HIDE DEF e
  <2>3. Shaped(q) /\ Narrow(q) /\ Current(q)
    BY <1>4, <2>1, <2>2, <1>0 DEF Request, Shaped, Narrow, Current
  <2> QED
    BY <2>3, <1>4 DEF ChooseDefault, w, e
<1> QED
  BY <1>1, <1>2, <1>3, <1>4

LEMMA PersonaSteps ==
    ASSUME CatalogInv, NEW r \in Requests, NEW u \in Users, NEW p,
           \/ CreatePersona(r, u)
           \/ p \in Personas /\ (UpdatePersona(r, u, p) \/ DeletePersona(r, u, p))
    PROVE  \E q : QuietStep(r, q)
<1> USE TablesType, Tables5 DEF CatalogInv, QuietStep, Enters
<1>0. /\ p \in Personas => db.persona[p] \in Persona /\ p \in AnyKey
      /\ Persona \subseteq Values
  BY DEF AnyKey, Values
<1> HIDE DEF CatalogInv
<1>1. CASE CreatePersona(r, u)
  <2> DEFINE w == [user |-> u, text |-> "given", status |-> "ACTIVE"]
             q == Adds(u, "adding", "persona", w)
  <2>1. w \in Persona
    BY DEF Persona, Texts, Status, Live
  <2> HIDE DEF w
  <2>2. Shaped(q) /\ Narrow(q) /\ Current(q)
    BY <2>1, <1>0, AddsIs DEF Shaped, Narrow, Current, Steps, Names
  <2> QED
    BY <2>2, <1>1 DEF CreatePersona, w
<1>2. CASE p \in Personas /\ UpdatePersona(r, u, p)
  <2> DEFINE w == [db.persona[p] EXCEPT !.text = "edited"]
             q == Edits(u, "saving", "persona", p, w)
  <2>1. w \in Persona /\ w.user = db.persona[p].user /\ w.status = db.persona[p].status
    BY <1>0, <1>2 DEF Persona, Texts
  <2> HIDE DEF w
  <2>2. Shaped(q) /\ Narrow(q) /\ Current(q)
    BY <1>2, <2>1, <1>0, EditsIs DEF Shaped, Narrow, Current, Steps, Names
  <2> QED
    BY <2>2, <1>2 DEF UpdatePersona, w
<1>3. CASE p \in Personas /\ DeletePersona(r, u, p)
  <2> DEFINE w == [db.persona[p] EXCEPT !.status = "ERASED"]
             q == Edits(u, "detaching", "persona", p, w)
  <2>1. w \in Persona
    BY <1>0, <1>3 DEF Persona, Status
  <2> HIDE DEF w
  <2>2. Shaped(q) /\ Narrow(q) /\ Current(q)
    BY <1>3, <2>1, <1>0, EditsIs DEF Shaped, Narrow, Current, Steps, Names
  <2> QED
    BY <2>2, <1>3 DEF DeletePersona, w
<1> QED
  BY <1>1, <1>2, <1>3

LEMMA ConversationSteps ==
    ASSUME CatalogInv, NEW r \in Requests, NEW u \in Users, NEW k \in Conversations,
           RenameConversation(r, u, k) \/ DeleteConversation(r, u, k)
    PROVE  \E q : QuietStep(r, q)
<1> USE TablesType, Tables5 DEF CatalogInv, QuietStep, Enters
<1>0. db.conversation[k] \in Conversation /\ k \in AnyKey /\ Conversation \subseteq Values
  BY DEF AnyKey, Values
<1> HIDE DEF CatalogInv
<1>1. CASE RenameConversation(r, u, k)
  <2> DEFINE w == [db.conversation[k] EXCEPT !.text = "edited"]
             q == Edits(u, "saving", "conversation", k, w)
  <2>1. /\ w \in Conversation /\ w.user = db.conversation[k].user
        /\ w.persona = db.conversation[k].persona /\ w.status = db.conversation[k].status
    BY <1>0 DEF Conversation, Texts
  <2> HIDE DEF w
  <2>2. Shaped(q) /\ Narrow(q) /\ Current(q)
    BY <2>1, <1>0, EditsIs DEF Shaped, Narrow, Current, Steps, Names
  <2> QED
    BY <2>2, <1>1 DEF RenameConversation, w
<1>2. CASE DeleteConversation(r, u, k)
  <2> DEFINE w == [db.conversation[k] EXCEPT !.status = "DELETED"]
             q == Edits(u, "saving", "conversation", k, w)
  <2>1. /\ w \in Conversation /\ w.user = db.conversation[k].user
        /\ w.persona = db.conversation[k].persona /\ w.status = "DELETED"
    BY <1>0 DEF Conversation, Status, Live
  <2> HIDE DEF w
  <2>2. Shaped(q) /\ Narrow(q) /\ Current(q)
    BY <2>1, <1>0, EditsIs DEF Shaped, Narrow, Current, Steps, Names
  <2> QED
    BY <2>2, <1>2 DEF DeleteConversation, w
<1> QED
  BY <1>1, <1>2

LEMMA StartSteps ==
    ASSUME CatalogInv, NEW r \in Requests, NEW u \in Users, NEW c \in Characters,
           NEW m \in Models \cup {None}, NEW p \in Personas \cup {None},
           StartConversation(r, u, c, m, p)
    PROVE  \E q : QuietStep(r, q)
<1> USE TablesType, Tables5 DEF CatalogInv, QuietStep, Enters
<1> DEFINE at == IF m = None THEN "defaulting" ELSE "explicit"
           w == [user |-> u, character |-> c, model |-> None, persona |-> p,
                 text |-> "given", status |-> "ACTIVE"]
           a == Adds(u, at, "conversation", w)
           q == [a EXCEPT !.model = m]
<1>1. w \in Conversation /\ w.user = u /\ Conversation \subseteq Values
  BY DEF Conversation, Texts, Status, Live, Values
<1>2. at \in Steps /\ "conversation" \in Names
  BY DEF Steps, Names
<1>3. requests' = [requests EXCEPT ![r] = q] /\ UNCHANGED <<db, outlived>>
  BY DEF StartConversation
<1>4. at = "defaulting" \/ (at = "explicit" /\ m \in Models)
  OBVIOUS
<1> HIDE DEF w, at
<1>5. /\ a \in Request /\ a.at = at /\ a.table = "conversation" /\ a.key = None /\ a.want = w
      /\ a.user = u
  BY <1>1, <1>2, AddsIs
<1> HIDE DEF a, CatalogInv
<1>6. Shaped(q) /\ Narrow(q) /\ Current(q)
  BY <1>1, <1>4, <1>5 DEF Request, Shaped, Narrow, Current
<1> QED
  BY <1>3, <1>6

\* A request that resumes.
LEMMA ModelChecks ==
    ASSUME CatalogInv, NEW r \in Requests, CheckUnique(r) \/ CheckDefault(r)
    PROVE  \E q : QuietStep(r, q)
<1> DEFINE old == requests[r]
<1>0. Shaped(old) /\ Narrow(old) /\ Current(old)
  BY DEF CatalogInv, RequestsOK
<1> USE Tables5, FreshOK DEF QuietStep, Resumes
<1>1. CASE CheckUnique(r)
  <2> DEFINE at == IF old.key = None THEN "adding" ELSE "saving"
             q == [old EXCEPT !.at = at]
  <2>1. /\ requests' = [requests EXCEPT ![r] = Done] \/ requests' = [requests EXCEPT ![r] = q]
        /\ UNCHANGED <<db, outlived>> /\ old.at = "checking"
    BY <1>1 DEF CheckUnique
  <2>2. Shaped(q) /\ Narrow(q) /\ Current(q)
    BY <1>0, <2>1 DEF Request, Steps, Shaped, Narrow, Current
  <2> QED
    BY <2>1, <2>2
<1>2. CASE CheckDefault(r)
  <2> DEFINE q == [old EXCEPT !.at = "saving"]
  <2>1. /\ requests' = [requests EXCEPT ![r] = Done] \/ requests' = [requests EXCEPT ![r] = q]
        /\ UNCHANGED <<db, outlived>> /\ old.at = "choosing"
    BY <1>2 DEF CheckDefault
  <2>2. Shaped(q) /\ Narrow(q) /\ Current(q)
    BY <1>0, <2>1 DEF Request, Steps, Shaped, Narrow, Current
  <2> QED
    BY <2>1, <2>2
<1> QED
  BY <1>1, <1>2

\* The deletion of a persona finds every conversation that names it.
LEMMA DetachStep ==
    ASSUME CatalogInv, NEW r \in Requests, Detach(r) PROVE \E q : QuietStep(r, q)
<1> DEFINE old == requests[r]
           q == [old EXCEPT !.at = "erasing", !.linked = Linked(old.key),
                            !.there = Existing("conversation")]
<1>0. Shaped(old) /\ old.at = "detaching"
  BY DEF CatalogInv, RequestsOK, Detach
<1>1. requests' = [requests EXCEPT ![r] = q] /\ UNCHANGED <<db, outlived>>
  BY DEF Detach, Resumes
<1>2. /\ Existing("conversation") \subseteq Conversations
      /\ Linked(old.key) \subseteq Conversations
  BY Tables5 DEF Existing, Linked
<1>3. \A k \in Existing("conversation") :
         /\ db.conversation[k].status \in Live
         /\ db.conversation[k].persona = old.key => k \in Linked(old.key)
  BY DEF Existing, Linked
<1>4. Shaped(q) /\ Narrow(q)
  BY <1>0, <1>2 DEF Request, Steps, Shaped, Narrow
<1>5. Current(q)
  BY <1>0, <1>3 DEF Current, Shaped, Request
<1> QED
  BY <1>1, <1>4, <1>5 DEF QuietStep

\* The look-ups before a conversation is stored.
LEMMA PicksOK ==
    ASSUME NEW q, Shaped(q), NEW m \in Models,
           q.at \in {"explicit", "default", "first"}
    PROVE  Shaped(Picks(q, m)) /\ Narrow(Picks(q, m)) /\ Current(Picks(q, m))
<1> DEFINE at == IF q.want.persona = None THEN "adding" ELSE "posing"
           w == [q.want EXCEPT !.model = m]
           n == [q EXCEPT !.at = at, !.model = None, !.want = w]
<1>1. /\ q \in Request /\ q.want \in Conversation /\ q.user = q.want.user
      /\ q.table = "conversation" /\ q.key = None
  BY DEF Shaped
<1>2. w \in Conversation /\ w.user = q.want.user /\ w.persona = q.want.persona
  BY <1>1 DEF Conversation
<1>3. Picks(q, m) = n
  BY <1>1 DEF Picks, Request
<1>4. w \in Values
  BY <1>2 DEF Values
<1>5. q.want.persona \in Personas \cup {None}
  BY <1>1 DEF Conversation
<1> HIDE DEF w
<1>6. /\ n \in Request /\ n.at = at /\ n.want = w /\ n.table = "conversation"
      /\ n.key = None /\ n.user = q.user
  BY <1>1, <1>4 DEF Request, Steps
<1>7. /\ at \in {"adding", "posing"} /\ q.user \in Users
      /\ at = "posing" => w.persona \in Personas
      /\ at = "adding" => w.persona = None
  BY <1>2, <1>5 DEF Shaped
<1> HIDE DEF n, at
<1>8. Shaped(n) /\ Narrow(n) /\ Current(n)
  BY <1>1, <1>2, <1>6, <1>7, Tables5 DEF Shaped, Narrow, Current
<1> QED
  BY <1>3, <1>8

LEMMA ModelLookups ==
    ASSUME CatalogInv, NEW r \in Requests,
           ResolveExplicit(r) \/ ReadDefault(r) \/ ResolveDefault(r) \/ ResolveFirst(r)
    PROVE  \E q : QuietStep(r, q)
<1> DEFINE old == requests[r]
<1>0. Shaped(old)
  BY DEF CatalogInv, RequestsOK
<1> USE FreshOK DEF QuietStep, Resumes, Ends
<1>1. CASE ResolveExplicit(r)
  BY <1>0, <1>1, PicksOK DEF ResolveExplicit, Shaped
<1>2. CASE ReadDefault(r)
  <2> DEFINE m == db.user[old.user].model
             p == [old EXCEPT !.at = "first"]
             q == [old EXCEPT !.at = "default", !.model = m]
  <2>1. /\ \/ m = None /\ requests' = [requests EXCEPT ![r] = p]
           \/ m # None /\ requests' = [requests EXCEPT ![r] = q]
        /\ UNCHANGED <<db, outlived>> /\ old.at = "defaulting"
    BY <1>2 DEF ReadDefault
  <2>2. m \in Models \cup {None}
    <3>1. old.user \in Users
      BY <1>0, <2>1 DEF Shaped, Conversation
    <3> QED
      BY <3>1, TablesType DEF CatalogInv, User
  <2> HIDE DEF m
  <2>3. Shaped(p) /\ Narrow(p) /\ Current(p)
    BY <1>0, <2>1 DEF Request, Steps, Shaped, Narrow, Current
  <2>4. m # None => Shaped(q) /\ Narrow(q) /\ Current(q)
    BY <1>0, <2>1, <2>2 DEF Request, Steps, Shaped, Narrow, Current
  <2> QED
    BY <2>1, <2>3, <2>4
<1>3. CASE ResolveDefault(r)
  <2> DEFINE p == [old EXCEPT !.at = "first", !.model = None]
  <2>1. old.at = "default" => Shaped(p) /\ Narrow(p) /\ Current(p)
    BY <1>0 DEF Request, Steps, Shaped, Narrow, Current
  <2>2. old.at = "default" => old.model \in Models
    BY <1>0 DEF Shaped
  <2>3. \/ requests' = [requests EXCEPT ![r] = p]
        \/ requests' = [requests EXCEPT ![r] = Picks(old, old.model)]
    BY <1>3 DEF ResolveDefault
  <2>4. UNCHANGED <<db, outlived>> /\ old.at = "default"
    BY <1>3 DEF ResolveDefault
  <2> HIDE DEF p
  <2>5. Shaped(Picks(old, old.model)) /\ Narrow(Picks(old, old.model))
        /\ Current(Picks(old, old.model))
    BY <1>0, <2>2, <2>4, PicksOK
  <2> QED
    BY <2>1, <2>3, <2>4, <2>5
<1>4. CASE ResolveFirst(r)
  <2>1. \/ requests' = [requests EXCEPT ![r] = Done]
        \/ \E m \in Models : requests' = [requests EXCEPT ![r] = Picks(old, m)]
    BY <1>4 DEF ResolveFirst
  <2>2. UNCHANGED <<db, outlived>> /\ old.at = "first"
    BY <1>4 DEF ResolveFirst
  <2> QED
    BY <1>0, <2>1, <2>2, PicksOK
<1> QED
  BY <1>1, <1>2, <1>3, <1>4

\* Only a persona of the user's own passes.
LEMMA VerifyStep ==
    ASSUME CatalogInv, NEW r \in Requests, VerifyPersona(r) PROVE \E q : QuietStep(r, q)
<1> DEFINE old == requests[r]
           q == [old EXCEPT !.at = "adding"]
<1>0. Shaped(old) /\ old.at = "posing" /\ UNCHANGED <<db, outlived>>
  BY DEF CatalogInv, RequestsOK, VerifyPersona
<1>1. \/ requests' = [requests EXCEPT ![r] = Done]
      \/ Owned(old.want.persona, old.user) /\ requests' = [requests EXCEPT ![r] = q]
  BY DEF VerifyPersona, Resumes
<1>2. Shaped(q) /\ Narrow(q)
  BY <1>0, Tables5 DEF Request, Steps, Shaped, Narrow
<1>3. Owned(old.want.persona, old.user) => Current(q)
  BY <1>0 DEF Owned, Active, Current, Shaped, Request
<1> QED
  BY <1>0, <1>1, <1>2, <1>3, FreshOK DEF QuietStep

LEMMA FailStep ==
    ASSUME NEW r \in Requests, Fail(r) PROVE \E q : QuietStep(r, q)
  BY FreshOK DEF Fail, QuietStep

-------------------------------------------------------------------------------
\* Steps that write.

Writes(t, k, row) == db' = [db EXCEPT ![t][k] = row] /\ UNCHANGED outlived

LEMMA WriteType ==
    ASSUME DbOK, NEW t \in Names, NEW k \in Keys[t], NEW row \in Rows[t], Writes(t, k, row)
    PROVE  /\ DbOK'
           /\ db'[t] = [db[t] EXCEPT ![k] = row]
           /\ \A s \in Names \ {t} : db'[s] = db[s]
<1>1. /\ db'[t] = [db[t] EXCEPT ![k] = row]
      /\ \A s \in Names \ {t} : db'[s] = db[s]
      /\ db' = [s \in Names |-> db'[s]]
  BY DEF DbOK, Writes
<1>2. db'[t] \in [Keys[t] -> Rows[t]]
  BY <1>1 DEF DbOK
<1> QED
  BY <1>1, <1>2 DEF DbOK, Writes

\* What a row must be like for everything else to stay true.
Harmless(t, k, row) ==
    /\ t = "model" => ~Duplicate(row, k)
    /\ t = "persona" => \/ db.persona[k].status = "NONE"
                        \/ row.user = db.persona[k].user /\ row.status # "NONE"
    /\ t = "conversation" =>
         /\ db.conversation[k].status \in Live =>
              row.status \in Live /\ row.persona = db.conversation[k].persona
         /\ row.persona # None =>
              /\ db.persona[row.persona].user = row.user
              /\ db.persona[row.persona].status # "NONE"

LEMMA WriteInv ==
    ASSUME CatalogInv, NEW r \in Requests, NEW t \in Names, NEW k \in Keys[t],
           NEW row \in Rows[t], Writes(t, k, row), Harmless(t, k, row),
           requests' = [requests EXCEPT ![r] = Done]
    PROVE  CatalogInv'
<1>1. /\ DbOK /\ DbOK' /\ UNCHANGED outlived
      /\ db'[t] = [db[t] EXCEPT ![k] = row]
      /\ \A s \in Names \ {t} : db'[s] = db[s]
  BY WriteType DEF CatalogInv, Writes
<1>2. OffersDiffer'
  <2>1. CASE t = "model"
    <3>1. k \in Models /\ db'.model = [db.model EXCEPT ![k] = row]
      BY <1>1, <2>1, Tables5
    <3>2. ~Duplicate(row, k)
      BY <2>1 DEF Harmless
    <3>3. db.model \in [Models -> Model]
      BY <1>1, TablesType
    <3>4. ASSUME NEW m \in Models, NEW n \in Models, m # n,
                 db'.model[m].status \in Live, db'.model[n].status \in Live
          PROVE  db'.model[m].name # db'.model[n].name \/ db'.model[m].place # db'.model[n].place
      <4>1. CASE m # k /\ n # k
        BY <3>1, <3>3, <3>4, <4>1, Tables5 DEF CatalogInv, OffersDiffer, Existing, Duplicate
      <4>2. CASE m = k
        BY <3>1, <3>2, <3>3, <3>4, <4>2, Tables5 DEF Existing, Duplicate
      <4>3. CASE n = k
        BY <3>1, <3>2, <3>3, <3>4, <4>3, Tables5 DEF Existing, Duplicate
      <4> QED
        BY <4>1, <4>2, <4>3
    <3> QED
      BY <3>4, Tables5 DEF OffersDiffer, Existing, Duplicate
  <2>2. CASE t # "model"
    BY <1>1, <2>2, Tables5 DEF CatalogInv, OffersDiffer, Existing, Duplicate, Names
  <2> QED
    BY <2>1, <2>2
<1>3. /\ db.persona \in [Personas -> Persona] /\ db'.persona \in [Personas -> Persona]
      /\ db.conversation \in [Conversations -> Conversation]
      /\ db'.conversation \in [Conversations -> Conversation]
  <2>1. \A s \in Names : db[s] \in [Keys[s] -> Rows[s]] /\ db'[s] \in [Keys[s] -> Rows[s]]
    BY <1>1 DEF DbOK
  <2> QED
    BY <2>1, Tables5 DEF Names
\* A persona that is a row keeps its user.
<1>4. \A p \in Personas : db.persona[p].status # "NONE" =>
        db'.persona[p].status # "NONE" /\ db'.persona[p].user = db.persona[p].user
  <2>1. CASE t = "persona"
    BY <1>1, <1>3, <2>1, Tables5 DEF Harmless, Names
  <2>2. CASE t # "persona"
    BY <1>1, <2>2 DEF Names
  <2> QED
    BY <2>1, <2>2
\* A conversation that is there stays, with its persona.
<1>5. \A c \in Conversations : db.conversation[c].status \in Live =>
        /\ db'.conversation[c].status \in Live
        /\ db'.conversation[c].persona = db.conversation[c].persona
  <2>1. CASE t = "conversation"
    BY <1>1, <1>3, <2>1, Tables5 DEF Harmless, Names
  <2>2. CASE t # "conversation"
    BY <1>1, <2>2 DEF Names
  <2> QED
    BY <2>1, <2>2
<1>6. PersonasReal'
  <2>1. ASSUME NEW c \in Conversations, db'.conversation[c].persona # None
        PROVE  LET p == db'.conversation[c].persona
               IN  db.persona[p].status # "NONE" /\ db.persona[p].user = db'.conversation[c].user
    <3>1. CASE t = "conversation" /\ c = k
      BY <1>1, <1>3, <2>1, <3>1, Tables5 DEF Harmless, Names
    <3>2. CASE ~(t = "conversation" /\ c = k)
      <4>1. db'.conversation[c] = db.conversation[c]
        BY <1>1, <1>3, <3>2, Tables5 DEF Names
      <4> QED
        BY <2>1, <4>1 DEF CatalogInv, PersonasReal
    <3> QED
      BY <3>1, <3>2
  <2> QED
    BY <1>3, <1>4, <2>1 DEF PersonasReal, Conversation
<1>7. DetachedForGood'
  BY <1>1, <1>5 DEF CatalogInv, DetachedForGood, DbOK
<1>8. RequestsOK'
  <2>1. ASSUME NEW q, Shaped(q), Current(q) PROVE Current(q)'
    <3>1. CASE q.at = "adding" /\ q.table = "conversation" /\ q.want.persona # None
      <4>1. q.want \in Conversation
        BY <2>1, <3>1, Tables5 DEF Shaped
      <4>2. q.want.persona \in Personas
        BY <3>1, <4>1 DEF Conversation
      <4> QED
        BY <1>4, <2>1, <3>1, <4>2 DEF Current
    <3>2. CASE q.at = "erasing"
      <4>1. q.there \subseteq Conversations
        BY <2>1 DEF Shaped, Request
      <4> QED
        BY <1>5, <2>1, <3>2, <4>1 DEF Current
    <3> QED
      BY <3>1, <3>2 DEF Current
  <2>2. ASSUME NEW s \in Requests
        PROVE  (Shaped(requests[s]) /\ Narrow(requests[s]) /\ Current(requests[s]))'
    <3>1. /\ Shaped(requests'[s]) /\ Narrow(requests'[s]) /\ Current(requests'[s])
      BY FreshOK DEF CatalogInv, RequestsOK
    <3>2. Shaped(requests[s])' /\ Narrow(requests[s])'
      BY <3>1 DEF Shaped, Narrow
    <3>3. CASE s = r
      <4>1. requests'[s] = Done /\ Done.at = "done"
        BY <3>3 DEF CatalogInv, RequestsOK, Done, Fresh
      <4> QED
        BY <3>2, <4>1 DEF Current
    <3>4. CASE s # r
      <4>1. requests'[s] = requests[s]
        BY <3>4 DEF CatalogInv, RequestsOK
      <4>2. Shaped(requests[s]) /\ Current(requests[s])
        BY DEF CatalogInv, RequestsOK
      <4> QED
        BY <2>1, <3>1, <3>2, <4>1, <4>2 DEF Current
    <3> QED
      BY <3>2, <3>3, <3>4
  <2>3. DOMAIN requests' = Requests /\ requests' = [s \in Requests |-> requests'[s]]
    BY DEF CatalogInv, RequestsOK
  <2> QED
    BY <2>2, <2>3 DEF RequestsOK
<1> QED
  BY <1>1, <1>2, <1>6, <1>7, <1>8 DEF CatalogInv

LEMMA InsertInv ==
    ASSUME CatalogInv, NEW r \in Requests, Insert(r) PROVE CatalogInv'
<1> DEFINE q == requests[r]
           t == q.table
           free == {k \in Keys[t] : db[t][k].status = "NONE"}
<1>1. /\ DbOK /\ PersonasReal /\ Shaped(q) /\ Current(q) /\ q.at = "adding"
      /\ requests' = [requests EXCEPT ![r] = Done]
  BY DEF CatalogInv, RequestsOK, Insert, Ends, Resumes
<1>2. t \in Names /\ q.want \in Rows[t] /\ q.key = None
  BY <1>1 DEF Shaped, Request
<1>3. PICK k \in free : Writes(t, k, q.want)
  BY DEF Insert, Writes
<1>4. k \in Keys[t] /\ db[t][k].status = "NONE"
  OBVIOUS
<1>5. Harmless(t, k, q.want)
  <2>1. CASE t = "model"
    BY <1>2, <2>1, CatalogConstants, Tables5 DEF Insert, Fits, Duplicate, Existing,
       CatalogConstants, Harmless
  <2>2. CASE t = "persona"
    BY <1>4, <2>2 DEF Harmless
  <2>3. CASE t = "conversation"
    BY <1>1, <1>4, <2>3 DEF Harmless, Current, Live
  <2> QED
    BY <2>1, <2>2, <2>3 DEF Harmless
<1> QED
  BY <1>1, <1>2, <1>3, <1>4, <1>5, WriteInv

\* What a commit leaves of the row it meets.
LEMMA MergedIs ==
    ASSUME NEW t \in Names, NEW row \in Rows[t], NEW q, q.seen \in Rows[t], q.want \in Rows[t]
    PROVE  /\ Merged(row, q) \in Rows[t]
           /\ \A c \in DOMAIN row : /\ q.want[c] = q.seen[c] => Merged(row, q)[c] = row[c]
                                    /\ q.want[c] # q.seen[c] => Merged(row, q)[c] = q.want[c]
<1>1. CASE t = "character"
  BY <1>1, Tables5 DEF Merged, Character
<1>2. CASE t = "model"
  BY <1>2, Tables5 DEF Merged, Model
<1>3. CASE t = "persona"
  BY <1>3, Tables5 DEF Merged, Persona
<1>4. CASE t = "conversation"
  BY <1>4, Tables5 DEF Merged, Conversation
<1>5. CASE t = "user"
  BY <1>5, Tables5 DEF Merged, User
<1> QED
  BY <1>1, <1>2, <1>3, <1>4, <1>5 DEF Names

LEMMA SaveInv ==
    ASSUME CatalogInv, NEW r \in Requests, Save(r) PROVE CatalogInv'
<1> DEFINE q == requests[r]
           t == q.table
           k == q.key
           old == db[t][k]
           row == Merged(old, q)
<1>1. /\ DbOK /\ PersonasReal /\ Shaped(q) /\ Narrow(q) /\ q.at = "saving"
      /\ requests' = [requests EXCEPT ![r] = Done]
  BY DEF CatalogInv, RequestsOK, Save, Ends, Resumes
<1>2. /\ t \in Names /\ k \in Keys[t] /\ q.seen \in Rows[t] /\ q.want \in Rows[t]
  BY <1>1 DEF Shaped, Request
<1>3. old \in Rows[t]
  BY <1>1, <1>2 DEF DbOK
<1>4. /\ row \in Rows[t]
      /\ \A c \in DOMAIN old : /\ q.want[c] = q.seen[c] => row[c] = old[c]
                               /\ q.want[c] # q.seen[c] => row[c] = q.want[c]
  BY <1>2, <1>3, MergedIs
<1>5. Writes(t, k, row)
  BY DEF Save, Writes
<1>6. Harmless(t, k, row)
  <2>1. CASE t = "model"
    BY <2>1 DEF Save, Fits, Harmless
  <2> HIDE DEF row
  <2>2. CASE t = "persona"
    <3>1. row.user = old.user /\ row.status = old.status
      <4>1. q.want.user = q.seen.user /\ q.want.status = q.seen.status
        BY <1>1, <2>2 DEF Narrow
      <4>2. "user" \in DOMAIN old /\ "status" \in DOMAIN old
        BY <1>3, <2>2, Tables5 DEF Persona
      <4> QED
        BY <1>4, <4>1, <4>2
    <3> QED
      BY <2>2, <3>1 DEF Harmless
  <2>3. CASE t = "conversation"
    <3>1. /\ row.user = old.user /\ row.persona = old.persona
          /\ row.status \in {old.status, "DELETED"}
      <4>1. /\ q.want.user = q.seen.user /\ q.want.persona = q.seen.persona
            /\ q.want.status \in {q.seen.status, "DELETED"}
        BY <1>1, <2>3 DEF Narrow
      <4>2. "user" \in DOMAIN old /\ "persona" \in DOMAIN old /\ "status" \in DOMAIN old
        BY <1>3, <2>3, Tables5 DEF Conversation
      <4> QED
        BY <1>4, <4>1, <4>2
    <3>2. k \in Conversations
      BY <1>2, <2>3, Tables5
    <3> QED
      BY <1>1, <2>3, <3>1, <3>2 DEF Harmless, Live, PersonasReal
  <2> QED
    BY <2>1, <2>2, <2>3 DEF Harmless
<1> QED
  BY <1>1, <1>2, <1>4, <1>5, <1>6, WriteInv

LEMMA EraseInv ==
    ASSUME CatalogInv, NEW r \in Requests, Erase(r) PROVE CatalogInv'
<1> DEFINE q == requests[r]
           p == q.key
           gone == [db.persona[p] EXCEPT !.status = "ERASED"]
           personas == [db.persona EXCEPT ![p] = gone]
           conversations == [k \in Conversations |-> IF k \in q.linked
                               THEN [db.conversation[k] EXCEPT !.persona = None]
                               ELSE db.conversation[k]]
<1>1. /\ DbOK /\ Shaped(q) /\ Current(q) /\ q.at = "erasing"
      /\ requests' = [requests EXCEPT ![r] = Done]
  BY DEF CatalogInv, RequestsOK, Erase, Ends, Resumes
<1>2. p \in Personas /\ q.linked \subseteq Conversations /\ q.there \subseteq Conversations
  BY <1>1, Tables5 DEF Shaped, Request
<1>3. /\ db.persona \in [Personas -> Persona]
      /\ db.conversation \in [Conversations -> Conversation]
  BY <1>1, TablesType
<1>4. /\ gone \in Persona /\ gone.user = db.persona[p].user /\ gone.status = "ERASED"
      /\ personas \in [Personas -> Persona]
  BY <1>2, <1>3 DEF Persona, Status
<1>5. ASSUME NEW k \in Conversations
      PROVE  /\ conversations[k] \in Conversation
             /\ conversations[k].status = db.conversation[k].status
             /\ conversations[k].user = db.conversation[k].user
             /\ k \in q.linked => conversations[k].persona = None
             /\ k \notin q.linked => conversations[k].persona = db.conversation[k].persona
  BY <1>3 DEF Conversation
<1>6. /\ db'.persona = personas /\ db'.conversation = conversations
      /\ \A s \in Names \ {"persona", "conversation"} : db'[s] = db[s]
      /\ db' = [s \in Names |-> db'[s]]
  BY <1>1 DEF Erase, DbOK, Names
<1>7. outlived' = [outlived EXCEPT ![p] = @ \cup q.there]
  BY DEF Erase
<1> HIDE DEF gone, personas, conversations
<1>8. DbOK'
  <2>1. conversations \in [Conversations -> Conversation]
    BY <1>5 DEF conversations
  <2>2. \A s \in Names : db'[s] \in [Keys[s] -> Rows[s]]
    BY <1>1, <1>4, <1>6, <2>1, Tables5 DEF DbOK, Names
  <2>3. outlived' \in [Personas -> SUBSET Conversations]
    BY <1>1, <1>2, <1>7 DEF DbOK
  <2> QED
    BY <1>6, <2>2, <2>3 DEF DbOK
<1>9. OffersDiffer'
  BY <1>6, Tables5 DEF CatalogInv, OffersDiffer, Existing, Duplicate, Names
<1>10. \A x \in Personas : db.persona[x].status # "NONE" =>
         db'.persona[x].status # "NONE" /\ db'.persona[x].user = db.persona[x].user
  BY <1>3, <1>4, <1>6 DEF personas
<1>11. PersonasReal'
  <2>1. ASSUME NEW k \in Conversations, db'.conversation[k].persona # None
        PROVE  /\ db'.conversation[k].persona = db.conversation[k].persona
               /\ db'.conversation[k].user = db.conversation[k].user
               /\ db.conversation[k].persona \in Personas
    BY <1>3, <1>5, <1>6, <2>1 DEF Conversation
  <2> QED
    BY <1>10, <2>1 DEF CatalogInv, PersonasReal
<1>12. DetachedForGood'
  <2>1. ASSUME NEW x \in Personas, NEW k \in outlived'[x]
        PROVE  db'.conversation[k].status \in Live /\ db'.conversation[k].persona # x
    <3>1. k \in outlived[x] \/ (x = p /\ k \in q.there)
      BY <1>1, <1>7, <2>1 DEF DbOK
    <3>2. None # x /\ k \in Conversations
      BY <1>1, <1>2, <3>1, CatalogConstants DEF CatalogConstants, DbOK
    <3>3. CASE k \in outlived[x]
      BY <1>5, <1>6, <3>2, <3>3 DEF CatalogInv, DetachedForGood
    <3>4. CASE x = p /\ k \in q.there
      BY <1>1, <1>5, <1>6, <3>2, <3>4 DEF Current
    <3> QED
      BY <3>1, <3>3, <3>4
  <2> QED
    BY <2>1 DEF DetachedForGood
<1>13. RequestsOK'
  <2>1. ASSUME NEW x, Shaped(x), Current(x) PROVE Current(x)'
    <3>1. CASE x.at = "adding" /\ x.table = "conversation" /\ x.want.persona # None
      <4>1. x.want.persona \in Personas
        BY <2>1, <3>1, Tables5 DEF Shaped, Conversation
      <4> QED
        BY <1>10, <2>1, <3>1, <4>1 DEF Current
    <3>2. CASE x.at = "erasing"
      <4>1. x.there \subseteq Conversations /\ x.key # None
        BY <2>1, <3>2, Tables5, CatalogConstants DEF Shaped, Request, CatalogConstants
      <4> QED
        BY <1>5, <1>6, <2>1, <3>2, <4>1 DEF Current
    <3> QED
      BY <3>1, <3>2 DEF Current
  <2>2. ASSUME NEW s \in Requests
        PROVE  (Shaped(requests[s]) /\ Narrow(requests[s]) /\ Current(requests[s]))'
    <3>1. /\ Shaped(requests'[s]) /\ Narrow(requests'[s])
      BY <1>1, FreshOK DEF CatalogInv, RequestsOK
    <3>2. Shaped(requests[s])' /\ Narrow(requests[s])'
      BY <3>1 DEF Shaped, Narrow
    <3>3. CASE s = r
      <4>1. requests'[s] = Done /\ Done.at = "done"
        BY <1>1, <3>3 DEF CatalogInv, RequestsOK, Done, Fresh
      <4> QED
        BY <3>2, <4>1 DEF Current
    <3>4. CASE s # r
      <4>1. requests'[s] = requests[s] /\ Shaped(requests[s]) /\ Current(requests[s])
        BY <1>1, <3>4 DEF CatalogInv, RequestsOK
      <4> QED
        BY <2>1, <3>2, <4>1 DEF Current
    <3> QED
      BY <3>2, <3>3, <3>4
  <2>3. DOMAIN requests' = Requests /\ requests' = [s \in Requests |-> requests'[s]]
    BY <1>1 DEF CatalogInv, RequestsOK
  <2> QED
    BY <2>2, <2>3 DEF RequestsOK
<1> QED
  BY <1>8, <1>9, <1>11, <1>12, <1>13 DEF CatalogInv

-------------------------------------------------------------------------------
\* Every step reads and decides, or writes.
LEMMA NextKinds ==
    ASSUME CatalogInv, Next
    PROVE  \/ UNCHANGED vars
           \/ \E r \in Requests : \/ \E q : QuietStep(r, q)
                                  \/ Insert(r) \/ Save(r) \/ Erase(r)
<1>1. CASE Over
  BY <1>1 DEF Over
<1>2. ASSUME NEW r \in Requests, NEW u \in Users,
             \/ CreateCharacter(r, u) \/ CreateModel(r, u) \/ CreatePersona(r, u)
             \/ \E c \in Characters :
                  \/ UpdateCharacter(r, u, c) \/ DeleteCharacter(r, u, c)
                  \/ \E m \in Models \cup {None}, p \in Personas \cup {None} :
                       StartConversation(r, u, c, m, p)
             \/ \E m \in Models :
                  UpdateModel(r, u, m) \/ Deactivate(r, u, m) \/ ChooseDefault(r, u, m)
             \/ \E p \in Personas : UpdatePersona(r, u, p) \/ DeletePersona(r, u, p)
             \/ \E k \in Conversations :
                  RenameConversation(r, u, k) \/ DeleteConversation(r, u, k)
      PROVE  \E q : QuietStep(r, q)
  BY <1>2, CharacterSteps, ModelSteps, PersonaSteps, ConversationSteps, StartSteps
<1>3. ASSUME NEW r \in Requests,
             \/ CheckUnique(r) \/ CheckDefault(r) \/ Detach(r) \/ ResolveExplicit(r)
             \/ ReadDefault(r) \/ ResolveDefault(r) \/ ResolveFirst(r) \/ VerifyPersona(r)
             \/ Fail(r)
      PROVE  \E q : QuietStep(r, q)
  BY <1>3, ModelChecks, DetachStep, ModelLookups, VerifyStep, FailStep
<1> QED
  BY <1>1, <1>2, <1>3 DEF Next

LEMMA StepInv == CatalogInv /\ [Next]_vars => CatalogInv'
<1> SUFFICES ASSUME CatalogInv, [Next]_vars PROVE CatalogInv'
  OBVIOUS
<1>1. CASE UNCHANGED vars
  <2>1. DbOK' /\ OffersDiffer' /\ PersonasReal' /\ DetachedForGood'
    BY <1>1 DEF CatalogInv, vars, DbOK, OffersDiffer, PersonasReal, DetachedForGood,
       Existing, Duplicate
  <2>2. RequestsOK'
    BY <1>1 DEF CatalogInv, vars, RequestsOK, Shaped, Narrow, Current
  <2> QED
    BY <2>1, <2>2 DEF CatalogInv
<1>2. CASE Next
  BY <1>1, <1>2, NextKinds, QuietInv, InsertInv, SaveInv, EraseInv
<1> QED
  BY <1>1, <1>2

LEMMA Invariance == Spec => []CatalogInv
  BY InitInv, StepInv, PTL DEF Spec

\* PersonaService: a conversation names a persona of its own user, and a deleted one
\* only if it was stored after the deletion had looked for conversations to detach.
THEOREM PersonasStayInPlace == Spec => []PersonasInPlace
<1>1. CatalogInv => PersonasInPlace
  <2> SUFFICES ASSUME CatalogInv, NEW k \in Conversations,
                      db.conversation[k].persona # None
               PROVE  LET row == db.conversation[k]
                      IN  /\ db.persona[row.persona].user = row.user
                          /\ k \notin outlived[row.persona]
    BY Tables5 DEF PersonasInPlace, Existing
  <2>1. db.conversation[k].persona \in Personas
    BY TablesType DEF CatalogInv, Conversation
  <2> QED
    BY <2>1 DEF CatalogInv, PersonasReal, DetachedForGood
<1> QED
  BY <1>1, Invariance, PTL

-------------------------------------------------------------------------------
\* What makes a change of a model clash.

LEMMA AddsTable ==
    ASSUME NEW u, NEW at, NEW t, NEW row
    PROVE  Adds(u, at, t, row).table = t /\ Adds(u, at, t, row).at = at
  BY DEF Adds, Fresh
LEMMA EditsTable ==
    ASSUME NEW u, NEW at, NEW t, NEW k, NEW row
    PROVE  LET q == Edits(u, at, t, k, row)
           IN  /\ q.table = t /\ q.at = at /\ q.key = k /\ q.want = row /\ q.seen = db[t][k]
  BY DEF Edits, Fresh
LEMMA DoneIsDone == Done.at = "done"
  BY DEF Done, Fresh

\* A model is to be written by a request that passed its check, or deactivates one.
Writing(q) == q.table = "model" /\ q.at \in {"adding", "saving"}

LEMMA EnteringToWrite ==
    ASSUME NEW s \in Requests, NEW u \in Users, DOMAIN requests = Requests,
           \/ CreateCharacter(s, u) \/ CreateModel(s, u) \/ CreatePersona(s, u)
           \/ \E c \in Characters :
                \/ UpdateCharacter(s, u, c) \/ DeleteCharacter(s, u, c)
                \/ \E m \in Models \cup {None}, p \in Personas \cup {None} :
                     StartConversation(s, u, c, m, p)
           \/ \E m \in Models : UpdateModel(s, u, m) \/ ChooseDefault(s, u, m)
           \/ \E p \in Personas : UpdatePersona(s, u, p) \/ DeletePersona(s, u, p)
           \/ \E k \in Conversations :
                RenameConversation(s, u, k) \/ DeleteConversation(s, u, k)
    PROVE  \E q : ~Writing(q) /\ requests' = [requests EXCEPT ![s] = q]
<1>0. /\ \A at, t, row : t # "model" \/ at = "checking" => ~Writing(Adds(u, at, t, row))
      /\ \A at, t, k, row :
           t # "model" \/ at = "checking" => ~Writing(Edits(u, at, t, k, row))
  BY AddsTable, EditsTable DEF Writing
<1> USE DEF Enters
<1>1. CASE CreateCharacter(s, u) \/ CreateModel(s, u) \/ CreatePersona(s, u)
  <2>1. \/ \E row : requests' = [requests EXCEPT ![s] = Adds(u, "adding", "character", row)]
        \/ \E row : requests' = [requests EXCEPT ![s] = Adds(u, "checking", "model", row)]
        \/ \E row : requests' = [requests EXCEPT ![s] = Adds(u, "adding", "persona", row)]
    BY <1>1 DEF CreateCharacter, CreateModel, CreatePersona
  <2> QED
    BY <1>0, <2>1
<1>2. ASSUME NEW c \in Characters, UpdateCharacter(s, u, c) \/ DeleteCharacter(s, u, c)
      PROVE  \E q : ~Writing(q) /\ requests' = [requests EXCEPT ![s] = q]
  <2>1. \E row : requests' = [requests EXCEPT ![s] = Edits(u, "saving", "character", c, row)]
    BY <1>2 DEF UpdateCharacter, DeleteCharacter
  <2> QED
    BY <1>0, <2>1
<1>3. ASSUME NEW c \in Characters, NEW m \in Models \cup {None},
             NEW p \in Personas \cup {None}, StartConversation(s, u, c, m, p)
      PROVE  \E q : ~Writing(q) /\ requests' = [requests EXCEPT ![s] = q]
  <2>1. PICK at, row :
          requests' = [requests EXCEPT ![s] = [Adds(u, at, "conversation", row) EXCEPT !.model = m]]
    BY <1>3 DEF StartConversation
  <2>2. [Adds(u, at, "conversation", row) EXCEPT !.model = m].table = "conversation"
    BY DEF Adds, Fresh
  <2> QED
    BY <2>1, <2>2 DEF Writing
<1>4. ASSUME NEW m \in Models, UpdateModel(s, u, m) \/ ChooseDefault(s, u, m)
      PROVE  \E q : ~Writing(q) /\ requests' = [requests EXCEPT ![s] = q]
  <2>1. CASE UpdateModel(s, u, m)
    <3>1. \E row : requests' = [requests EXCEPT ![s] = Edits(u, "checking", "model", m, row)]
      BY <2>1 DEF UpdateModel
    <3> QED
      BY <1>0, <3>1
  <2>2. CASE ChooseDefault(s, u, m)
    <3> DEFINE row == [model |-> m]
               q == [Edits(u, "choosing", "user", u, row) EXCEPT !.model = m]
    <3>1. requests' = [requests EXCEPT ![s] = q]
      BY <2>2 DEF ChooseDefault
    <3>2. q.table = "user"
      BY DEF Edits, Fresh
    <3> QED
      BY <3>1, <3>2 DEF Writing
  <2> QED
    BY <1>4, <2>1, <2>2
<1>5. ASSUME NEW p \in Personas, UpdatePersona(s, u, p) \/ DeletePersona(s, u, p)
      PROVE  \E q : ~Writing(q) /\ requests' = [requests EXCEPT ![s] = q]
  <2>1. \E at, row : requests' = [requests EXCEPT ![s] = Edits(u, at, "persona", p, row)]
    BY <1>5 DEF UpdatePersona, DeletePersona
  <2> QED
    BY <1>0, <2>1
<1>6. ASSUME NEW k \in Conversations, RenameConversation(s, u, k) \/ DeleteConversation(s, u, k)
      PROVE  \E q : ~Writing(q) /\ requests' = [requests EXCEPT ![s] = q]
  <2>1. \E row : requests' = [requests EXCEPT ![s] = Edits(u, "saving", "conversation", k, row)]
    BY <1>6 DEF RenameConversation, DeleteConversation
  <2> QED
    BY <1>0, <2>1
<1> QED
  BY <1>1, <1>2, <1>3, <1>4, <1>5, <1>6

LEMMA ResumingToWrite ==
    ASSUME CatalogInv, NEW s \in Requests,
           \/ CheckDefault(s) \/ Detach(s) \/ ResolveExplicit(s) \/ ReadDefault(s)
           \/ ResolveDefault(s) \/ ResolveFirst(s) \/ VerifyPersona(s) \/ Fail(s)
           \/ Insert(s) \/ Save(s) \/ Erase(s)
    PROVE  \E q : ~Writing(q) /\ requests' = [requests EXCEPT ![s] = q]
<1> DEFINE old == requests[s]
<1>1. Shaped(old) /\ ~Writing(Done)
  BY DoneIsDone DEF CatalogInv, RequestsOK, Writing
<1>2. CASE requests' = [requests EXCEPT ![s] = Done]
  BY <1>1, <1>2
<1>3. CASE CheckDefault(s)
  <2>1. old.table = "user"
    BY <1>1, <1>3 DEF CheckDefault, Shaped
  <2>2. [old EXCEPT !.at = "saving"].table = "user"
    BY <1>1, <2>1 DEF Shaped, Request
  <2> QED
    BY <1>2, <1>3, <2>2 DEF CheckDefault, Resumes, Writing
<1>4. CASE Detach(s)
  <2>1. [old EXCEPT !.at = "erasing", !.linked = Linked(old.key),
                    !.there = Existing("conversation")].at = "erasing"
    BY <1>1 DEF Shaped, Request
  <2> QED
    BY <1>4, <2>1 DEF Detach, Resumes, Writing
<1>5. ASSUME old.at \in {"explicit", "defaulting", "default", "first", "posing"}
      PROVE  /\ \A m : Picks(old, m).table = "conversation"
             /\ \A a, m : [old EXCEPT !.at = a, !.model = m].table = "conversation"
             /\ \A a : [old EXCEPT !.at = a].table = "conversation"
  <2>1. old \in Request /\ old.table = "conversation"
    BY <1>1, <1>5 DEF Shaped
  <2> QED
    BY <2>1 DEF Picks, Request
<1>6. CASE ResolveExplicit(s)
  BY <1>2, <1>5, <1>6 DEF ResolveExplicit, Resumes, Writing
<1>7. CASE ReadDefault(s)
  BY <1>5, <1>7 DEF ReadDefault, Resumes, Writing
<1>8. CASE ResolveDefault(s)
  BY <1>5, <1>8 DEF ResolveDefault, Resumes, Writing
<1>9. CASE ResolveFirst(s)
  BY <1>2, <1>5, <1>9 DEF ResolveFirst, Resumes, Ends, Writing
<1>10. CASE VerifyPersona(s)
  BY <1>2, <1>5, <1>10 DEF VerifyPersona, Resumes, Writing
<1>11. CASE Fail(s) \/ Insert(s) \/ Save(s) \/ Erase(s)
  BY <1>2, <1>11 DEF Fail, Insert, Save, Erase, Ends, Resumes
<1> QED
  BY <1>3, <1>4, <1>6, <1>7, <1>8, <1>9, <1>10, <1>11

\* Only the commits of changes of a model write the table.
LEMMA ModelsWritten ==
    ASSUME CatalogInv, Next
    PROVE  \/ db'.model = db.model
           \/ \E s \in Requests : requests[s].table = "model" /\ (Insert(s) \/ Save(s))
<1>1. CASE UNCHANGED vars
  BY <1>1 DEF vars
<1>2. ASSUME NEW s \in Requests, NEW q, QuietStep(s, q) PROVE db'.model = db.model
  BY <1>2 DEF QuietStep
<1>3. ASSUME NEW s \in Requests, Insert(s), requests[s].table # "model"
      PROVE  db'.model = db.model
  BY <1>3 DEF Insert, CatalogInv, DbOK, Names
<1>4. ASSUME NEW s \in Requests, Save(s), requests[s].table # "model"
      PROVE  db'.model = db.model
  BY <1>4 DEF Save, CatalogInv, DbOK, Names
<1>5. ASSUME NEW s \in Requests, Erase(s) PROVE db'.model = db.model
  BY <1>5 DEF Erase, CatalogInv, DbOK, Names
<1> QED
  BY <1>1, <1>2, <1>3, <1>4, <1>5, NextKinds

\* A clash is told by the request and the table of models.
ClashOf(q) ==
    /\ Writing(q)
    /\ Duplicate(IF q.key = None THEN q.want ELSE Merged(db.model[q.key], q), q.key)

LEMMA ClashIs == ASSUME NEW r PROVE Clashes(r) <=> ClashOf(requests[r])
  BY DEF Clashes, ClashOf, Writing, Written, Fits
LEMMA ClashNext ==
    ASSUME NEW r, NEW n, requests'[r] = n, db'.model = db.model
    PROVE  Clashes(r)' <=> ClashOf(n)
<1>1. Clashes(r)' <=> ClashOf(n)'
  BY DEF Clashes, ClashOf, Writing, Written, Fits, Duplicate, Existing, Merged
<1>2. ClashOf(n)' <=> ClashOf(n)
  BY DEF ClashOf, Writing, Duplicate, Existing, Merged
<1> QED
  BY <1>1, <1>2

LEMMA DeactivatingNeverClashes ==
    ASSUME CatalogInv, NEW r \in Requests, NEW u \in Users, NEW m \in Models,
           Deactivate(r, u, m)
    PROVE  ~Clashes(r)'
<1> DEFINE row == db.model[m]
           w == [row EXCEPT !.status = "DELETED"]
           q == Edits(u, "saving", "model", m, w)
<1>1. row \in Model /\ m \in Existing("model") /\ m # None
  BY TablesType, CatalogConstants DEF CatalogInv, Deactivate, CatalogConstants
<1>2. requests'[r] = q /\ db'.model = db.model
  BY DEF Deactivate, Enters, CatalogInv, RequestsOK
<1>3. w \in Model /\ w.name = row.name /\ w.place = row.place
  BY <1>1 DEF Model, Status, Live
<1> HIDE DEF w
<1>4. q.key = m /\ q.want = w /\ q.seen = row
  BY EditsTable
<1> HIDE DEF q
<1>5. Merged(row, q).name = row.name /\ Merged(row, q).place = row.place
  BY <1>1, <1>3, <1>4 DEF Merged, Model
<1>6. ~Duplicate(Merged(row, q), m)
  BY <1>1, <1>5 DEF CatalogInv, OffersDiffer, Duplicate
<1>7. ~ClashOf(q)
  BY <1>1, <1>4, <1>6 DEF ClashOf
<1> QED
  BY <1>2, <1>7, ClashNext

LEMMA CheckedChangeClashes ==
    ASSUME CatalogInv, NEW r \in Requests, CheckUnique(r), Clashes(r)'
    PROVE  Written(requests[r]) # requests[r].want
<1> DEFINE q == requests[r]
           n == [q EXCEPT !.at = IF q.key = None THEN "adding" ELSE "saving"]
<1>1. q \in Request /\ q.table = "model"
  BY DEF CatalogInv, RequestsOK, CheckUnique, Resumes, Shaped
<1>2. db'.model = db.model /\ DOMAIN requests = Requests
  BY DEF CheckUnique, CatalogInv, RequestsOK
<1>3. ~Duplicate(q.want, q.key) /\ requests'[r] = n
  <2>1. requests'[r] # Done
    <3>1. CASE requests'[r] = Done
      BY <1>2, <3>1, ClashNext, DoneIsDone DEF ClashOf, Writing
    <3> QED
      BY <3>1
  <2> QED
    BY <1>2, <2>1 DEF CheckUnique, Resumes
<1>4. n.key = q.key /\ n.want = q.want /\ n.seen = q.seen
  BY <1>1 DEF Request
<1> HIDE DEF n
<1>5. ClashOf(n)
  BY <1>2, <1>3, ClashNext
<1>6. Duplicate(IF q.key = None THEN q.want ELSE Merged(db.model[q.key], q), q.key)
  BY <1>4, <1>5 DEF ClashOf, Merged
<1> QED
  BY <1>1, <1>3, <1>6 DEF Written

LEMMA StepClashes ==
    ASSUME CatalogInv, Next, NEW r \in Requests, ~Clashes(r), Clashes(r)'
    PROVE  \/ \E s \in Requests \ {r} :
                requests[s].table = "model" /\ (Insert(s) \/ Save(s))
           \/ CheckUnique(r) /\ Written(requests[r]) # requests[r].want
<1>1. DOMAIN requests = Requests
  BY DEF CatalogInv, RequestsOK
<1>2. Writing(requests'[r])
  BY DEF Clashes, Writing
<1>3. CASE db'.model # db.model
  <2>1. PICK s \in Requests : requests[s].table = "model" /\ (Insert(s) \/ Save(s))
    BY <1>3, ModelsWritten
  <2>2. requests' = [requests EXCEPT ![s] = Done]
    BY <2>1 DEF Insert, Save, Ends, Resumes
  <2>3. s # r
    BY <1>1, <1>2, <2>2, DoneIsDone DEF Writing
  <2> QED
    BY <2>1, <2>3
<1>4. CASE db'.model = db.model
  <2>1. requests'[r] # requests[r]
    BY <1>4, ClashIs, ClashNext
  <2>2. ASSUME NEW s, NEW q, requests' = [requests EXCEPT ![s] = q] PROVE s = r /\ Writing(q)
    BY <1>1, <1>2, <2>1, <2>2
  <2>3. \/ CheckUnique(r)
        \/ \E u \in Users, m \in Models : Deactivate(r, u, m)
    <3>1. PICK s \in Requests :
            \/ CheckUnique(s) \/ \E u \in Users, m \in Models : Deactivate(s, u, m)
      <4>1. ~Over
        BY <2>1 DEF Over, vars
      <4>2. \A s \in Requests : ~\E q : ~Writing(q) /\ requests' = [requests EXCEPT ![s] = q]
        BY <2>2
      <4> QED
        BY <1>1, <4>1, <4>2, EnteringToWrite, ResumingToWrite DEF Next
    <3>2. \E q : requests' = [requests EXCEPT ![s] = q]
      BY <3>1 DEF CheckUnique, Deactivate, Resumes, Enters
    <3> QED
      BY <2>2, <3>1, <3>2
  <2> QED
    BY <2>3, DeactivatingNeverClashes, CheckedChangeClashes
<1> QED
  BY <1>3, <1>4

\* ModelService: for any number of administrators and changes, a commit meets the
\* constraint on models only because another change of a model was written between its
\* check and its commit, or its own row was changed between its reading and its check.
THEOREM ClashesAreRaces == Spec => ClashOnlyByRace
<1>1. CatalogInv /\ [Next]_vars =>
        [\A r \in Requests : ~Clashes(r) /\ Clashes(r)' =>
          \/ \E s \in Requests \ {r} :
                requests[s].table = "model" /\ (Insert(s) \/ Save(s))
          \/ CheckUnique(r) /\ Written(requests[r]) # requests[r].want]_vars
  BY StepClashes
<1> QED
  BY <1>1, Invariance, PTL DEF Spec, ClashOnlyByRace

-------------------------------------------------------------------------------
\* What no step takes back.

LEMMA WriteSticks ==
    ASSUME DbOK, NEW t \in Names, NEW k \in Keys[t], NEW row \in Rows[t], Writes(t, k, row),
           t = "conversation" /\ db[t][k].status \in Live =>
             /\ db[t][k].status # "ACTIVE" => row.status = "DELETED"
             /\ db[t][k].persona = None => row.persona = None,
           t \in {"character", "model"} /\ db[t][k].status = "DELETED" /\ row.status = "ACTIVE"
             => AskedFor(t, k, "status", "ACTIVE"),
           t = "character" /\ db[t][k].status \in Live /\ row.owner # db[t][k].owner
             => AskedFor(t, k, "owner", row.owner),
           ~(t = "persona" /\ db[t][k].status = "ERASED")
    PROVE  Sticks
<1>1. /\ db'[t] = [db[t] EXCEPT ![k] = row]
      /\ \A s \in Names \ {t} : db'[s] = db[s]
  BY WriteType
<1>2. ASSUME NEW s \in Names, NEW x \in Keys[s]
      PROVE  db'[s][x] = IF s = t /\ x = k THEN row ELSE db[s][x]
  BY <1>1 DEF DbOK
<1>3. ASSUME NEW x \in Existing("conversation")
      PROVE  /\ ~Active("conversation", x) => db'.conversation[x].status = "DELETED"
             /\ db.conversation[x].persona = None => db'.conversation[x].persona = None
  <2>1. /\ x \in Keys["conversation"] /\ db["conversation"][x].status \in Live
        /\ "conversation" \in Names
    BY Tables5 DEF Existing, Names
  <2>2. db'["conversation"][x] = IF "conversation" = t /\ x = k THEN row
                                 ELSE db["conversation"][x]
    BY <1>2, <2>1
  <2> QED
    BY <2>1, <2>2 DEF Active, Live
<1>4. ASSUME NEW s \in {"character", "model"}, NEW x \in Existing(s),
             db[s][x].status = "DELETED", db'[s][x].status = "ACTIVE"
      PROVE  AskedFor(s, x, "status", "ACTIVE")
  <2>1. s \in Names /\ x \in Keys[s]
    BY DEF Names, Existing
  <2> QED
    BY <1>2, <1>4, <2>1
<1>5. ASSUME NEW x \in Existing("character"), db'.character[x].owner # db.character[x].owner
      PROVE  AskedFor("character", x, "owner", db'.character[x].owner)
  <2>1. /\ x \in Keys["character"] /\ db["character"][x].status \in Live
        /\ "character" \in Names
    BY DEF Names, Existing
  <2>2. db'["character"][x] = IF "character" = t /\ x = k THEN row ELSE db["character"][x]
    BY <1>2, <2>1
  <2> QED
    BY <1>5, <2>1, <2>2
<1>6. ASSUME NEW x \in Personas, db.persona[x].status = "ERASED"
      PROVE  db'.persona[x] = db.persona[x]
  <2>1. x \in Keys["persona"] /\ "persona" \in Names
    BY Tables5 DEF Names
  <2>2. db'["persona"][x] = IF "persona" = t /\ x = k THEN row ELSE db["persona"][x]
    BY <1>2, <2>1
  <2> QED
    BY <1>6, <2>2
<1> QED
  BY <1>3, <1>4, <1>5, <1>6 DEF Sticks

LEMMA InsertSticks == ASSUME CatalogInv, NEW r \in Requests, Insert(r) PROVE Sticks
<1> DEFINE q == requests[r]
           t == q.table
           free == {k \in Keys[t] : db[t][k].status = "NONE"}
<1>1. DbOK /\ t \in Names /\ q.want \in Rows[t]
  BY DEF CatalogInv, RequestsOK, Insert, Shaped, Request
<1>2. PICK k \in free : Writes(t, k, q.want)
  BY DEF Insert, Writes
<1>3. k \in Keys[t] /\ db[t][k].status = "NONE"
  OBVIOUS
<1> QED
  BY <1>1, <1>2, <1>3, WriteSticks DEF Live

LEMMA HasStatus ==
    ASSUME NEW t \in Names, NEW row \in Rows[t]
    PROVE  t # "user" => "status" \in DOMAIN row
<1>1. CASE t = "character"
  BY <1>1, Tables5 DEF Character
<1>2. CASE t = "model"
  BY <1>2, Tables5 DEF Model
<1>3. CASE t = "persona"
  BY <1>3, Tables5 DEF Persona
<1>4. CASE t = "conversation"
  BY <1>4, Tables5 DEF Conversation
<1> QED
  BY <1>1, <1>2, <1>3, <1>4 DEF Names

LEMMA SaveSticks == ASSUME CatalogInv, NEW r \in Requests, Save(r) PROVE Sticks
<1> DEFINE q == requests[r]
           t == q.table
           k == q.key
           old == db[t][k]
           row == Merged(old, q)
<1>1. DbOK /\ Shaped(q) /\ Narrow(q) /\ q.at = "saving"
  BY DEF CatalogInv, RequestsOK, Save
<1>2. /\ t \in Names /\ k \in Keys[t] /\ q.seen \in Rows[t] /\ q.want \in Rows[t]
  BY <1>1 DEF Shaped, Request
<1>3. old \in Rows[t]
  BY <1>1, <1>2 DEF DbOK
<1>4. /\ row \in Rows[t]
      /\ \A c \in DOMAIN old : /\ q.want[c] = q.seen[c] => row[c] = old[c]
                               /\ q.want[c] # q.seen[c] => row[c] = q.want[c]
  BY <1>2, <1>3, MergedIs
<1>5. Writes(t, k, row) /\ (t = "persona" => row.status # "ERASED")
  BY DEF Save, Writes, Fits
<1> HIDE DEF row
<1>6. t # "user" => "status" \in DOMAIN old
  BY <1>2, <1>3, HasStatus
<1>7. ASSUME t = "conversation", old.status \in Live
      PROVE  /\ old.status # "ACTIVE" => row.status = "DELETED"
             /\ old.persona = None => row.persona = None
  <2>1. "persona" \in DOMAIN old
    BY <1>3, <1>7, Tables5 DEF Conversation
  <2>2. /\ q.want["persona"] = q.seen["persona"]
        /\ q.want["status"] \in {q.seen["status"], "DELETED"}
    BY <1>1, <1>7 DEF Narrow
  <2> QED
    BY <1>4, <1>6, <1>7, <2>1, <2>2 DEF Live
<1>8. ASSUME t \in {"character", "model"}, old.status = "DELETED", row.status = "ACTIVE"
      PROVE  AskedFor(t, k, "status", "ACTIVE")
  <2>1. q.seen["status"] # "ACTIVE" /\ q.want["status"] = "ACTIVE"
    BY <1>4, <1>6, <1>8
  <2>2. q.user \in Admins
    BY <1>1, <1>8, <2>1 DEF Narrow
  <2> QED
    BY <1>1, <2>1, <2>2 DEF AskedFor
<1>9. ASSUME t = "character", row.owner # old.owner
      PROVE  AskedFor(t, k, "owner", row.owner)
  <2>1. "owner" \in DOMAIN old
    BY <1>3, <1>9, Tables5 DEF Character
  <2>2. q.seen["owner"] # row.owner /\ q.want["owner"] = row.owner
    BY <1>4, <1>9, <2>1
  <2>3. q.user \in Admins
    BY <1>1, <1>9, <2>2 DEF Narrow
  <2> QED
    BY <1>1, <2>2, <2>3 DEF AskedFor
<1>10. ~(t = "persona" /\ old.status = "ERASED")
  <2> SUFFICES ASSUME t = "persona", old.status = "ERASED" PROVE FALSE
    OBVIOUS
  <2>1. q.want["status"] = q.seen["status"]
    BY <1>1 DEF Narrow
  <2> QED
    BY <1>4, <1>5, <1>6, <2>1
<1> QED
  BY <1>1, <1>2, <1>4, <1>5, <1>7, <1>8, <1>9, <1>10, WriteSticks

LEMMA EraseSticks == ASSUME CatalogInv, NEW r \in Requests, Erase(r) PROVE Sticks
<1> DEFINE q == requests[r]
           p == q.key
<1>1. DbOK /\ Shaped(q) /\ q.at = "erasing"
  BY DEF CatalogInv, RequestsOK, Erase, Ends, Resumes
<1>2. p \in Personas
  BY <1>1, Tables5 DEF Shaped
<1>3. /\ db.persona \in [Personas -> Persona]
      /\ db.conversation \in [Conversations -> Conversation]
  BY <1>1, TablesType
<1>4. /\ db'.persona = [db.persona EXCEPT ![p].status = "ERASED"]
      /\ db'.conversation = [k \in Conversations |-> IF k \in q.linked
                               THEN [db.conversation[k] EXCEPT !.persona = None]
                               ELSE db.conversation[k]]
      /\ db'.character = db.character /\ db'.model = db.model
  BY <1>1 DEF Erase, DbOK, Names
<1>5. \A k \in Existing("conversation") :
        /\ ~Active("conversation", k) => db'.conversation[k].status = "DELETED"
        /\ db.conversation[k].persona = None => db'.conversation[k].persona = None
  BY <1>3, <1>4, Tables5 DEF Existing, Active, Live, Conversation
<1>6. \A x \in Personas : db.persona[x].status = "ERASED" => db'.persona[x] = db.persona[x]
  BY <1>2, <1>3, <1>4 DEF Persona
<1> QED
  BY <1>4, <1>5, <1>6 DEF Sticks

LEMMA StepSticks == CatalogInv /\ [Next]_vars => [Sticks]_vars
<1> SUFFICES ASSUME CatalogInv, Next PROVE Sticks \/ UNCHANGED vars
  OBVIOUS
<1>1. ASSUME NEW r \in Requests, NEW q, QuietStep(r, q) PROVE Sticks
  <2>1. db' = db
    BY <1>1 DEF QuietStep
  <2> QED
    BY <2>1 DEF Sticks, Existing, Active, Live
<1> QED
  BY <1>1, NextKinds, InsertSticks, SaveSticks, EraseSticks

\* CharacterService, ConversationService, ModelService: what was deleted or detached
\* stays so, and a character whose it is, under every change that was read before, unless
\* an administrator who saw it otherwise asks for just that.
THEOREM DeletionsStay == Spec => DeletionsStick
  BY Invariance, StepSticks, PTL DEF Spec, DeletionsStick
===============================================================================
