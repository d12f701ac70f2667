------------------------------ MODULE MCCatalog ------------------------------
EXTENDS Catalog, TLC

CONSTANTS u1, admin, c1, c2, p1, p2, k1, k2, r1, r2

\* u1 has a character, a persona and a conversation with both; two models are on offer.
MCTable ==
    [character |-> [c \in Characters |-> IF c = c1
        THEN [owner |-> u1, text |-> "given", status |-> "ACTIVE"]
        ELSE [owner |-> None, text |-> "given", status |-> "NONE"]],
     model |-> [m \in Models |-> CASE m = 1 -> [name |-> "a", place |-> "x", status |-> "ACTIVE"]
                                   [] m = 2 -> [name |-> "b", place |-> "y", status |-> "ACTIVE"]
                                   [] OTHER -> [name |-> None, place |-> None, status |-> "NONE"]],
     persona |-> [p \in Personas |-> IF p = p1
        THEN [user |-> u1, text |-> "given", status |-> "ACTIVE"]
        ELSE [user |-> None, text |-> "given", status |-> "NONE"]],
     conversation |-> [k \in Conversations |-> IF k = k1
        THEN [user |-> u1, character |-> c1, model |-> 1, persona |-> p1,
              text |-> "given", status |-> "ACTIVE"]
        ELSE [user |-> None, character |-> None, model |-> None, persona |-> None,
              text |-> "given", status |-> "NONE"]],
     user |-> [u \in Users |-> [model |-> IF u = u1 THEN 2 ELSE None]]]

\* The character may be built-in, and what is there may have been deleted before.
MCTables ==
    {[MCTable EXCEPT !.character[c1].owner = o, !.character[c1].status = s,
                     !.model[2].status = s, !.conversation[k1].status = t] :
        o \in {u1, None}, s \in Live, t \in Live}
Symmetry == Permutations(Requests)
==============================================================================
