------------------------------ MODULE MCAccounts ------------------------------
(* Accounts on small instances: the .cfg files give the constants values. *)
EXTENDS Accounts, TLC

CONSTANTS u1, u2, u3, n1, n2, n3, m1, e1, g1, g2

\* Two Google accounts with one address, which was reassigned, and the username of u1.
MCEmailOf == [g \in Identities |-> e1]
MCCandidates == [g \in Identities |-> <<n1, n3>>]

Plain(n) == [NewRow EXCEPT !.name = n]
Table(first, second) == [u \in Users |-> CASE u = u1 -> first [] u = u2 -> second
                                           [] OTHER -> Absent]
\* A new user alone; one who has the second step on, from before
\* there was a choice of channel, beside a new one; and one who came from Google.
MCTables ==
    {Table(Plain(n1), Absent),
     Table([Plain(n1) EXCEPT !.mobile = m1, !.enabled = TRUE], Plain(n2)),
     Table([Plain(n1) EXCEPT !.email = e1, !.sub = g1], Plain(n2))}

Symmetry == Permutations(Requests)
===============================================================================
