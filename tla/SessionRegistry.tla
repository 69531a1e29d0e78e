--------------------------- MODULE SessionRegistry ---------------------------
(***************************************************************************)
(* What SessionManager promises its callers: a registry of live sessions,  *)
(* in which an id names at most one of them.  A session that is created is *)
(* registered, under an id that no live session has; every other entry     *)
(* stays.  Unregistering removes exactly one entry.                        *)
(***************************************************************************)
EXTENDS Naturals

CONSTANT Sessions

VARIABLES live,      \* the live sessions: a function from ids to Sessions
          created    \* the sessions that were ever created

Init ==
    /\ live = [id \in {} |-> id]
    /\ created = {}

\* The id is read off the next state: it is any natural number not in use.
Register(s) ==
    /\ s \notin created
    /\ created' = created \cup {s}
    /\ \E id \in DOMAIN live' \ DOMAIN live :
          /\ id \in Nat
          /\ live' = [i \in DOMAIN live \cup {id} |-> IF i = id THEN s ELSE live[i]]

Unregister(id) ==
    /\ live' = [i \in DOMAIN live \ {id} |-> live[i]]
    /\ UNCHANGED created

Next ==
    \/ \E s \in Sessions : Register(s)
    \/ \E id \in DOMAIN live : Unregister(id)

Spec == Init /\ [][Next]_<<live, created>>
=============================================================================
