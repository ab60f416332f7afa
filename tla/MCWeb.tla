------------------------------- MODULE MCWeb -------------------------------
(***************************************************************************)
(* Signing in, and what is said about repositories.  Each behaviour shows  *)
(* one part, with the others at rest: "login", from a later state of the   *)
(* process with sessions of two users in its table; "topics", the          *)
(* processes that assign categories; "analyses", those that import them.   *)
(***************************************************************************)
EXTENDS Login, Catalogue, TLC

CONSTANTS u, v \* the users of the sessions in the table

ASSUME WebAssumption == {u, v} \subseteq Users /\ MaxDrawn >= 3

VARIABLE part

TwoTexts == {{"agent"}, {"coding", "multi-agent"}}

Stored(n, w, t) == [row |-> n, token |-> n, login |-> n, user |-> w, created |-> t, expires |-> t + SessionTicks]

(* An overlap of two logins left the rows out of the order of creation. *)
LoginLater ==
    /\ clock = 1
    /\ buckets = [a \in Addresses |-> NoBucket]
    /\ states = {}
    /\ sessions = {Stored(1, u, 1), Stored(2, u, 0), Stored(3, v, 0)}
    /\ allowed \in SUBSET Users \ {{}}
    /\ cookie = [b \in Browsers |-> [binding |-> 0, session |-> 1]]
    /\ request = [q \in Requests |-> NoRequest]
    /\ drawn = 3

WebInit ==
    /\ part \in {"login", "topics", "analyses"}
    /\ LoginLater
    /\ CatalogueInit
    /\ part # "topics" => \A r \in Projects : text[r] = {"agent"} /\ assigned[r] = [s \in Slugs |-> NoAssignment]
    /\ part # "topics" => topics = Slugs

CatalogueStep ==
    /\ CatalogueNext
    /\ \/ part = "topics" /\ analysis' = analysis
       \/ part = "analyses" /\ assigned' = assigned

WebNext ==
    /\ UNCHANGED part
    /\ \/ part = "login" /\ LoginNext /\ UNCHANGED catalogueVars
       \/ CatalogueStep /\ UNCHANGED loginVars

WebSpec == WebInit /\ [][WebNext]_<<loginVars, catalogueVars, part>>

Symmetric == Permutations(Requests) \cup Permutations(Addresses) \cup Permutations(Writers)

WebTypeOK == LoginTypeOK /\ CatalogueTypeOK
=============================================================================
