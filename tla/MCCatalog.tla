----------------------------- MODULE MCCatalog -----------------------------
(* Small instances of Catalog: one server that may change between reads.   *)
EXTENDS Catalog, TLC

CONSTANTS h1, h2, t1, t2, ann, bob, gus, d1, d2, a1, a2, x1, x2, c1, c2

TwoHandlers == {h1, h2}
OneTask == {t1}
TwoTasks == {t1, t2}

V1 == [protocol |-> 1, tools |-> {"read"}, version |-> 1]
V2 == [V1 EXCEPT !.version = 2]
Grown == [V1 EXCEPT !.tools = {"read", "write"}]
LiveServers == {V1, V2, Grown}
TwoVersions == {V1, V2}

Decl == [protocol |-> 1, tools |-> {"read"}, expect |-> None, class |-> 1, scope |-> {"elsewhere"}]
DeclV1 == [Decl EXCEPT !.expect = 1]
Digest(l) == BuildDescriptor(Decl, l)

\* An actor may hold several roles, but not reviewer and grant manager.  The
\* operator moves gus from one to the other; the file with both is refused.
Good == {<<ann, "catalog_manager">>, <<ann, "catalog_reviewer">>, <<bob, "catalog_manager">>, <<gus, "grant_manager">>}
Moved == {<<bob, "catalog_manager">>, <<gus, "catalog_reviewer">>}
RoleFiles == {Good, Moved, Good \cup Moved}

Discover(actor, decl) == [kind |-> "discover", actor |-> actor, decl |-> decl, rev |-> 0]
Review(actor, r, l) == [kind |-> "review", actor |-> actor, decision |-> "approved", rev |-> r, digest |-> Digest(l)]
Disable(r) == [kind |-> "disable", actor |-> bob, rev |-> r]
Create(actor, g) ==
    [kind |-> "create", actor |-> actor, rev |-> 1, digest |-> Digest(V1), methods |-> {"read"}, class |-> 1, grant |-> g]

Asked ==
    (d1 :> Discover(ann, Decl)) @@ (d2 :> Discover(bob, DeclV1)) @@
    (a1 :> Review(ann, 1, V1)) @@ (a2 :> Review(gus, 1, V1)) @@
    (x1 :> Disable(1)) @@ (x2 :> Disable(2)) @@
    (c1 :> Create(gus, 1)) @@ (c2 :> Create(gus, 2))

GrantCommands == {d1, d2, a1, a2, x1, c1}
AskedForGrants == [c \in GrantCommands |-> Asked[c]]
OrderCommands == {d1, d2, a1, x2}
AskedForOrder == [c \in OrderCommands |-> Asked[c]]

Symmetry == Permutations(TwoHandlers)
=============================================================================
