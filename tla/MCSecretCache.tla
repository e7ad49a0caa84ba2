--------------------------- MODULE MCSecretCache ---------------------------
(***************************************************************************)
(* Values for checking SecretCache: two instances, which have a scope each *)
(* on one store (two credentials) or on two, or share a scope from two     *)
(* builds; or one instance.                                                *)
(***************************************************************************)
EXTENDS SecretCache, TLC

CONSTANTS st1, st2, n1, n2, c1, c2, i1, i2, t1, t2, b1, b2

TwoCredentials ==
    [storeOf |-> (c1 :> st1) @@ (c2 :> st1), scopeOf |-> (i1 :> c1) @@ (i2 :> c2),
     build |-> (i1 :> b1) @@ (i2 :> b1)]
TwoStores == [TwoCredentials EXCEPT !.storeOf = (c1 :> st1) @@ (c2 :> st2)]
TwoBuilds == [TwoCredentials EXCEPT !.scopeOf = (i1 :> c1) @@ (i2 :> c1),
                                    !.build = (i1 :> b1) @@ (i2 :> b2)]

Shared == {TwoCredentials, TwoStores, TwoBuilds}
Credentials == {TwoCredentials}
Alone == {[storeOf |-> c1 :> st1, scopeOf |-> i1 :> c1, build |-> i1 :> b1]}

OneEach == (t1 :> i1) @@ (t2 :> i2)
JustT1  == (t1 :> i1)
TwoOnI1 == (t1 :> i1) @@ (t2 :> i1)

ReadsAndWrites == [t \in Tasks |-> {"exact", "prefix", "store", "delete"}]
ReaderAndWriter == (t1 :> {"exact", "prefix"}) @@ (t2 :> {"store", "delete"})
Readers == [t \in Tasks |-> {"exact", "prefix"}]
=============================================================================
