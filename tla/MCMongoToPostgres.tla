------------------------ MODULE MCMongoToPostgres ------------------------
(* Instances of MongoToPostgres.                                            *)
EXTENDS MongoToPostgres

\* Posts refer to users and come before them; users have an object, posts an array.
Blog == <<"posts", "users">>
BlogRefers == [c \in {"posts", "users"} |-> IF c = "posts" THEN "users" ELSE "none"]

Post(v, r, e) == [value |-> v, ref |-> r, nested |-> "none", list |-> TRUE, items |-> e]
User(n) == [value |-> "none", ref |-> 0, nested |-> n, list |-> FALSE, items |-> <<>>]

Typical == Post("int", 1, <<"object", "object">>)
Odd == Post("string", 2, <<"empty">>)

BlogShapes == [c \in {"posts", "users"} |->
    IF c = "posts" THEN {Typical, Odd} ELSE {User("int"), User("string")}]
BlogInitial == [c \in {"posts", "users"} |->
    IF c = "posts" THEN <<Typical, Odd>> ELSE <<User("int")>>]

\* dry, incremental
BlogModes == {<<TRUE, FALSE>>, <<FALSE, FALSE>>, <<FALSE, TRUE>>}
=============================================================================
