------------------------ MODULE MCPostgresToMongo ------------------------
(* Instances of PostgresToMongo: the ways in which tables refer to others.  *)
EXTENDS PostgresToMongo

Shop == <<"items", "order", "orders", "users">>
Plurals == [t \in {"items", "order", "orders", "users"} |->
               IF t = "order" THEN "orders" ELSE t \o "es"]

To(t) == [to |-> t, unique |-> FALSE, alone |-> FALSE]
OnlyOneTo(t) == [to |-> t, unique |-> TRUE, alone |-> TRUE]
OneOfManyTo(t) == [to |-> t, unique |-> TRUE, alone |-> FALSE]
Plain(keys, n) == [keys |-> keys, plain |-> n, narrow |-> n < 3, large |-> FALSE, first |-> "key"]
Large(keys) == [Plain(keys, 1) EXCEPT !.large = TRUE]
FirstIs(kind, t) == [t EXCEPT !.first = kind]
Design(items, order, orders, users) ==
    [t \in {"items", "order", "orders", "users"} |->
        CASE t = "items" -> items [] t = "order" -> order
          [] t = "orders" -> orders [] t = "users" -> users]

Alone == Plain(<<>>, 1)
Wide == Plain(<<>>, 4)
\* A child of each kind, two keys away, to itself, a bare junction and one that is not.
Star == Design(Plain(<<OnlyOneTo("users")>>, 1), Plain(<<To("orders")>>, 1),
               Plain(<<To("users")>>, 3), Alone)
Tree == Design(Plain(<<To("items")>>, 1), Plain(<<OneOfManyTo("users")>>, 1),
               Large(<<To("users")>>), Alone)
Bare == Design(Plain(<<To("order"), To("users")>>, 0), Alone, Plain(<<To("users")>>, 3), Wide)
\* Two keys to one table, two junctions to one table, a junction and a table of that name.
Twice == Design(Plain(<<To("users"), OnlyOneTo("users")>>, 3), Alone,
                Plain(<<OnlyOneTo("users"), To("users")>>, 3), Alone)
Pairs == Design(Plain(<<To("order"), To("users")>>, 1), Alone,
                Plain(<<To("order"), To("users")>>, 1), Alone)
Named == Design(Plain(<<To("order"), To("users")>>, 1), Alone, Plain(<<To("users")>>, 3), Alone)
\* Pages without an order of their own.
Ties == Design(Plain(<<To("users")>>, 3), FirstIs("part", Alone), FirstIs("other", Alone),
               Plain(<<To("orders")>>, 3))
AllDesigns == {Star, Tree, Bare, Twice, Pairs, Named, Ties}

R(i, refs) == [id |-> i, first |-> i, key |-> i, refs |-> refs, new |-> i = 2]
AllContents == [d \in AllDesigns |->
    [t \in {"items", "order", "orders", "users"} |->
        LET refs == [k \in DOMAIN d[t].keys |-> 1]
        IN  CASE t = "users" -> {R(1, refs), R(2, refs)}
              [] t = "order" /\ d = Ties -> {R(1, refs), [R(2, refs) EXCEPT !.first = 1],
                                             [R(3, refs) EXCEPT !.key = 1]}
              [] t = "orders" /\ d = Ties -> {R(1, refs), [R(2, refs) EXCEPT !.first = 1]}
              [] OTHER -> {R(1, refs)}]]
=============================================================================
