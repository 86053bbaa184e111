-------------------------- MODULE MCDatabaseCopy --------------------------
(* Instances of DatabaseCopy.                                               *)
EXTENDS DatabaseCopy

\* An order refers to a user, whose name comes after it, and to the order it
\* replaces; a note refers to a user and has no key.
Shop == <<"notes", "orders", "users">>
ShopRefs == {<<"notes", "users">>, <<"orders", "users">>, <<"orders", "orders">>}
ShopKeyed == {"orders", "users"}
ShopTyped == {"notes", "orders"}
AllModes == {"full", "schema", "data", "tools", "tools schema", "tools data"}
=============================================================================
