------------------------------ MODULE MCRestores ------------------------------
(* Instances of Restores: checkpoints of one role beside what a platform runs. *)
EXTENDS Restores, TLC
CONSTANTS p1, p2, k1, k2, app, auth, t1, t2
TwoProcs == {p1, p2}
TwoKeys == {k1, k2}
TwoSchemas == {app, auth}
Platform == {auth}
Mine == {app, auth}
Tables == {<<app, t1>>, <<app, t2>>, <<auth, t1>>}

\* Something of the platform, as a trigger, uses something of the application.
Trigger == {<< <<auth, t1>>, <<app, t1>> >>}

\* A checkpoint of this role's schema, and a dump of everything it can read.
Dumped == (k1 :> {<<app, t1>>}) @@ (k2 :> {<<app, t1>>, <<auth, t1>>})

Asked(kind, key, strict, checksum, wanted, all) ==
    [kind |-> kind, key |-> key, strict |-> strict, checksum |-> checksum,
     wanted |-> wanted, all |-> all]

SomeJobs == {Asked("locked", k1, TRUE, FALSE, {app}, FALSE),
             Asked("locked", k2, TRUE, FALSE, {app, auth}, FALSE),
             Asked("locked", k2, TRUE, TRUE, {}, TRUE),
             Asked("locked", k1, FALSE, FALSE, {app}, FALSE),
             Asked("bare", k2, FALSE, FALSE, {}, TRUE),
             Asked("command", k1, FALSE, FALSE, {}, TRUE)}
Symmetry == Permutations(TwoProcs)
=============================================================================
