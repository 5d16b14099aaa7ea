--------------------------- MODULE MCSearchPages ---------------------------
(* SearchPages with two products, three versions and an hour, a day of two hours. *)
EXTENDS SearchPages

CONSTANTS p1, p2, v1, v2, v3

Report(p, v) == [product |-> p, version |-> v, signature |-> v]

\* A crash of a new version.
NewReports == {Report(p1, v3)}

At(r, t) == [date |-> t] @@ r

\* Two selections have two reports each, and all of them are three pages and one report that
\* names no product.
FirstIndexes == {{At(Report(p1, v1), 6), At(Report(p2, v1), 7), At(Report(None, v1), 8), At(Report(p1, v2), 10)}}

Everything == [product |-> {}, version |-> {}, gte |-> None, lt |-> None]

PageChoices == [search  |-> {Everything, [Everything EXCEPT !.product = {p1, p2}, !.version = {v1}, !.gte = 7],
                             [Everything EXCEPT !.product = {p1}, !.lt = 12]},
                reports |-> {Everything, [Everything EXCEPT !.product = {p1}], [Everything EXCEPT !.version = {v1}]},
                home    |-> {Everything}]

DaylightSaving == {-1, 0, 1}
=============================================================================
