------------------------- MODULE MCExceptionUnwind -------------------------
(* Instances of ExceptionUnwind for TLC.                                     *)
EXTENDS ExceptionUnwind

CONSTANTS c1, c2

\* One clause, which does not accept every exception, and two whose order
\* matters.  Before a clause that does not match, a statement without clauses
\* is like the first.
ClauseLists == {<<c1>>, <<c1, AnyType>>}
=============================================================================
