------------------------------ MODULE MC_Stream ------------------------------
EXTENDS Stream

\* s1 subscribes to both names, any other connection only to n1, so n2 is
\* created by s1 alone.
MC_SubNames == [t \in Subs |-> IF t = "s1" THEN Names ELSE Names \ {"n2"}]

\* Every connection may subscribe to every name.
MC_SubNamesAll == [t \in Subs |-> Names]
=============================================================================
