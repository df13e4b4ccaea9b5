----------------------------- MODULE MCKeyLayout -----------------------------
EXTENDS KeyLayout

\* Every single character, and every pair of those the table has.
MCPasswords == {<<a>> : a \in 1 .. 255} \cup {<<a, b>> : a, b \in 1 .. 127}
MCStrayOutput == {<<>>, <<48>>}
MCBeyondTable == {0, 4, 47, 98, 255}
=============================================================================
