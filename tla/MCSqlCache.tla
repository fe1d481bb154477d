---------------------------- MODULE MCSqlCache ----------------------------
EXTENDS SqlCache, TLC

\* A query with two parameters and one with none.
TwoAndNone == (1 :> 2) @@ (2 :> 0)
Total == <<2, <<>>>>
Entry == <<1, <<"a", "b">>>>

\* Updates: of a row, of the rows of a value of the first parameter together with what
\* the second query finds, of the rows of a value of the second parameter.
Row == {Entry}
Group == {<<1, <<"a", "null">>>>, Total}
Column == {<<1, <<"null", "b">>>>}

\* Pages that hold the lock for reading at the same time.
Readers == {[reads |-> {Entry}, dmls |-> {}]}
\* Two pages of which each changes what the other reads, and readers.
Crossed == {[reads |-> {Entry}, dmls |-> {Group}],
            [reads |-> {Total}, dmls |-> {Row, Column}]} \cup Readers
Threads == Permutations(Workers)
=============================================================================
