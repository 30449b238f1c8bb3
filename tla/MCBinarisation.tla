---------------------------- MODULE MCBinarisation ----------------------------
\* Shapes of the table: the asserted one, the widest that satisfies the
\* assertion, and the one that the comment of put_branched describes.
EXTENDS Binarisation

MCTables == {<<2, 2>>, <<3, 4>>, <<1, 2>>}
=============================================================================
