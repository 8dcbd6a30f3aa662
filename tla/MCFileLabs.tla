------------------------------ MODULE MCFileLabs ------------------------------
EXTENDS FileLabs

\* Powers of two, as 4 MiB over the page size is.  With one page a failed
\* write leaves the file empty, as a full disk does with any number.
MCPageCounts == {2 ^ k : k \in {0, 2}}
=============================================================================
